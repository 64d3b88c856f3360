--------------------------- MODULE KernelManager ---------------------------
(***************************************************************************)
(* The kernel process manager of the client TUI: start, stop, the goroutine *)
(* that waits for the child, the menu thread and the signal handler that    *)
(* share it.  start holds km.mu from its first line until it returns; every *)
(* other use of km.mu is a short critical section, one step here.           *)
(* A kernel is the number of the start that made it, and stands for its     *)
(* process, its temporary directory and its exitCh.  The branch of stop for *)
(* Windows is left out.  ClientTuiProofs extends this module and ConfigStore *)
(* together, so no name is defined in both.                                 *)
(***************************************************************************)
EXTENDS Naturals

CONSTANTS MaxStarts,  \* bound: kernels started in a behaviour
          MaxTail     \* log lines kept (40 in the code)

ASSUME ManagerAssumption == MaxStarts \in Nat /\ MaxTail \in Nat \ {0}

Kernels == 1 .. MaxStarts
Threads == {"menu", "signal"}
None    == 0

VARIABLES mu,       \* km.mu is held (by start, on the menu thread)
          proc,     \* km.proc and km.cmd: the kernel known to run, or None
          dir,      \* km.dir and km.logFile: the kernel they belong to, or None
          exitCh,   \* km.exitCh: the kernel whose exit closes it
          tail,     \* length of km.logTail
          at,       \* where each thread is
          leaving,  \* the menu loop is over and main's deferred stop runs
          target,   \* the kernel a stop in progress has read, per thread
          kernel,   \* state of each child process
          killed,   \* kernels sent SIGKILL
          reaped,   \* kernels whose exitCh is closed
          dirs,     \* temporary directories on disk
          started,  \* kernels started so far
          foreign,  \* another program listens on the SOCKS port
          exited    \* the TUI process has ended

km    == <<mu, proc, dir, exitCh, tail>>
procs == <<kernel, killed, reaped, started>>
managerVars == <<km, procs, dirs, at, target, foreign, leaving, exited>>

ManagerInit == /\ mu = FALSE /\ proc = None /\ dir = None /\ exitCh = None /\ tail = 0
               /\ at = [t \in Threads |-> IF t = "menu" THEN "menu" ELSE "idle"]
               /\ target = [t \in Threads |-> None]
               /\ kernel = [k \in Kernels |-> "none"]
               /\ killed = {} /\ reaped = {} /\ dirs = {} /\ started = 0
               /\ foreign = FALSE /\ leaving = FALSE /\ exited = FALSE

Alive(k)     == kernel[k] \in {"running", "listening"}
PortTaken    == foreign \/ \E k \in Kernels : kernel[k] = "listening"
MoveTo(t, l) == at' = [at EXCEPT ![t] = l]
Goroutine    == ~exited   \* every goroutine ends with the process

\* km.mu can be taken: sync.Mutex is not reentrant.
LockFree == ~mu

\* cleanupLocked: the directory the manager knows of is removed.
CleanupLocked == /\ dirs' = dirs \ {dir} /\ dir' = None /\ proc' = None

\* A wait for the exit of kernel k with a time limit ends: exitCh is closed, or
\* the limit passes because k was not killed or its waiter cannot take km.mu.
Waited(k) == k \in reaped \/ mu \/ (Alive(k) /\ k \notin killed)

-----------------------------------------------------------------------------
(* start, on the menu thread.                                              *)

\* actionStart, after runningPID said that nothing runs (or raced the exit).
ActionStart == /\ Goroutine /\ at["menu"] = "menu" /\ LockFree /\ proc = None
               /\ MoveTo("menu", "start")
               /\ UNCHANGED <<km, procs, dirs, target, foreign, leaving, exited>>

\* Lock; a port in use, or a file that cannot be written, ends start and the
\* directory made so far is removed again.
StartFails == /\ Goroutine /\ at["menu"] = "start" /\ LockFree
              /\ MoveTo("menu", "menu")
              /\ UNCHANGED <<km, procs, dirs, target, foreign, leaving, exited>>

\* Lock; files written, cmd.Start done, goroutines created: now wait for the port.
StartKernel == /\ Goroutine /\ at["menu"] = "start" /\ LockFree
               /\ proc = None /\ ~PortTaken /\ started < MaxStarts
               /\ LET k == started + 1
                  IN /\ started' = k /\ kernel' = [kernel EXCEPT ![k] = "running"]
                     /\ dirs' = dirs \cup {k} /\ dir' = k /\ proc' = k /\ exitCh' = k
               /\ tail' = 0 /\ mu' = TRUE
               /\ MoveTo("menu", "waitPort")
               /\ UNCHANGED <<killed, reaped, target, foreign, leaving, exited>>

\* Five seconds without an answer from the port: kill, unless exitCh is closed.
PortTimeout == /\ Goroutine /\ at["menu"] = "waitPort" /\ ~PortTaken
               /\ killed' = IF exitCh \in reaped THEN killed ELSE killed \cup {exitCh}
               /\ MoveTo("menu", "waitExit")
               /\ UNCHANGED <<km, kernel, reaped, started, dirs, target, foreign, leaving, exited>>

\* exitCh or five more seconds, then start calls tailLog.
StartGivesUp == /\ Goroutine /\ at["menu"] = "waitExit" /\ Waited(exitCh)
                /\ MoveTo("menu", "tailLog")
                /\ UNCHANGED <<km, procs, dirs, target, foreign, leaving, exited>>

\* start returns: the port answers, or the log lines have been copied, for which
\* tailLog takes km.mu.
StartDone == IF at["menu"] = "tailLog" THEN LockFree ELSE PortTaken

ReturnHoldingLock == mu' = mu
ReturnUnlocks     == mu' = FALSE

StartReturns == /\ Goroutine /\ at["menu"] \in {"waitPort", "tailLog"} /\ StartDone
                /\ IF at["menu"] = "tailLog" THEN CleanupLocked
                   ELSE UNCHANGED <<proc, dir, dirs>>
                /\ ReturnUnlocks /\ MoveTo("menu", "menu")
                /\ UNCHANGED <<exitCh, tail, procs, target, foreign, leaving, exited>>

-----------------------------------------------------------------------------
(* stop: actionStop, the deferred call of main, and the signal handler.    *)

\* The menu thread stops the kernel, or leaves the menu for good.
ActionStop == /\ Goroutine /\ at["menu"] = "menu" /\ LockFree /\ proc # None
              /\ MoveTo("menu", "stop")
              /\ UNCHANGED <<km, procs, dirs, target, foreign, leaving, exited>>

Quit == /\ Goroutine /\ at["menu"] = "menu" /\ MoveTo("menu", "stop") /\ leaving' = TRUE
        /\ UNCHANGED <<km, procs, dirs, target, foreign, exited>>

SignalArrives == /\ Goroutine /\ at["signal"] = "idle" /\ MoveTo("signal", "stop")
          /\ UNCHANGED <<km, procs, dirs, target, foreign, leaving, exited>>

\* Threads that end the process after their stop.
Last(t) == t = "signal" \/ leaving

StopReturns(t) == /\ exited' = Last(t)
                  /\ MoveTo(t, IF Last(t) THEN "ended" ELSE "menu")
                  /\ target' = [target EXCEPT ![t] = None]

\* Reads proc and exitCh under the lock; with no kernel there is nothing to do.
StopIdle(t) == /\ Goroutine /\ at[t] = "stop" /\ LockFree /\ proc = None
               /\ StopReturns(t)
               /\ UNCHANGED <<km, procs, dirs, foreign, leaving>>

\* Otherwise SIGINT, which a kernel may be slow to obey, or ignore.
StopInterrupt(t) == /\ Goroutine /\ at[t] = "stop" /\ LockFree /\ proc # None
                    /\ target' = [target EXCEPT ![t] = proc]
                    /\ MoveTo(t, "stopInt")
                    /\ UNCHANGED <<km, procs, dirs, foreign, leaving, exited>>

NoKill(t) == UNCHANGED killed
SendKill(t) == killed' = killed \cup {target[t]}

\* Five seconds later SIGKILL.
StopKill(t) == /\ Goroutine /\ at[t] = "stopInt" /\ target[t] \notin reaped
               /\ SendKill(t) /\ MoveTo(t, "stopKill")
               /\ UNCHANGED <<km, kernel, reaped, started, dirs, target, foreign, leaving, exited>>

StopUnwaited(t) == TRUE
StopWaited(t) == IF at[t] = "stopInt" THEN target[t] \in reaped ELSE Waited(target[t])

StopCleanup(t) == /\ Goroutine /\ at[t] \in {"stopInt", "stopKill"}
                  /\ StopWaited(t) /\ LockFree
                  /\ CleanupLocked /\ StopReturns(t)
                  /\ UNCHANGED <<mu, exitCh, tail, procs, foreign, leaving>>

-----------------------------------------------------------------------------
(* The goroutines of a kernel, the kernel itself, and the other programs.   *)

\* cmd.Wait returned: forget the kernel, clean up, close exitCh.
Waiter(k) == /\ Goroutine /\ kernel[k] = "dead" /\ k \notin reaped /\ LockFree
             /\ CleanupLocked /\ reaped' = reaped \cup {k}
             /\ UNCHANGED <<mu, exitCh, tail, kernel, killed, started, at, target,
                            foreign, leaving, exited>>

\* scanLines appends a line of the kernel's output and keeps the last MaxTail.
AppendLine == IF tail < MaxTail THEN tail + 1 ELSE tail

ScanLine(k) == /\ Goroutine /\ Alive(k) /\ LockFree /\ tail' = AppendLine
               /\ UNCHANGED <<mu, proc, dir, exitCh, procs, dirs, at, target, foreign,
                              leaving, exited>>

KernelListens(k) == /\ kernel[k] = "running" /\ ~PortTaken
                    /\ kernel' = [kernel EXCEPT ![k] = "listening"]
                    /\ UNCHANGED <<km, killed, reaped, started, dirs, at, target, foreign,
                                   leaving, exited>>

\* A kernel ends by itself, on SIGINT, or on SIGKILL.
KernelExits(k) == /\ Alive(k) /\ kernel' = [kernel EXCEPT ![k] = "dead"]
                  /\ UNCHANGED <<km, killed, reaped, started, dirs, at, target, foreign,
                                 leaving, exited>>

Foreign == /\ (foreign \/ ~PortTaken) /\ foreign' = ~foreign
           /\ UNCHANGED <<km, procs, dirs, at, target, leaving, exited>>

StopStep(t) == StopIdle(t) \/ StopInterrupt(t) \/ StopKill(t) \/ StopCleanup(t)
StartStep   == StartFails \/ StartKernel \/ PortTimeout \/ StartGivesUp \/ StartReturns

ManagerNext == \/ ActionStart \/ StartStep \/ ActionStop \/ Quit \/ SignalArrives \/ Foreign
               \/ \E t \in Threads : StopStep(t)
               \/ \E k \in Kernels : \/ Waiter(k) \/ ScanLine(k)
                                     \/ KernelListens(k) \/ KernelExits(k)

ManagerSpec == ManagerInit /\ [][ManagerNext]_managerVars

\* Goroutines are scheduled and a killed process dies.
ManagerFairness == /\ WF_managerVars(StartStep)
                   /\ \A t \in Threads : WF_managerVars(StopStep(t))
                   /\ \A k \in Kernels : /\ WF_managerVars(Waiter(k))
                                         /\ WF_managerVars(k \in killed /\ KernelExits(k))

FairManagerSpec == ManagerSpec /\ ManagerFairness

-----------------------------------------------------------------------------
(* Properties.                                                             *)

\* Type invariant of the manager's fields, the threads and the kernels.
ManagerTypeOK == /\ {mu, foreign, leaving, exited} \subseteq BOOLEAN
                 /\ proc \in Kernels \cup {None} /\ dir \in Kernels \cup {None}
                 /\ exitCh \in Kernels \cup {None} /\ tail \in 0 .. MaxTail
                 /\ at["menu"] \in {"menu", "start", "waitPort", "waitExit", "tailLog", "ended",
                                    "stop", "stopInt", "stopKill"}
                 /\ at["signal"] \in {"idle", "stop", "stopInt", "stopKill", "ended"}
                 /\ target \in [Threads -> Kernels \cup {None}]
                 /\ kernel \in [Kernels -> {"none", "running", "listening", "dead"}]
                 /\ killed \subseteq Kernels /\ reaped \subseteq Kernels
                 /\ dirs \subseteq Kernels /\ started \in 0 .. MaxStarts

\* As long as no signal arrived, the manager knows every kernel that runs and
\* the kernel keeps its directory: the menu never offers to start a second one,
\* stop has one to stop, and the cleanups of stop, start and the waiter, each
\* under its own lock, never take the place or the files of a later kernel.
KernelIsOwned ==
    at["signal"] = "idle" => \A k \in Kernels : Alive(k) => proc = k /\ k \in dirs

\* A TUI that is left through its menu (or at the end of its input) leaves no
\* kernel and no temporary directory behind, unless a signal arrived as well.
QuitLeavesNothing ==
    exited /\ at["signal"] = "idle" => dirs = {} /\ \A k \in Kernels : ~Alive(k)

\* A stop asked for in the menu comes back (or the process ends), whatever the
\* kernel does with SIGINT.
StopEnds == at["menu"] = "stop" ~> (at["menu"] = "menu" \/ exited)

\* A start comes back with success or with the kernel's last log lines.
StartEnds == at["menu"] = "start" ~> (at["menu"] = "menu" \/ exited)

=============================================================================
