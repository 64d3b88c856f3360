---------------------------- MODULE ConfigStore ----------------------------
(***************************************************************************)
(* The configuration store of the client TUI: configs.json, current.json   *)
(* and the lock file, shared by every TUI process started from the same    *)
(* directory.  A configuration is its name (removeConfig and renameConfig  *)
(* find it by nothing else) and configs.json is the set of names it lists. *)
(* A process is cut off at any step by a crash (the lock file stays) or by *)
(* a signal (the handler removes the lock file, whoever created it, while  *)
(* the main goroutine goes on until os.Exit).                              *)
(***************************************************************************)
EXTENDS Naturals, FiniteSets

CONSTANTS Procs,     \* TUI processes
          Names,     \* configuration names
          MaxTries,  \* attempts of acquireLock (60 in the code)
          MaxOps,    \* bound: menu actions taken in a behaviour
          MaxFaults  \* bound: crashes, signals and failed writes in a behaviour

NoName == "none"     \* current.json is missing or holds an empty name
Nobody == "nobody"   \* there is no lock file

ASSUME StoreAssumption == /\ Nobody \notin Procs /\ MaxTries \in Nat \ {0}
                          /\ MaxOps \in Nat /\ MaxFaults \in Nat

VARIABLES configs,   \* names listed in configs.json
          tmp,       \* configs.json.tmp: {} when there is none, else {its list}
          current,   \* the name in current.json
          lock,      \* creator of the lock file, or Nobody
          old,       \* the lock file is more than 30 s old
          pc,        \* where each process is
          op,        \* the menu action a process is carrying out
          list,      \* the list a process is about to save
          tries,     \* failed attempts of the acquireLock in progress
          sig,       \* processes whose signal handler has removed the lock file
          ops, faults,  \* menu actions and faults so far
          truth,     \* history: the updates saved, applied one after the other
          robbed,    \* history: the lock file of a process inside its update was removed
          left       \* history: the name current.json was last left at, unlisted

files == <<configs, tmp, current>>
lockv == <<lock, old>>
local == <<op, list, tries>>
hist  == <<truth, robbed, left>>
vars  == <<files, lockv, local, pc, sig, ops, faults, hist>>

Add(n)       == [do |-> "add", name |-> n, to |-> n]
Remove(n)    == [do |-> "remove", name |-> n, to |-> n]
Rename(n, m) == [do |-> "rename", name |-> n, to |-> m]
Switch(n)    == [do |-> "switch", name |-> n, to |-> n]
NoOp         == [do |-> "none", name |-> NoName, to |-> NoName]
Operations == (UNION {{Add(n), Remove(n), Switch(n)} : n \in Names})
                \cup {Rename(n, m) : n \in Names, m \in Names}

Init == /\ configs = {} /\ tmp = {} /\ current = NoName
        /\ lock = Nobody /\ old = FALSE
        /\ pc = [p \in Procs |-> "menu"]
        /\ op = [p \in Procs |-> NoOp]
        /\ list = [p \in Procs |-> {}]
        /\ tries = [p \in Procs |-> 0]
        /\ sig = {} /\ ops = 0 /\ faults = 0
        /\ truth = {} /\ robbed = FALSE /\ left = {}

Updating(p) == pc[p] \in {"load", "write", "rename", "current", "unlock"}
GoTo(p, l)  == pc' = [pc EXCEPT ![p] = l]

\* The action is over, and its variables with it.
Leave(p, l) == /\ GoTo(p, l)
               /\ op' = [op EXCEPT ![p] = NoOp] /\ list' = [list EXCEPT ![p] = {}]
               /\ tries' = [tries EXCEPT ![p] = 0]

-----------------------------------------------------------------------------
(* The lock file.                                                          *)

TriesLeft(p) == tries[p] < MaxTries

CanCreateAlways(p) == TRUE
CanCreate(p) == lock = Nobody

\* os.Remove of the lock file: it goes whoever created it.
RemoveLock(p, spared) ==
    /\ lock' = Nobody /\ old' = FALSE
    /\ robbed' = (robbed \/ (lock \in Procs \ spared /\ Updating(lock)))

\* The user picks an entry of the list shown, which was read without the lock.
Choose(p) == /\ pc[p] = "menu" /\ ops < MaxOps
             /\ \E o \in Operations :
                   /\ o.do = "add" \/ o.name \in configs
                   /\ o.do = "rename" => o.to # o.name
                   /\ op' = [op EXCEPT ![p] = o]
             /\ GoTo(p, "try") /\ ops' = ops + 1
             /\ UNCHANGED <<files, lockv, list, tries, sig, faults, hist>>

\* O_CREATE|O_EXCL: creates the file, or finds it there.
CreateLock(p) == /\ pc[p] = "try" /\ TriesLeft(p) /\ CanCreate(p)
                 /\ lock' = p /\ old' = FALSE
                 /\ GoTo(p, IF op[p].do = "switch" THEN "current" ELSE "load")
                 /\ UNCHANGED <<files, local, sig, ops, faults, hist>>

\* The file is there: older than 30 s it is taken for a leftover.
FindLock(p) == /\ pc[p] = "try" /\ TriesLeft(p) /\ lock # Nobody
               /\ tries' = [tries EXCEPT ![p] = @ + 1]
               /\ GoTo(p, IF old THEN "expired" ELSE "try")
               /\ UNCHANGED <<files, lockv, op, list, sig, ops, faults, hist>>

\* Nothing ties the removal to the file that was found old.
KeepExpired(p) == UNCHANGED <<lockv, robbed>>
ClearExpired(p) == RemoveLock(p, {})

RemoveExpired(p) == /\ pc[p] = "expired" /\ ClearExpired(p) /\ GoTo(p, "try")
                    /\ UNCHANGED <<files, local, sig, ops, faults, truth, left>>

GiveUp(p) == /\ pc[p] = "try" /\ ~TriesLeft(p) /\ Leave(p, "menu")
             /\ UNCHANGED <<files, lockv, sig, ops, faults, hist>>

Unlock(p) == /\ pc[p] = "unlock" /\ RemoveLock(p, {p}) /\ Leave(p, "menu")
             /\ UNCHANGED <<files, sig, ops, faults, truth, left>>

\* 30 s pass; an update takes far less, so its process no longer runs it.
Expire == /\ lock # Nobody /\ ~old /\ ~Updating(lock) /\ old' = TRUE
          /\ UNCHANGED <<files, lock, local, pc, sig, ops, faults, hist>>

-----------------------------------------------------------------------------
(* addConfig, removeConfig, renameConfig and the switch of actionList.     *)

Refused(o, S) == CASE o.do = "add"    -> o.name \in S
                   [] o.do = "remove" -> o.name \notin S
                   [] o.do = "rename" -> o.name \notin S \/ o.to \in S

Applied(o, S) == CASE o.do = "add"    -> S \cup {o.name}
                   [] o.do = "remove" -> S \ {o.name}
                   [] o.do = "rename" -> (S \ {o.name}) \cup {o.to}

LoadConfigs(p) ==
    /\ pc[p] = "load"
    /\ \/ Refused(op[p], configs) /\ GoTo(p, "unlock") /\ UNCHANGED list
       \/ /\ ~Refused(op[p], configs) /\ GoTo(p, "write")
          /\ list' = [list EXCEPT ![p] = Applied(op[p], configs)]
    /\ UNCHANGED <<files, lockv, op, tries, sig, ops, faults, hist>>

WriteTmp(p) == /\ pc[p] = "write" /\ tmp' = {list[p]} /\ GoTo(p, "rename")
               /\ UNCHANGED <<configs, current, lockv, local, sig, ops, faults, hist>>

\* os.Rename fails when another process has renamed the same .tmp away.
RenameTmp(p) ==
    /\ pc[p] = "rename"
    /\ \/ tmp = {} /\ GoTo(p, "unlock") /\ UNCHANGED <<files, truth>>
       \/ /\ configs' \in tmp /\ tmp' = {}
          /\ truth' = Applied(op[p], truth)
          /\ GoTo(p, "current") /\ UNCHANGED current
    /\ UNCHANGED <<lockv, local, sig, ops, faults, robbed, left>>

RewritesKeeping(o, S) == CASE o.do = "add"    -> Cardinality(S) = 1
                           [] o.do = "remove" -> current = o.name
                           [] o.do = "rename" -> FALSE
                           [] o.do = "switch" -> TRUE

\* Whether an update that saved the list S has current.json to write as well.
Rewrites(o, S) == CASE o.do = "add"                  -> Cardinality(S) = 1
                    [] o.do \in {"remove", "rename"} -> current = o.name
                    [] o.do = "switch"               -> TRUE

NewCurrent(o) == IF o.do = "remove" THEN NoName ELSE o.to

\* The name an update took off the list while current.json still holds it.
TakenOff(p) == IF pc[p] = "current" /\ op[p].do \in {"remove", "rename"}
               THEN {current} \cap {op[p].name} ELSE {}

NothingToWrite(p) == /\ ~Rewrites(op[p], list[p]) /\ UNCHANGED <<current, left, faults>>

\* A switch writes its name without looking whether it is still listed.
CurrentWritten(p) == /\ Rewrites(op[p], list[p]) /\ current' = NewCurrent(op[p])
                     /\ left' = (IF op[p].do = "switch" THEN {op[p].name} \ configs ELSE {})
                     /\ UNCHANGED faults

\* WriteFile or Rename fails: add, remove and rename discard the error and
\* report success, a switch reports it.  current.json stays as it was.
CurrentFails(p) == /\ Rewrites(op[p], list[p]) /\ faults < MaxFaults
                   /\ faults' = faults + 1
                   /\ left' = left \cup TakenOff(p) /\ UNCHANGED current

WriteCurrent(p) == /\ pc[p] = "current" /\ GoTo(p, "unlock")
                   /\ NothingToWrite(p) \/ CurrentWritten(p) \/ CurrentFails(p)
                   /\ UNCHANGED <<configs, tmp, lockv, local, sig, ops, truth, robbed>>

-----------------------------------------------------------------------------
(* The ends of a process.                                                  *)

Stops(p) == /\ Leave(p, "down") /\ sig' = sig \ {p}
            /\ left' = left \cup TakenOff(p)

\* main returns: the lock file is removed even if this process has none.
Exit(p) == /\ pc[p] = "menu" /\ faults < MaxFaults /\ faults' = faults + 1
           /\ RemoveLock(p, {p}) /\ Stops(p)
           /\ UNCHANGED <<files, ops, truth>>

\* The signal handler removes the lock file; os.Exit comes a step later.
Signal(p) == /\ pc[p] # "down" /\ p \notin sig
             /\ faults < MaxFaults /\ faults' = faults + 1
             /\ RemoveLock(p, {}) /\ sig' = sig \cup {p}
             /\ UNCHANGED <<files, local, pc, ops, truth, left>>

SignalExit(p) == /\ p \in sig /\ Stops(p)
                 /\ UNCHANGED <<files, lockv, ops, faults, truth, robbed>>

Crash(p) == /\ pc[p] # "down" /\ faults < MaxFaults /\ faults' = faults + 1
            /\ Stops(p)
            /\ UNCHANGED <<files, lockv, ops, truth, robbed>>

Restart(p) == /\ pc[p] = "down" /\ ops < MaxOps /\ GoTo(p, "menu")
              /\ UNCHANGED <<files, lockv, local, sig, ops, faults, hist>>

Step(p) == \/ CreateLock(p) \/ FindLock(p) \/ RemoveExpired(p) \/ GiveUp(p)
           \/ LoadConfigs(p) \/ WriteTmp(p) \/ RenameTmp(p) \/ WriteCurrent(p)
           \/ Unlock(p) \/ SignalExit(p)

Next == \/ Expire
        \/ \E p \in Procs : \/ Step(p) \/ Choose(p) \/ Exit(p) \/ Signal(p)
                            \/ Crash(p) \/ Restart(p)

Spec == Init /\ [][Next]_vars

\* A running process keeps running; time passes.
StoreFairness == WF_vars(Expire) /\ \A p \in Procs : WF_vars(Step(p))
FairSpec == Spec /\ StoreFairness

-----------------------------------------------------------------------------
(* Properties.                                                             *)

\* Type invariant of the files, the lock file and the processes' positions.
TypeOK == /\ configs \subseteq Names /\ truth \subseteq Names
          /\ tmp \subseteq SUBSET Names
          /\ current \in Names \cup {NoName}
          /\ lock \in Procs \cup {Nobody} /\ old \in BOOLEAN
          /\ pc \in [Procs -> {"menu", "try", "expired", "load", "write", "rename",
                               "current", "unlock", "down"}]
          /\ op \in [Procs -> Operations \cup {NoOp}]
          /\ list \in [Procs -> SUBSET Names] /\ tries \in [Procs -> 0 .. MaxTries]
          /\ sig \subseteq Procs /\ robbed \in BOOLEAN /\ left \subseteq Names

\* Unless the lock file of a process was removed in the middle of its update,
\* configs.json is what the saved updates give one after the other: none is
\* lost, although every update rewrites the whole list it read, and although
\* processes crash between reading, writing the .tmp file and renaming it.
NoUpdateLost == ~robbed => configs = truth

\* What current.json names is listed, or none, or explained: an update that is
\* between its two files has just taken that name off the list, one was cut off
\* there or its second write failed unnoticed, or a switch chose an entry that
\* had gone since it was shown.  So a crash, signal or failed write anywhere
\* leaves no other unlisted name, never one that was not saved yet, and the
\* next write of current.json ends it (unless a lock file was taken away).
CurrentIsExplained ==
    ~robbed => \/ current \in configs \cup {NoName} \cup left
               \/ \E p \in Procs : current \in TakenOff(p)

\* The lock file a crashed process left behind does not outlive its 30 s while
\* some process still has an attempt to take the lock: it is removed, or that
\* process is stopped too.
LeftoverIsCleared ==
    \A p, q \in Procs : (lock = q /\ old /\ pc[p] = "try" /\ TriesLeft(p))
                          ~> (lock # q \/ ~old \/ pc[p] = "down")

=============================================================================
