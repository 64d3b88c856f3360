---------------------------- MODULE RealityRelay ----------------------------
(***************************************************************************)
(* The UDP NAT relay of the XHTTP/3 REALITY listener                       *)
(* (transport/internet/splithttp/reality_relay.go).                        *)
(*                                                                         *)
(* One goroutine, the precheck read loop, calls relayClientToDest; the     *)
(* reaper, Close and one destToClient goroutine per dialled socket run     *)
(* beside it.  relayClientToDest takes r.mu only to find or create the     *)
(* entry and then works on the *relayEntry without the lock, so the read   *)
(* loop can hold an entry that the reaper or Close has taken out of the    *)
(* map.  Only the read loop creates entries, hence at most one such orphan *)
(* exists and it is the one of `cur': entry[c] is the object of client c   *)
(* and `table' the set of keys of r.entries.                               *)
(***************************************************************************)
EXTENDS Naturals, FiniteSets

CONSTANTS
  Clients,      \* client addresses (addr.String())
  IPs,          \* values of addrIPKey
  IPOf,         \* addrIPKey of each client address
  NCand,        \* len(dest): resolved addresses, in DNS order
  Refusing,     \* candidates that may answer a datagram with ICMP unreachable
  Undialable,   \* candidates for which net.DialUDP fails (no route, no family)
  MaxEntries,   \* realityRelayMaxEntries
  MaxPerIP,     \* realityRelayMaxPerIP
  Timeout,      \* r.timeout, in ticks
  Sockets,      \* bound: sockets alive at the same time
  None          \* the nil pointer

ASSUME ClientsFinite == IsFiniteSet(Clients) /\ None \notin Clients
ASSUME IPOfClients == IPOf \in [Clients -> IPs]
ASSUME CandAssumption == NCand \in Nat \ {0}
ASSUME FaultAssumption == Refusing \subseteq 1..NCand /\ Undialable \subseteq 1..NCand
ASSUME LimitAssumption == /\ MaxEntries \in Nat
                          /\ MaxPerIP \in Nat
                          /\ Timeout \in Nat \ {0}
ASSUME SocketsAssumption == None \notin Sockets

VARIABLES
  table,     \* keys of r.entries
  entry,     \* the relayEntry object of each client, Blank when it has none
  ipCount,   \* r.perIP (a missing key counts 0)
  socket,    \* the dialled UDP sockets and their destToClient goroutines
  cur,       \* client whose datagram the read loop is in writeToDest with
  tried,     \* history: candidates tried for the datagram of cur
  fate,      \* history: what became of the last datagram
  stage,     \* progress of Close and of the reaper behind r.closed
  panicked   \* a goroutine called a method on a nil *net.UDPConn

vars == <<table, entry, ipCount, socket, cur, tried, fate, stage, panicked>>

Cands == 1..NCand
Blank == [idx |-> 1, conn |-> None, age |-> 0]
Free == [client |-> None, cand |-> 0, open |-> FALSE, err |-> "clean", reader |-> FALSE]

(* A socket that is closed and has no goroutine left is garbage once no *)
(* entry refers to it.                                                   *)
Collected(sk) == IF sk.open \/ sk.reader THEN sk ELSE Free
Unused(s) == socket[s] = Free /\ \A c \in Clients : entry[c].conn # s
Healthy == Cands \ (Refusing \cup Undialable)

Count(ip) == Cardinality({c \in table : IPOf[c] = ip})

(* relayEntry; destIdx counts from 1 here. *)
Entries == [idx: 1..(NCand + 1), conn: Sockets \cup {None}, age: 0..(Timeout + 1)]

(* A dialled socket: err is its pending ICMP error (a datagram that will be  *)
(* refused was sent; the refusal has arrived), reader its goroutine.          *)
SocketRecords == [client: Clients \cup {None}, cand: 0..NCand, open: BOOLEAN,
                  err: {"clean", "sent", "refused"}, reader: BOOLEAN]

TypeOK ==
  /\ table \subseteq Clients
  /\ entry \in [Clients -> Entries]
  /\ ipCount \in [IPs -> Nat]
  /\ socket \in [Sockets -> SocketRecords]
  /\ cur \in Clients \cup {None}
  /\ tried \subseteq Cands
  /\ fate \in {"none", "written", "refused", "untried", "limit"}
  /\ stage \in [close: {"open", "closing", "closed"}, reaper: {"running", "done"}]
  /\ panicked \in BOOLEAN

Init ==
  /\ table = {}
  /\ entry = [c \in Clients |-> Blank]
  /\ ipCount = [ip \in IPs |-> 0]
  /\ socket = [s \in Sockets |-> Free]
  /\ cur = None
  /\ tried = {}
  /\ fate = "none"
  /\ stage = [close |-> "open", reaper |-> "running"]
  /\ panicked = FALSE

-----------------------------------------------------------------------------
(* The read loop: relayClientToDest and writeToDest.                       *)

AtLimit(c) == Cardinality(table) >= MaxEntries \/ ipCount[IPOf[c]] >= MaxPerIP

(* Mutant: lastSeen of a known flow is not refreshed. *)
RelayKnownStale(c) ==
  /\ ~panicked /\ cur = None /\ c \in table
  /\ cur' = c
  /\ fate' = "none"
  /\ UNCHANGED <<table, entry, ipCount, socket, tried, stage, panicked>>

(* A flow that has an entry: refresh lastSeen under the lock, write outside it. *)
RelayKnown(c) ==
  /\ ~panicked /\ cur = None /\ c \in table
  /\ entry' = [entry EXCEPT ![c].age = 0]
  /\ cur' = c
  /\ fate' = "none"
  /\ UNCHANGED <<table, ipCount, socket, tried, stage, panicked>>

(* A new flow within the limits: the entry is in the map before it has a socket. *)
RelayNew(c) ==
  /\ ~panicked /\ cur = None /\ c \notin table /\ ~AtLimit(c)
  /\ table' = table \cup {c}
  /\ entry' = [entry EXCEPT ![c] = Blank]
  /\ ipCount' = [ipCount EXCEPT ![IPOf[c]] = @ + 1]
  /\ cur' = c
  /\ fate' = "none"
  /\ UNCHANGED <<socket, tried, stage, panicked>>

(* A new flow over a limit: its datagram is dropped. *)
RelayRefused(c) ==
  /\ ~panicked /\ cur = None /\ c \notin table /\ AtLimit(c)
  /\ fate' = "limit"
  /\ UNCHANGED <<table, entry, ipCount, socket, cur, tried, stage, panicked>>

RelayClientToDest(c) == RelayKnown(c) \/ RelayNew(c) \/ RelayRefused(c)

(* The call returns; an orphan entry is then unreachable. *)
Return(result) ==
  /\ cur' = None
  /\ tried' = {}
  /\ fate' = result

(* for { if destConn == nil { if destIdx >= len(destCandidates) return *)
WriteExhausted ==
  /\ ~panicked /\ cur # None
  /\ entry[cur].conn = None /\ entry[cur].idx > NCand
  /\ Return(IF tried = Cands THEN "refused" ELSE "untried")
  /\ entry' = IF cur \in table THEN entry ELSE [entry EXCEPT ![cur] = Blank]
  /\ UNCHANGED <<table, ipCount, socket, stage, panicked>>

(* Mutant: a failed dial advances destIdx twice. *)
DialFailsSkips ==
  /\ ~panicked /\ cur # None
  /\ entry[cur].conn = None /\ entry[cur].idx \in Undialable
  /\ entry' = [entry EXCEPT ![cur].idx = IF @ < NCand THEN @ + 2 ELSE @ + 1]
  /\ tried' = tried \cup {entry[cur].idx}
  /\ UNCHANGED <<table, ipCount, socket, cur, fate, stage, panicked>>

DialFails ==
  /\ ~panicked /\ cur # None
  /\ entry[cur].conn = None /\ entry[cur].idx \in Undialable
  /\ entry' = [entry EXCEPT ![cur].idx = @ + 1]
  /\ tried' = tried \cup {entry[cur].idx}
  /\ UNCHANGED <<table, ipCount, socket, cur, fate, stage, panicked>>

(* One unused socket is as good as another. *)
Dial(s) ==
  /\ ~panicked /\ cur # None
  /\ entry[cur].conn = None /\ entry[cur].idx \in Cands \ Undialable
  /\ Unused(s) /\ s = (CHOOSE t \in Sockets : Unused(t))
  /\ socket' = [socket EXCEPT ![s] = [client |-> cur, cand |-> entry[cur].idx, open |-> TRUE,
                                      err |-> "clean", reader |-> TRUE]]
  /\ entry' = [entry EXCEPT ![cur].conn = s]
  /\ UNCHANGED <<table, ipCount, cur, tried, fate, stage, panicked>>

(* destConn.Write returns nil: the candidate takes the datagram, or refuses *)
(* it with an ICMP message that is still on its way.                        *)
WriteSucceeds ==
  /\ ~panicked /\ cur # None
  /\ entry[cur].conn # None
  /\ LET s == entry[cur].conn IN
       /\ socket[s].open /\ socket[s].err # "refused"
       /\ \/ UNCHANGED socket
          \/ /\ socket[s].cand \in Refusing
             /\ socket' = [socket EXCEPT ![s].err = "sent"]
  /\ Return("written")
  /\ entry' = IF cur \in table THEN entry ELSE [entry EXCEPT ![cur] = Blank]
  /\ UNCHANGED <<table, ipCount, stage, panicked>>

(* Mutant: the failed socket is closed but stays the flow's destConn. *)
WriteFailsStuck ==
  /\ ~panicked /\ cur # None
  /\ entry[cur].conn # None
  /\ LET s == entry[cur].conn IN
       /\ ~socket[s].open \/ socket[s].err = "refused"
       /\ socket' = [socket EXCEPT ![s] = Collected([@ EXCEPT !.open = FALSE])]
  /\ UNCHANGED <<table, entry, ipCount, cur, tried, fate, stage, panicked>>

(* destConn.Write fails, on a pending ICMP error or because another goroutine *)
(* closed the socket: close it, forget it and move on to the next candidate.  *)
WriteFails ==
  /\ ~panicked /\ cur # None
  /\ entry[cur].conn # None
  /\ LET s == entry[cur].conn IN
       /\ ~socket[s].open \/ socket[s].err = "refused"
       /\ socket' = [socket EXCEPT ![s] = Collected([@ EXCEPT !.open = FALSE])]
       /\ tried' = tried \cup {entry[cur].idx}
  /\ entry' = [entry EXCEPT ![cur].conn = None, ![cur].idx = @ + 1]
  /\ UNCHANGED <<table, ipCount, cur, fate, stage, panicked>>

ReadLoopStep ==
  \/ WriteExhausted
  \/ DialFails
  \/ \E s \in Sockets : Dial(s)
  \/ WriteSucceeds
  \/ WriteFails

-----------------------------------------------------------------------------
(* destToClient, one goroutine per dialled socket, and the network.        *)

(* The ICMP error of a refused datagram reaches the socket. *)
IcmpArrives(s) ==
  /\ ~panicked /\ socket[s].open /\ socket[s].err = "sent"
  /\ socket' = [socket EXCEPT ![s].err = "refused"]
  /\ UNCHANGED <<table, entry, ipCount, cur, tried, fate, stage, panicked>>

(* Read fails with ECONNREFUSED: close the socket, entry.destConn keeps it. *)
ReadRefused(s) ==
  /\ ~panicked /\ socket[s].reader /\ socket[s].open /\ socket[s].err = "refused"
  /\ socket' = [socket EXCEPT ![s] = Free]
  /\ UNCHANGED <<table, entry, ipCount, cur, tried, fate, stage, panicked>>

(* Read fails because the socket was closed. *)
ReadClosed(s) ==
  /\ ~panicked /\ socket[s].reader /\ ~socket[s].open
  /\ socket' = [socket EXCEPT ![s] = Free]
  /\ UNCHANGED <<table, entry, ipCount, cur, tried, fate, stage, panicked>>

(* A reply was read but serverConn.WriteTo failed: the goroutine returns. *)
ReplyFails(s) ==
  /\ ~panicked /\ socket[s].reader /\ socket[s].open
  /\ socket' = [socket EXCEPT ![s].reader = FALSE]
  /\ UNCHANGED <<table, entry, ipCount, cur, tried, fate, stage, panicked>>

-----------------------------------------------------------------------------
(* The reaper and Close.                                                   *)

(* Mutant: removed entries keep their sockets open. *)
RemoveLeaky(gone) ==
  /\ table' = table \ gone
  /\ entry' = [c \in Clients |-> IF c \in gone /\ c # cur THEN Blank ELSE entry[c]]
  /\ UNCHANGED <<socket, panicked>>

(* Both remove entries from the map and call entry.destConn.Close(), which *)
(* panics when the entry has no socket.  An entry the read loop is using   *)
(* lives on as an orphan.                                                  *)
Remove(gone) ==
  LET conns == {entry[c].conn : c \in gone} IN
  /\ table' = table \ gone
  /\ panicked' = (None \in conns)
  /\ socket' = [s \in Sockets |-> IF s \in conns
                                  THEN Collected([socket[s] EXCEPT !.open = FALSE])
                                  ELSE socket[s]]
  /\ entry' = [c \in Clients |-> IF c \in gone /\ c # cur THEN Blank ELSE entry[c]]

(* Mutants: perIP is not decremented; entries that hold a socket are skipped. *)
ReapUncounted ==
  /\ ~panicked /\ stage.reaper = "running"
  /\ \E c \in table : entry[c].age > Timeout
  /\ Remove({c \in table : entry[c].age > Timeout})
  /\ UNCHANGED <<ipCount, cur, tried, fate, stage>>

ReapUnconnected ==
  /\ ~panicked /\ stage.reaper = "running"
  /\ LET idle == {c \in table : entry[c].age > Timeout /\ entry[c].conn = None} IN
       /\ idle # {}
       /\ Remove(idle)
       /\ ipCount' = [ip \in IPs |-> ipCount[ip] - Cardinality({c \in idle : IPOf[c] = ip})]
  /\ UNCHANGED <<cur, tried, fate, stage>>

Reap ==
  /\ ~panicked /\ stage.reaper = "running"
  /\ LET idle == {c \in table : entry[c].age > Timeout} IN
       /\ idle # {}
       /\ Remove(idle)
       /\ ipCount' = [ip \in IPs |-> ipCount[ip] - Cardinality({c \in idle : IPOf[c] = ip})]
  /\ UNCHANGED <<cur, tried, fate, stage>>

ReaperExits ==
  /\ ~panicked /\ stage.reaper = "running" /\ stage.close # "open"
  /\ stage' = [stage EXCEPT !.reaper = "done"]
  /\ UNCHANGED <<table, entry, ipCount, socket, cur, tried, fate, panicked>>

(* closeOnce.Do: close(r.closed) first, the map under the lock afterwards. *)
CloseBegins ==
  /\ ~panicked /\ stage.close = "open"
  /\ stage' = [stage EXCEPT !.close = "closing"]
  /\ UNCHANGED <<table, entry, ipCount, socket, cur, tried, fate, panicked>>

(* Mutant: Close resets perIP but leaves the entries in the map. *)
CloseEntriesKept ==
  /\ ~panicked /\ stage.close = "closing"
  /\ ipCount' = [ip \in IPs |-> 0]
  /\ stage' = [stage EXCEPT !.close = "closed"]
  /\ UNCHANGED <<table, entry, socket, cur, tried, fate, panicked>>

CloseEntries ==
  /\ ~panicked /\ stage.close = "closing"
  /\ Remove(table)
  /\ ipCount' = [ip \in IPs |-> 0]
  /\ stage' = [stage EXCEPT !.close = "closed"]
  /\ UNCHANGED <<cur, tried, fate>>

(* Time passes.  One call of relayClientToDest, which never blocks, ends   *)
(* within the idle timeout: the entry it refreshed does not expire under it. *)
Timely == cur # None => entry[cur].age < Timeout
Aging == \E c \in table : entry[c].age <= Timeout
Age ==
  /\ entry' = [c \in Clients |-> IF c \in table /\ entry[c].age <= Timeout
                                 THEN [entry[c] EXCEPT !.age = @ + 1] ELSE entry[c]]
  /\ UNCHANGED <<table, ipCount, socket, cur, tried, fate, stage, panicked>>
Tick == ~panicked /\ Timely /\ Aging /\ Age

-----------------------------------------------------------------------------
ReaderStep(s) == ReadRefused(s) \/ ReadClosed(s) \/ ReplyFails(s)

Next ==
  \/ \E c \in Clients : RelayClientToDest(c)
  \/ ReadLoopStep
  \/ \E s \in Sockets : IcmpArrives(s) \/ ReaderStep(s)
  \/ Reap
  \/ ReaperExits
  \/ CloseBegins
  \/ CloseEntries
  \/ Tick

Spec == Init /\ [][Next]_vars

(* The goroutines keep running and time passes; nobody has to send or close. *)
Fairness ==
  /\ WF_vars(ReadLoopStep)
  /\ WF_vars(Reap)
  /\ WF_vars(ReaperExits)
  /\ WF_vars(CloseEntries)
  /\ WF_vars(Tick)
  /\ \A s \in Sockets : WF_vars(ReadRefused(s)) /\ WF_vars(ReadClosed(s))

FairSpec == Spec /\ Fairness

-----------------------------------------------------------------------------
(* Safety.                                                                 *)

(* r.perIP is the number of entries of each address: every create, reap and *)
(* Close moves the two together under r.mu.                                 *)
PerIPCounts == \A ip \in IPs : ipCount[ip] = Count(ip)

(* Neither the table nor one client address grows past its limit, however *)
(* creation, reaping and Close interleave.                                 *)
WithinLimits ==
  /\ Cardinality(table) <= MaxEntries
  /\ \A ip \in IPs : Count(ip) <= MaxPerIP

(* "Each client address gets its own UDP socket to the destination": until  *)
(* Close empties the map, an open socket is the one its flow's entry holds, *)
(* so no flow has two and none is left open behind a removed entry.         *)
OneSocketPerFlow ==
  stage.close # "closed" /\ ~panicked =>
    \A s \in Sockets : socket[s].open =>
      /\ socket[s].client \in table
      /\ entry[socket[s].client].conn = s
      /\ entry[socket[s].client].idx = socket[s].cand

(* Failover never runs past a candidate that works: reaper, ICMP errors and *)
(* read-side closes of other sockets cannot push a flow over it, nor can     *)
(* Close push one that is created behind it.                                  *)
HealthyNeverSkipped ==
  ~panicked => \A c \in table : \A i \in Healthy : entry[c].idx <= i

(* Close has met the flow of a call that is still under way between the      *)
(* insertion of its entry and the dial.                                      *)
MetUndialled == stage.close = "closed" /\ cur # None /\ entry[cur].conn = None

(* With a destination that works somewhere, an entry without a socket is the *)
(* read loop's, between inserting or failing over and dialling, and fresh:    *)
(* the sweep, also one that runs on after Close, never meets it, and only     *)
(* Close, which takes entries of every age, does.                             *)
PanicsOnlyInClose == panicked /\ Healthy # {} => MetUndialled

-----------------------------------------------------------------------------
(* The inductive invariant behind OneSocketPerFlow, HealthyNeverSkipped and *)
(* PanicsOnlyInClose.                                                       *)

(* The entry in use is fresh, all other objects outside the map are new. *)
EntryInUse ==
  /\ cur \in table => entry[cur].age <= Timeout
  /\ \A c \in Clients \ table : c # cur => entry[c] = Blank

(* destConn is the flow's own socket, on its current candidate. *)
OwnSocket ==
  /\ \A c, d \in Clients : entry[c].conn # None /\ entry[c].conn = entry[d].conn => c = d
  /\ \A c \in table : LET s == entry[c].conn IN
       s # None /\ socket[s].open => socket[s].cand = entry[c].idx

(* Only a candidate that refuses leaves a flow with a dead socket, and only  *)
(* a destination where all candidates fail leaves it with none.               *)
SocketUsable ==
  /\ \A s \in Sockets : socket[s].err # "clean" => socket[s].cand \in Refusing
  /\ \A c \in table : LET s == entry[c].conn IN
       s # None => entry[c].idx \in Refusing \/ (socket[s].open /\ socket[s].err # "refused")
  /\ \A c \in table : entry[c].conn = None => c = cur \/ Healthy = {}

NothingSkipped == \A c \in table : \A i \in Healthy : entry[c].idx <= i

(* Until Close empties the map there are no orphans, of either kind. *)
NoOrphan ==
  /\ cur # None => cur \in table
  /\ \A s \in Sockets : socket[s].open =>
       /\ socket[s].client \in table
       /\ entry[socket[s].client].conn = s
       /\ entry[socket[s].client].idx = socket[s].cand

FlowInv ==
  ~panicked =>
    /\ EntryInUse /\ OwnSocket /\ SocketUsable /\ NothingSkipped
    /\ stage.close # "closed" => NoOrphan

-----------------------------------------------------------------------------
(* Liveness.                                                               *)

(* A flow whose client falls silent does not keep its entry, whether or not  *)
(* it ever got a socket: until Close begins, or a panic ends the process, the *)
(* sweep takes it out.                                                        *)
IdleFlowReaped ==
  \A c \in Clients : []<>(c \notin table \/ cur = c \/ panicked \/ stage.close # "open")

-----------------------------------------------------------------------------
(* What a comment promises and the code does not do.                       *)

(* reality_relay.go:212: the reaper "closes and removes entries idle for    *)
(* longer than the configured timeout"; for an entry without a socket it    *)
(* calls Close on a nil *net.UDPConn.                                       *)
ReapNeverPanics == stage.close = "open" => ~panicked

=============================================================================
