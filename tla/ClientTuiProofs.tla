--------------------------- MODULE ClientTuiProofs ---------------------------
(***************************************************************************)
(* Proofs about the two parts of the client TUI.                           *)
(* ConfigStore, for any processes and names: while no lock file is taken    *)
(* from under an update, updates exclude each other, so none is lost, and   *)
(* a name in current.json that is not listed is explained by one of them.   *)
(* KernelManager, for any number of starts: until a signal arrives the      *)
(* manager knows the one kernel there is, and a TUI that quits leaves none. *)
(* The two share no variable.                                               *)
(***************************************************************************)
EXTENDS ConfigStore, KernelManager, TLAPS

(* The lock file belongs to the process inside an update.                    *)
Exclusive == \A p \in Procs : Updating(p) => lock = p

(* What an update knows: the list it saves was made from the list that is     *)
(* still there, and the .tmp file is its own.                                 *)
Prepared(p) == /\ pc[p] \in {"write", "rename"} => list[p] = Applied(op[p], configs)
               /\ pc[p] = "rename" => tmp = {list[p]}

(* Between its two files, the name an update puts in current.json is listed.  *)
Saved(p) == pc[p] = "current" /\ op[p].do \in {"add", "rename"} => op[p].to \in configs

Explained == \/ current \in configs \cup {NoName} \cup left
             \/ \E p \in Procs : current \in TakenOff(p)

Safe == /\ Exclusive /\ configs = truth
        /\ \A p \in Procs : Prepared(p) /\ Saved(p)
        /\ Explained

(* A process that is not at the menu carries out an operation; a switch does  *)
(* not touch configs.json.                                                    *)
Busy == \A p \in Procs :
           /\ pc[p] \notin {"menu", "down"} => op[p] \in Operations
           /\ pc[p] \in {"load", "write", "rename"} => op[p].do # "switch"

StoreInv == TypeOK /\ Busy /\ (~robbed => Safe)

-----------------------------------------------------------------------------
LEMMA OperationTypes ==
  ASSUME NEW o \in Operations
  PROVE  /\ o.do \in {"add", "remove", "rename", "switch"}
         /\ o.name \in Names /\ o.to \in Names
         /\ o.do # "rename" => o.to = o.name
<1>1. \/ \E n \in Names : o \in {Add(n), Remove(n), Switch(n)}
      \/ \E n \in Names, m \in Names : o = Rename(n, m)
  BY DEF Operations
<1> QED
  BY <1>1 DEF Add, Remove, Rename, Switch

LEMMA AppliedTypes ==
  ASSUME NEW o \in Operations, NEW S \in SUBSET Names, o.do # "switch"
  PROVE  Applied(o, S) \in SUBSET Names
BY OperationTypes DEF Applied

LEMMA NewCurrentTypes ==
  ASSUME NEW o \in Operations
  PROVE  NewCurrent(o) \in Names \cup {NoName}
BY OperationTypes DEF NewCurrent

LEMMA TakenOffTypes ==
  ASSUME TypeOK, Busy, NEW p \in Procs
  PROVE  TakenOff(p) \subseteq Names
<1>1. CASE pc[p] = "current"
  BY <1>1, OperationTypes DEF Busy, TakenOff
<1>2. CASE pc[p] # "current"
  BY <1>2 DEF TakenOff
<1> QED
  BY <1>1, <1>2

(* An operation that is over leaves its process at the menu, or down.        *)
LEMMA LeaveTypes ==
  ASSUME TypeOK, Busy, NEW p \in Procs, NEW l \in {"menu", "down"}, Leave(p, l)
  PROVE  /\ pc' \in [Procs -> {"menu", "try", "expired", "load", "write", "rename",
                               "current", "unlock", "down"}]
         /\ op' \in [Procs -> Operations \cup {NoOp}]
         /\ list' \in [Procs -> SUBSET Names] /\ tries' \in [Procs -> 0 .. MaxTries]
         /\ Busy'
BY StoreAssumption DEF Leave, GoTo, TypeOK, Busy

LEMMA TypeStep == TypeOK /\ Busy /\ [Next]_vars => TypeOK' /\ Busy'
<1> SUFFICES ASSUME TypeOK, Busy, [Next]_vars PROVE TypeOK' /\ Busy'
  OBVIOUS
<1> USE StoreAssumption
<1>1. CASE Expire
  BY <1>1 DEF Expire, TypeOK, Busy, files, local, hist
<1>2. ASSUME NEW p \in Procs, CreateLock(p) PROVE TypeOK' /\ Busy'
  BY <1>2 DEF CreateLock, TypeOK, Busy, files, local, hist, GoTo
<1>3. ASSUME NEW p \in Procs, FindLock(p) PROVE TypeOK' /\ Busy'
  <2>1. tries' \in [Procs -> 0 .. MaxTries]
    BY <1>3 DEF FindLock, TypeOK, TriesLeft
  <2> QED
    BY <1>3, <2>1 DEF FindLock, TypeOK, Busy, files, lockv, hist, GoTo
<1>4. ASSUME NEW p \in Procs, RemoveExpired(p) PROVE TypeOK' /\ Busy'
  BY <1>4 DEF RemoveExpired, ClearExpired, RemoveLock, TypeOK, Busy, files, local, GoTo
<1>5. ASSUME NEW p \in Procs, GiveUp(p) PROVE TypeOK' /\ Busy'
  BY <1>5, LeaveTypes DEF GiveUp, TypeOK, files, lockv, hist
<1>6. ASSUME NEW p \in Procs, LoadConfigs(p) PROVE TypeOK' /\ Busy'
  <2>1. op[p] \in Operations /\ op[p].do # "switch" /\ configs \in SUBSET Names
    BY <1>6 DEF LoadConfigs, Busy, TypeOK
  <2>2. Applied(op[p], configs) \in SUBSET Names
    BY <2>1, AppliedTypes
  <2>3. list' \in [Procs -> SUBSET Names]
    BY <1>6, <2>2 DEF LoadConfigs, TypeOK
  <2> QED
    BY <1>6, <2>3 DEF LoadConfigs, TypeOK, Busy, files, lockv, hist, GoTo
<1>7. ASSUME NEW p \in Procs, WriteTmp(p) PROVE TypeOK' /\ Busy'
  <2>1. tmp' \subseteq SUBSET Names
    BY <1>7 DEF WriteTmp, TypeOK
  <2> QED
    BY <1>7, <2>1 DEF WriteTmp, TypeOK, Busy, lockv, local, hist, GoTo
<1>8. ASSUME NEW p \in Procs, RenameTmp(p) PROVE TypeOK' /\ Busy'
  <2>1. op[p] \in Operations /\ op[p].do # "switch" /\ truth \in SUBSET Names
    BY <1>8 DEF RenameTmp, Busy, TypeOK
  <2>2. Applied(op[p], truth) \in SUBSET Names
    BY <2>1, AppliedTypes
  <2>3. configs' \subseteq Names /\ truth' \subseteq Names /\ tmp' \subseteq SUBSET Names
    BY <1>8, <2>2 DEF RenameTmp, TypeOK, files
  <2> QED
    BY <1>8, <2>3 DEF RenameTmp, TypeOK, Busy, files, lockv, local, GoTo
<1>9. ASSUME NEW p \in Procs, WriteCurrent(p) PROVE TypeOK' /\ Busy'
  <2>1. op[p] \in Operations
    BY <1>9 DEF WriteCurrent, Busy
  <2>2. NewCurrent(op[p]) \in Names \cup {NoName} /\ TakenOff(p) \subseteq Names
    BY <2>1, NewCurrentTypes, TakenOffTypes
  <2>3. {op[p].name} \subseteq Names
    BY <2>1, OperationTypes
  <2>4. current' \in Names \cup {NoName} /\ left' \subseteq Names
    BY <1>9, <2>2, <2>3 DEF WriteCurrent, NothingToWrite, CurrentWritten, CurrentFails, TypeOK
  <2> QED
    BY <1>9, <2>4 DEF WriteCurrent, TypeOK, Busy, lockv, local, GoTo
<1>10. ASSUME NEW p \in Procs, Unlock(p) PROVE TypeOK' /\ Busy'
  BY <1>10, LeaveTypes DEF Unlock, RemoveLock, TypeOK, files
<1>11. ASSUME NEW p \in Procs, Stops(p) PROVE left' \subseteq Names /\ sig' \subseteq Procs
  BY <1>11, TakenOffTypes DEF Stops, TypeOK
<1>12. ASSUME NEW p \in Procs, SignalExit(p) \/ Crash(p) \/ Exit(p) PROVE TypeOK' /\ Busy'
  <2>1. Stops(p) /\ Leave(p, "down") /\ UNCHANGED <<files, truth>>
    BY <1>12 DEF SignalExit, Crash, Exit, Stops
  <2>2. lock' \in Procs \cup {Nobody} /\ old' \in BOOLEAN /\ robbed' \in BOOLEAN
    BY <1>12 DEF SignalExit, Crash, Exit, RemoveLock, lockv, TypeOK
  <2> QED
    BY <1>11, <2>1, <2>2, LeaveTypes DEF TypeOK, files
<1>13. ASSUME NEW p \in Procs, Choose(p) PROVE TypeOK' /\ Busy'
  <2>1. PICK o \in Operations : op' = [op EXCEPT ![p] = o]
    BY <1>13 DEF Choose
  <2> QED
    BY <1>13, <2>1 DEF Choose, TypeOK, Busy, files, lockv, hist, GoTo
<1>14. ASSUME NEW p \in Procs, Signal(p) PROVE TypeOK' /\ Busy'
  BY <1>14 DEF Signal, RemoveLock, TypeOK, Busy, files, local
<1>15. ASSUME NEW p \in Procs, Restart(p) PROVE TypeOK' /\ Busy'
  BY <1>15 DEF Restart, TypeOK, Busy, files, lockv, local, hist, GoTo
<1>16. CASE UNCHANGED vars
  BY <1>16 DEF vars, TypeOK, Busy, files, lockv, local, hist
<1> QED
  BY <1>1, <1>2, <1>3, <1>4, <1>5, <1>6, <1>7, <1>8, <1>9, <1>10, <1>12, <1>13, <1>14, <1>15, <1>16
     DEF Next, Step

-----------------------------------------------------------------------------
(* While no lock file is taken from under an update, updates stay exclusive.  *)
LEMMA LockKept ==
  ASSUME TypeOK, NEW p \in Procs, NEW spared \in SUBSET Procs, RemoveLock(p, spared), ~robbed'
  PROVE  ~robbed /\ \A q \in Procs \ spared : lock = q => ~Updating(q)
BY DEF RemoveLock, TypeOK

(* A process that leaves its operation, and perhaps removes a lock file no    *)
(* other update holds.                                                        *)
LEMMA LeaveSafe ==
  ASSUME TypeOK, Safe, NEW p \in Procs, NEW l \in {"menu", "down"}, Leave(p, l),
         UNCHANGED <<files, truth>>, left' = left \cup TakenOff(p),
         \/ lock' = lock
         \/ \A q \in Procs \ {p} : lock = q => ~Updating(q)
  PROVE  Safe'
<1>1. /\ pc' = [pc EXCEPT ![p] = l] /\ \A q \in Procs \ {p} : op'[q] = op[q] /\ list'[q] = list[q]
      /\ UNCHANGED <<configs, tmp, current, truth>>
  BY DEF Leave, GoTo, files, TypeOK
<1>2. ASSUME NEW q \in Procs, pc'[q] \notin {"menu", "down"}
      PROVE  /\ q # p /\ pc'[q] = pc[q] /\ op'[q] = op[q] /\ list'[q] = list[q]
             /\ Updating(q)' <=> Updating(q)
  BY <1>1, <1>2 DEF TypeOK, Updating
<1>3. ASSUME NEW q \in Procs, Updating(q)' PROVE lock' = q
  BY <1>2, <1>3 DEF Safe, Exclusive, Updating
<1>4. ASSUME NEW q \in Procs PROVE Prepared(q)' /\ Saved(q)'
  BY <1>1, <1>2 DEF Safe, Prepared, Saved, Applied
<1>5. Explained'
  <2>1. \A q \in Procs \ {p} : TakenOff(q)' = TakenOff(q)
    BY <1>1 DEF TakenOff, TypeOK
  <2> QED
    BY <1>1, <2>1 DEF Safe, Explained
<1> QED
  BY <1>1, <1>3, <1>4, <1>5 DEF Safe, Exclusive

(* A process inside its update is alone there.                               *)
LEMMA Alone ==
  ASSUME Safe, NEW p \in Procs, Updating(p)
  PROVE  \A q \in Procs \ {p} : ~Updating(q)
BY DEF Safe, Exclusive

(* A step inside an update: only its own process has anything to keep.       *)
LEMMA AloneSafe ==
  ASSUME TypeOK, Safe, NEW p \in Procs, Updating(p) \/ lock = Nobody, lock' = p,
         NEW l, pc' = [pc EXCEPT ![p] = l],
         configs' = truth', Prepared(p)', Saved(p)', Explained'
  PROVE  Safe'
<1>1. \A q \in Procs \ {p} : ~Updating(q)
  BY Alone, StoreAssumption DEF Safe, Exclusive
<1>2. \A q \in Procs \ {p} : pc'[q] = pc[q]
  BY DEF TypeOK
<1>3. \A q \in Procs \ {p} : ~Updating(q)' /\ pc'[q] \notin {"write", "rename", "current"}
  BY <1>1, <1>2 DEF Updating
<1>4. Exclusive'
  BY <1>3 DEF Exclusive
<1>5. \A q \in Procs : Prepared(q)' /\ Saved(q)'
  BY <1>3 DEF Prepared, Saved
<1> QED
  BY <1>4, <1>5 DEF Safe

(* With nobody between the two files, a name that is not listed was left.    *)
LEMMA ExplainedAtRest ==
  ASSUME Safe, \A p \in Procs : pc[p] # "current"
  PROVE  current \in configs \cup {NoName} \cup left
BY DEF Safe, Explained, TakenOff

LEMMA RenameSafe ==
  ASSUME TypeOK, Busy, Safe, NEW p \in Procs, RenameTmp(p)
  PROVE  Safe'
<1>1. pc[p] = "rename" /\ Updating(p) /\ op[p] \in Operations /\ op[p].do # "switch"
  BY DEF RenameTmp, Busy, Updating
<1>2. tmp = {list[p]} /\ list[p] = Applied(op[p], configs) /\ configs = truth /\ lock = p
  BY <1>1 DEF Safe, Prepared, Exclusive
<1>3. /\ configs' = list[p] /\ truth' = Applied(op[p], truth) /\ pc' = [pc EXCEPT ![p] = "current"]
      /\ UNCHANGED <<current, lock, op, list, left>>
  BY <1>2 DEF RenameTmp, GoTo, files, lockv, local
<1>4. configs' = truth'
  BY <1>2, <1>3
<1>5. op[p].do \in {"add", "remove", "rename"} /\ (op[p].do = "add" => op[p].to = op[p].name)
  BY <1>1, OperationTypes
<1>6. pc'[p] = "current"
  BY <1>3 DEF TypeOK
<1>7. Prepared(p)' /\ Saved(p)'
  BY <1>2, <1>3, <1>5, <1>6 DEF Prepared, Saved, Applied
<1>8. Explained'
  <2>1. \A q \in Procs : pc[q] # "current"
    BY <1>1, Alone DEF Updating
  <2>2. current \in configs \cup {NoName} \cup left
    BY <2>1, ExplainedAtRest
  <2>3. configs \ {op[p].name} \subseteq configs' /\ (op[p].do = "add" => configs \subseteq configs')
    BY <1>2, <1>3, <1>5 DEF Applied
  <2>4. CASE current = op[p].name /\ op[p].do \in {"remove", "rename"}
    BY <1>3, <1>6, <2>4 DEF Explained, TakenOff
  <2>5. CASE ~(current = op[p].name /\ op[p].do \in {"remove", "rename"})
    BY <1>3, <1>5, <2>2, <2>3, <2>5 DEF Explained
  <2> QED
    BY <2>4, <2>5
<1> QED
  BY <1>1, <1>2, <1>3, <1>4, <1>7, <1>8, AloneSafe

LEMMA WriteCurrentSafe ==
  ASSUME TypeOK, Busy, Safe, NEW p \in Procs, WriteCurrent(p)
  PROVE  Safe'
<1>1. pc[p] = "current" /\ Updating(p) /\ op[p] \in Operations /\ lock = p /\ configs = truth
  BY DEF WriteCurrent, Busy, Updating, Safe, Exclusive
<1>2. pc' = [pc EXCEPT ![p] = "unlock"] /\ UNCHANGED <<configs, truth, lock, op>>
  BY DEF WriteCurrent, GoTo, lockv, local
<1>3. pc'[p] = "unlock"
  BY <1>2 DEF TypeOK
<1>4. Prepared(p)' /\ Saved(p)'
  BY <1>3 DEF Prepared, Saved
<1>5. /\ op[p].do \in {"add", "remove", "rename", "switch"}
      /\ op[p].do \in {"add", "rename"} => op[p].to \in configs
      /\ op[p].do = "switch" => op[p].to = op[p].name
  BY <1>1, OperationTypes DEF Safe, Saved
<1>6. current \in configs \cup {NoName} \cup left \cup TakenOff(p)
  <2>1. \A q \in Procs \ {p} : TakenOff(q) = {}
    BY <1>1, Alone DEF Updating, TakenOff
  <2> QED
    BY <2>1 DEF Safe, Explained
<1>7. Explained'
  <2>1. CASE NothingToWrite(p)
    <3>1. TakenOff(p) = {}
      BY <2>1 DEF NothingToWrite, Rewrites, TakenOff
    <3> QED
      BY <1>2, <1>6, <2>1, <3>1 DEF NothingToWrite, Explained
  <2>2. CASE CurrentWritten(p)
    <3>1. NewCurrent(op[p]) \in configs \cup {NoName} \cup left'
      BY <1>5, <2>2 DEF CurrentWritten, NewCurrent
    <3> QED
      BY <1>2, <2>2, <3>1 DEF CurrentWritten, Explained
  <2>3. CASE CurrentFails(p)
    BY <1>2, <1>6, <2>3 DEF CurrentFails, Explained
  <2> QED
    BY <2>1, <2>2, <2>3 DEF WriteCurrent
<1> QED
  BY <1>1, <1>2, <1>4, <1>7, AloneSafe

LEMMA SafeStep == StoreInv /\ [Next]_vars /\ ~robbed' => Safe'
<1> SUFFICES ASSUME StoreInv, [Next]_vars, ~robbed' PROVE Safe'
  OBVIOUS
<1>0. TypeOK /\ Busy /\ (~robbed => Safe)
  BY DEF StoreInv
<1>1. CASE Expire
  <2>1. Safe /\ UNCHANGED <<configs, tmp, current, lock, op, list, pc, truth, left>>
    BY <1>0, <1>1 DEF Expire, files, local, hist
  <2> QED
    BY <2>1 DEF Safe, Exclusive, Updating, Prepared, Saved, Explained, TakenOff, Applied
<1>2. ASSUME NEW p \in Procs, CreateLock(p) PROVE Safe'
  <2>1. /\ Safe /\ lock = Nobody /\ lock' = p
        /\ UNCHANGED <<configs, tmp, current, op, list, truth, left>>
        /\ pc' = [pc EXCEPT ![p] = IF op[p].do = "switch" THEN "current" ELSE "load"]
    BY <1>0, <1>2 DEF CreateLock, CanCreate, hist, GoTo, files, local
  <2>2. \A q \in Procs : ~Updating(q)
    BY <2>1, StoreAssumption DEF Safe, Exclusive
  <2>3. pc'[p] \in {"current", "load"} /\ (pc'[p] = "current" => op[p].do = "switch")
    BY <1>0, <2>1 DEF TypeOK
  <2>4. Prepared(p)' /\ Saved(p)'
    BY <2>1, <2>3 DEF Prepared, Saved
  <2>5. Explained'
    BY <2>1, <2>2, ExplainedAtRest DEF Updating, Explained
  <2> QED
    BY <1>0, <2>1, <2>4, <2>5, AloneSafe DEF Safe
<1>3. ASSUME NEW p \in Procs, NEW l \in {"try", "expired", "menu"}, ~Updating(p),
             pc' = [pc EXCEPT ![p] = l],
             UNCHANGED <<configs, tmp, current, list, truth, left>>,
             \A q \in Procs \ {p} : op'[q] = op[q],
             ~robbed, \A q \in Procs : Updating(q) /\ lock = q => lock' = q
      PROVE  Safe'
  <2>1. Safe
    BY <1>0, <1>3
  <2>2. ASSUME NEW q \in Procs
        PROVE  /\ pc'[q] \in {"write", "rename", "current"} => pc'[q] = pc[q] /\ op'[q] = op[q]
               /\ Updating(q)' <=> Updating(q)
               /\ pc[q] = "current" => pc'[q] = "current" /\ op'[q] = op[q]
    BY <1>0, <1>3 DEF TypeOK, Updating
  <2>3. Exclusive'
    BY <1>3, <2>1, <2>2 DEF Safe, Exclusive
  <2>4. \A q \in Procs : Prepared(q)' /\ Saved(q)'
    BY <1>3, <2>1, <2>2 DEF Safe, Prepared, Saved, Applied
  <2>5. Explained'
    BY <1>3, <2>1, <2>2 DEF Safe, Explained, TakenOff
  <2> QED
    BY <1>3, <2>1, <2>3, <2>4, <2>5 DEF Safe
<1>4. ASSUME NEW p \in Procs, FindLock(p) PROVE Safe'
  BY <1>0, <1>3, <1>4 DEF FindLock, GoTo, files, lockv, hist, Updating
<1>5. ASSUME NEW p \in Procs, RemoveExpired(p) PROVE Safe'
  <2>1. ~robbed /\ \A q \in Procs : lock = q => ~Updating(q)
    BY <1>0, <1>5, LockKept DEF RemoveExpired, ClearExpired
  <2> QED
    BY <1>3, <1>5, <2>1 DEF RemoveExpired, GoTo, files, local, Updating
<1>6. ASSUME NEW p \in Procs, Choose(p) PROVE Safe'
  <2>1. PICK o \in Operations : op' = [op EXCEPT ![p] = o]
    BY <1>6 DEF Choose
  <2> QED
    BY <1>0, <1>3, <1>6, <2>1 DEF Choose, GoTo, files, lockv, hist, Updating, TypeOK
<1>7. ASSUME NEW p \in Procs, Restart(p) PROVE Safe'
  BY <1>0, <1>3, <1>7 DEF Restart, GoTo, files, lockv, local, hist, Updating
<1>8. ASSUME NEW p \in Procs, Signal(p) PROVE Safe'
  <2>1. Safe /\ \A q \in Procs : lock = q => ~Updating(q)
    BY <1>0, <1>8, LockKept DEF Signal
  <2>2. UNCHANGED <<configs, tmp, current, op, list, pc, truth, left>>
    BY <1>8 DEF Signal, files, local
  <2> QED
    BY <2>1, <2>2 DEF Safe, Exclusive, Updating, Prepared, Saved, Explained, TakenOff, Applied
<1>9. ASSUME NEW p \in Procs, GiveUp(p) PROVE Safe'
  <2>1. Safe /\ pc[p] = "try" /\ Leave(p, "menu") /\ UNCHANGED <<files, lock, truth, left>>
    BY <1>0, <1>9 DEF GiveUp, lockv, hist
  <2>2. left' = left \cup TakenOff(p)
    BY <2>1 DEF TakenOff
  <2> QED
    BY <1>0, <2>1, <2>2, LeaveSafe
<1>10. ASSUME NEW p \in Procs, Unlock(p) PROVE Safe'
  <2>1. ~robbed /\ \A q \in Procs \ {p} : lock = q => ~Updating(q)
    BY <1>0, <1>10, LockKept DEF Unlock
  <2>2. pc[p] = "unlock" /\ Leave(p, "menu") /\ UNCHANGED <<files, truth, left>>
    BY <1>10 DEF Unlock
  <2>3. left' = left \cup TakenOff(p)
    BY <2>2 DEF TakenOff
  <2> QED
    BY <1>0, <2>1, <2>2, <2>3, LeaveSafe
<1>11. ASSUME NEW p \in Procs, SignalExit(p) \/ Crash(p) PROVE Safe'
  <2>1. Safe /\ Leave(p, "down") /\ UNCHANGED <<files, lock, truth>> /\ left' = left \cup TakenOff(p)
    BY <1>0, <1>11 DEF SignalExit, Crash, Stops, lockv
  <2> QED
    BY <1>0, <2>1, LeaveSafe
<1>12. ASSUME NEW p \in Procs, Exit(p) PROVE Safe'
  <2>1. ~robbed /\ \A q \in Procs \ {p} : lock = q => ~Updating(q)
    BY <1>0, <1>12, LockKept DEF Exit
  <2>2. Leave(p, "down") /\ UNCHANGED <<files, truth>> /\ left' = left \cup TakenOff(p)
    BY <1>12 DEF Exit, Stops
  <2> QED
    BY <1>0, <2>1, <2>2, LeaveSafe
<1>13. ASSUME NEW p \in Procs, LoadConfigs(p) PROVE Safe'
  <2>1. /\ Safe /\ pc[p] = "load" /\ Updating(p) /\ UNCHANGED <<configs, tmp, current, lock, op, truth, left>>
    BY <1>0, <1>13 DEF LoadConfigs, Updating, files, lockv, hist
  <2>2. lock = p /\ \A q \in Procs : pc[q] # "current"
    BY <2>1, Alone DEF Safe, Exclusive, Updating
  <2>3. \/ pc' = [pc EXCEPT ![p] = "unlock"]
        \/ /\ pc' = [pc EXCEPT ![p] = "write"]
           /\ list' = [list EXCEPT ![p] = Applied(op[p], configs)]
    BY <1>13 DEF LoadConfigs, GoTo
  <2>4. Prepared(p)' /\ Saved(p)'
    BY <1>0, <2>1, <2>3 DEF Prepared, Saved, Applied, TypeOK
  <2>5. Explained'
    BY <2>1, <2>2, ExplainedAtRest DEF Explained
  <2> QED
    BY <1>0, <2>1, <2>2, <2>3, <2>4, <2>5, AloneSafe DEF Safe
<1>14. ASSUME NEW p \in Procs, WriteTmp(p) PROVE Safe'
  <2>1. /\ Safe /\ pc[p] = "write" /\ Updating(p) /\ tmp' = {list[p]}
        /\ UNCHANGED <<configs, current, lock, op, list, truth, left>>
        /\ pc' = [pc EXCEPT ![p] = "rename"]
    BY <1>0, <1>14 DEF WriteTmp, Updating, lockv, local, hist, GoTo
  <2>2. lock = p /\ \A q \in Procs : pc[q] # "current"
    BY <2>1, Alone DEF Safe, Exclusive, Updating
  <2>3. Prepared(p)' /\ Saved(p)'
    BY <1>0, <2>1 DEF Safe, Prepared, Saved, Applied, TypeOK
  <2>4. Explained'
    BY <2>1, <2>2, ExplainedAtRest DEF Explained
  <2> QED
    BY <1>0, <2>1, <2>2, <2>3, <2>4, AloneSafe DEF Safe
<1>15. ASSUME NEW p \in Procs, RenameTmp(p) PROVE Safe'
  BY <1>0, <1>15, RenameSafe DEF RenameTmp
<1>16. ASSUME NEW p \in Procs, WriteCurrent(p) PROVE Safe'
  BY <1>0, <1>16, WriteCurrentSafe DEF WriteCurrent
<1>17. CASE UNCHANGED vars
  <2>1. Safe /\ UNCHANGED <<configs, tmp, current, lock, op, list, pc, truth, left>>
    BY <1>0, <1>17 DEF vars, files, lockv, local, hist
  <2> QED
    BY <2>1 DEF Safe, Exclusive, Updating, Prepared, Saved, Explained, TakenOff, Applied
<1> QED
  BY <1>1, <1>2, <1>4, <1>5, <1>6, <1>7, <1>8, <1>9, <1>10, <1>11, <1>12, <1>13, <1>14, <1>15,
     <1>16, <1>17 DEF Next, Step

LEMMA StoreInductive == Spec => []StoreInv
<1>1. Init => StoreInv
  <2> SUFFICES ASSUME Init PROVE StoreInv
    OBVIOUS
  <2>1. TypeOK
    <3>1. /\ op \in [Procs -> Operations \cup {NoOp}]
          /\ list \in [Procs -> SUBSET Names] /\ tries \in [Procs -> 0 .. MaxTries]
      BY StoreAssumption DEF Init
    <3> QED
      BY <3>1 DEF Init, TypeOK
  <2>2. Busy /\ \A p \in Procs : ~Updating(p)
    BY DEF Init, Busy, Updating
  <2>3. Safe
    BY <2>2 DEF Init, Safe, Exclusive, Prepared, Saved, Explained
  <2> QED
    BY <2>1, <2>2, <2>3 DEF StoreInv
<1>2. StoreInv /\ [Next]_vars => StoreInv'
  BY TypeStep, SafeStep DEF StoreInv
<1> QED
  BY <1>1, <1>2, PTL DEF Spec

(* The files and the processes' positions stay typed.                        *)
THEOREM StoreTyped == Spec => []TypeOK
<1>1. StoreInv => TypeOK
  BY DEF StoreInv
<1> QED
  BY <1>1, StoreInductive, PTL

(* Unless a lock file is taken from under an update, two updates never        *)
(* overlap (acquireLock), so configs.json is what the saved updates give      *)
(* (addConfig, removeConfig, renameConfig).                                   *)
THEOREM UpdatesExclude == Spec => [](~robbed => Exclusive)
<1>1. StoreInv => (~robbed => Exclusive)
  BY DEF StoreInv, Safe
<1> QED
  BY <1>1, StoreInductive, PTL

(* No saved update is lost: configs.json is what they give one after another. *)
THEOREM NoUpdateLostHolds == Spec => []NoUpdateLost
<1>1. StoreInv => NoUpdateLost
  BY DEF StoreInv, Safe, NoUpdateLost
<1> QED
  BY <1>1, StoreInductive, PTL

(* A name in current.json that is not listed is one an update under way has   *)
(* just taken off, or one that a cut, a write that failed unnoticed or a late  *)
(* switch left there (removeConfig, renameConfig, writeCurrent, actionList).   *)
THEOREM CurrentIsExplainedHolds == Spec => []CurrentIsExplained
<1>1. StoreInv => CurrentIsExplained
  BY DEF StoreInv, Safe, Explained, CurrentIsExplained
<1> QED
  BY <1>1, StoreInductive, PTL

-----------------------------------------------------------------------------
(* The kernel manager.                                                     *)

(* A kernel was started and its waiter has not cleaned up after it.          *)
Unreaped(k) == kernel[k] # "none" /\ k \notin reaped

KernelTypes ==
  /\ {mu, foreign, leaving, exited} \subseteq BOOLEAN
  /\ proc \in Kernels \cup {0} /\ dir \in Kernels \cup {0} /\ exitCh \in Kernels \cup {0}
  /\ tail \in 0 .. MaxTail
  /\ at \in [{"menu", "signal"} -> {"menu", "start", "waitPort", "waitExit", "tailLog", "ended",
                                    "idle", "stop", "stopInt", "stopKill"}]
  /\ at["menu"] # "idle"
  /\ at["signal"] \in {"idle", "stop", "stopInt", "stopKill", "ended"}
  /\ target \in [{"menu", "signal"} -> Kernels \cup {0}]
  /\ \A t \in {"menu", "signal"} : at[t] \in {"stopInt", "stopKill"} => target[t] \in Kernels
  /\ at["menu"] \in {"waitPort", "waitExit", "tailLog"} => exitCh \in Kernels
  /\ kernel \in [Kernels -> {"none", "running", "listening", "dead"}]
  /\ killed \subseteq Kernels /\ reaped \subseteq Kernels /\ dirs \subseteq Kernels
  /\ started \in 0 .. MaxStarts

(* Kernels are started in the order of their numbers and reaped when dead;   *)
(* start holds km.mu.                                                        *)
LifeOK == /\ \A k \in Kernels : /\ k > started => kernel[k] = "none"
                                /\ k \in reaped => kernel[k] = "dead"
          /\ mu <=> at["menu"] \in {"waitPort", "waitExit", "tailLog"}

(* What holds until a signal arrives: an unreaped kernel is the one the       *)
(* manager knows, with its directory; it is the one a stop in progress is     *)
(* about, and that stop has killed it before it cleans up without an exit.    *)
Owned == /\ \A k \in Kernels : Unreaped(k) => proc = k /\ dir = k /\ k \in dirs
         /\ \A k \in dirs : Unreaped(k)
         /\ at["menu"] \in {"stopInt", "stopKill"} =>
               \A k \in Kernels : Unreaped(k) => target["menu"] = k
         /\ at["menu"] = "stopKill" => target["menu"] \in killed
         /\ exited => \A k \in Kernels : ~Unreaped(k)

ManagerInv == KernelTypes /\ LifeOK /\ (at["signal"] = "idle" => Owned)

LEMMA ManagerStarts == ManagerInit => ManagerInv
<1> SUFFICES ASSUME ManagerInit PROVE ManagerInv
  OBVIOUS
<1> USE ManagerAssumption DEF ManagerInit, Kernels, None, Threads
<1>1. KernelTypes
  <2>1. {mu, foreign, leaving, exited} \subseteq BOOLEAN
    OBVIOUS
  <2>2. /\ at = [t \in {"menu", "signal"} |-> IF t = "menu" THEN "menu" ELSE "idle"]
        /\ at["menu"] = "menu" /\ at["signal"] = "idle"
    OBVIOUS
  <2>3. /\ tail \in 0 .. MaxTail /\ started \in 0 .. MaxStarts
    OBVIOUS
  <2>4. /\ target \in [{"menu", "signal"} -> Kernels \cup {0}]
        /\ kernel \in [Kernels -> {"none", "running", "listening", "dead"}]
    OBVIOUS
  <2> QED
    BY <2>1, <2>2, <2>3, <2>4 DEF KernelTypes
<1>2. LifeOK
  BY DEF LifeOK
<1>3. Owned
  BY DEF Owned, Unreaped
<1> QED
  BY <1>1, <1>2, <1>3 DEF ManagerInv

(* start, on the menu thread.                                                *)
LEMMA StartKeeps ==
  ASSUME ManagerInv, StartStep
  PROVE  ManagerInv'
<1> USE DEF ManagerInv, Goroutine, MoveTo, LockFree, None
<1>1. CASE StartFails
  <2>1. KernelTypes'
    BY <1>1 DEF StartFails, km, procs, KernelTypes
  <2>2. LifeOK'
    BY <1>1 DEF StartFails, km, procs, LifeOK, KernelTypes
  <2>3. Owned => Owned'
    BY <1>1 DEF StartFails, km, procs, Owned, Unreaped, KernelTypes
  <2> QED
    BY <1>1, <2>1, <2>2, <2>3 DEF StartFails, KernelTypes
<1>2. CASE StartKernel
  <2> DEFINE k == started + 1
  <2>0. /\ k \in Kernels /\ started \in Nat /\ k > started
        /\ kernel[k] = "none" /\ k \notin reaped /\ k # 0
    BY <1>2, ManagerAssumption DEF StartKernel, KernelTypes, LifeOK, Kernels
  <2>1. /\ started' = k /\ kernel' = [kernel EXCEPT ![k] = "running"]
        /\ dirs' = dirs \cup {k} /\ dir' = k /\ proc' = k /\ exitCh' = k
        /\ tail' = 0 /\ mu' = TRUE /\ at' = [at EXCEPT !["menu"] = "waitPort"]
        /\ UNCHANGED <<killed, reaped, target, foreign, leaving, exited>>
        /\ ~exited /\ proc = 0 /\ started < MaxStarts /\ at["menu"] = "start"
    BY <1>2 DEF StartKernel
  <2> HIDE DEF k
  <2>2. KernelTypes'
    <3>1. started' \in 0 .. MaxStarts /\ 0 \in 0 .. MaxTail
      BY <2>0, <2>1, ManagerAssumption DEF k, KernelTypes
    <3> QED
      BY <2>0, <2>1, <3>1 DEF KernelTypes
  <2>3. LifeOK'
    <3>1. ASSUME NEW j \in Kernels, j > k PROVE j > started /\ j # k
      BY <2>0, <3>1 DEF k, Kernels
    <3> QED
      BY <2>0, <2>1, <3>1 DEF LifeOK, KernelTypes
  <2>4. Owned => Owned'
    <3> SUFFICES ASSUME Owned PROVE Owned'
      OBVIOUS
    <3>1. \A j \in Kernels : ~Unreaped(j)
      BY <2>1 DEF Owned, Kernels
    <3>2. \A j \in Kernels : Unreaped(j)' <=> j = k
      BY <2>0, <2>1, <3>1 DEF Unreaped, KernelTypes
    <3>3. dirs = {}
      BY <3>1 DEF Owned, KernelTypes
    <3> QED
      BY <2>0, <2>1, <3>2, <3>3 DEF Owned, KernelTypes
  <2> QED
    BY <2>1, <2>2, <2>3, <2>4 DEF KernelTypes
<1>3. CASE PortTimeout
  <2>1. KernelTypes'
    BY <1>3 DEF PortTimeout, km, KernelTypes
  <2>2. LifeOK'
    BY <1>3 DEF PortTimeout, km, LifeOK, KernelTypes
  <2>3. Owned => Owned'
    BY <1>3 DEF PortTimeout, km, Owned, Unreaped, KernelTypes
  <2> QED
    BY <1>3, <2>1, <2>2, <2>3 DEF PortTimeout, KernelTypes
<1>4. CASE StartGivesUp
  <2>1. KernelTypes'
    BY <1>4 DEF StartGivesUp, km, procs, KernelTypes
  <2>2. LifeOK'
    BY <1>4 DEF StartGivesUp, km, procs, LifeOK, KernelTypes
  <2>3. Owned => Owned'
    BY <1>4 DEF StartGivesUp, km, procs, Owned, Unreaped, KernelTypes
  <2> QED
    BY <1>4, <2>1, <2>2, <2>3 DEF StartGivesUp, KernelTypes
<1>5. CASE StartReturns
  <2>1. at["menu"] = "waitPort"
    BY <1>5 DEF StartReturns, StartDone, LifeOK
  <2>2. /\ mu' = FALSE /\ at' = [at EXCEPT !["menu"] = "menu"]
        /\ UNCHANGED <<proc, dir, dirs, exitCh, tail, kernel, killed, reaped, started, target,
                       foreign, leaving, exited>>
    BY <1>5, <2>1 DEF StartReturns, ReturnUnlocks, procs
  <2>3. KernelTypes'
    BY <2>2 DEF KernelTypes
  <2>4. LifeOK'
    BY <2>2 DEF LifeOK, KernelTypes
  <2>5. Owned => Owned'
    BY <2>2 DEF Owned, Unreaped, KernelTypes
  <2> QED
    BY <2>2, <2>3, <2>4, <2>5 DEF KernelTypes
<1> QED
  BY <1>1, <1>2, <1>3, <1>4, <1>5 DEF StartStep

(* The menu decides.                                                         *)
LEMMA MenuKeeps ==
  ASSUME ManagerInv, ActionStart \/ ActionStop \/ Quit
  PROVE  ManagerInv'
<1> USE DEF ManagerInv, MoveTo
<1>1. PICK l \in {"start", "stop"} : at' = [at EXCEPT !["menu"] = l]
  BY DEF ActionStart, ActionStop, Quit
<1>2. /\ UNCHANGED <<mu, proc, dir, exitCh, tail, kernel, killed, reaped, started, dirs, target,
                     foreign, exited>>
      /\ leaving' \in {leaving, TRUE} /\ at["menu"] = "menu"
  BY DEF ActionStart, ActionStop, Quit, km, procs
<1>3. KernelTypes'
  BY <1>1, <1>2 DEF KernelTypes
<1>4. LifeOK'
  BY <1>1, <1>2 DEF LifeOK, KernelTypes
<1>5. Owned => Owned'
  BY <1>1, <1>2 DEF Owned, Unreaped, KernelTypes
<1> QED
  BY <1>1, <1>2, <1>3, <1>4, <1>5 DEF KernelTypes

(* After a signal nothing is promised of what is owned.                      *)
LEMMA SignalKeeps ==
  ASSUME ManagerInv, SignalArrives
  PROVE  ManagerInv'
<1> USE DEF ManagerInv, SignalArrives, MoveTo, km, procs
<1>1. at' = [at EXCEPT !["signal"] = "stop"]
  OBVIOUS
<1>2. KernelTypes'
  BY <1>1 DEF KernelTypes
<1>3. LifeOK'
  BY <1>1 DEF LifeOK, KernelTypes
<1>4. at'["signal"] # "idle"
  BY <1>1 DEF KernelTypes
<1> QED
  BY <1>2, <1>3, <1>4

(* stop, on either thread: the cleanup of a stop runs when its kernel was     *)
(* reaped, unless a killed kernel is outlived by a wait that needs km.mu,     *)
(* which is free then.                                                       *)
LEMMA StopKeeps ==
  ASSUME ManagerInv, NEW t \in {"menu", "signal"}, StopStep(t)
  PROVE  ManagerInv'
<1> USE DEF ManagerInv, MoveTo, LockFree, None
<1>0. /\ at \in [{"menu", "signal"} -> {"menu", "start", "waitPort", "waitExit", "tailLog",
                                        "ended", "idle", "stop", "stopInt", "stopKill"}]
      /\ at["menu"] # "idle"
  BY DEF KernelTypes
<1>1. CASE StopIdle(t)
  <2>1. PICK l \in {"ended", "menu"} :
           /\ at' = [at EXCEPT ![t] = l] /\ (t = "signal" => l = "ended")
    BY <1>1 DEF StopIdle, StopReturns, Last
  <2>2. /\ UNCHANGED <<mu, proc, dir, exitCh, tail, kernel, killed, reaped, started, dirs,
                       foreign, leaving>>
        /\ exited' \in BOOLEAN /\ target' = [target EXCEPT ![t] = 0]
        /\ at[t] = "stop" /\ proc = 0
    BY <1>1 DEF StopIdle, StopReturns, Last, km, procs, KernelTypes
  <2>3. KernelTypes'
    BY <2>1, <2>2 DEF KernelTypes
  <2>4. LifeOK'
    BY <2>1, <2>2 DEF LifeOK, KernelTypes
  <2>5. Owned /\ at'["signal"] = "idle" => Owned'
    <3> SUFFICES ASSUME Owned, at'["signal"] = "idle" PROVE Owned'
      OBVIOUS
    <3>1. t = "menu"
      BY <1>0, <2>1
    <3>2. \A k \in Kernels : ~Unreaped(k)
      BY <2>2 DEF Owned, Kernels
    <3>3. \A k \in Kernels : ~Unreaped(k)'
      BY <2>2, <3>2 DEF Unreaped
    <3> QED
      BY <1>0, <2>1, <2>2, <3>1, <3>2, <3>3 DEF Owned, KernelTypes
  <2> QED
    BY <1>0, <2>1, <2>2, <2>3, <2>4, <2>5
<1>2. CASE StopInterrupt(t)
  <2>1. /\ at' = [at EXCEPT ![t] = "stopInt"] /\ target' = [target EXCEPT ![t] = proc]
        /\ UNCHANGED <<mu, proc, dir, exitCh, tail, kernel, killed, reaped, started, dirs,
                       foreign, leaving, exited>>
        /\ at[t] = "stop" /\ proc # 0
    BY <1>2 DEF StopInterrupt, km, procs
  <2>2. KernelTypes'
    BY <2>1 DEF KernelTypes
  <2>3. LifeOK'
    BY <2>1 DEF LifeOK, KernelTypes
  <2>4. Owned => Owned'
    BY <2>1 DEF Owned, Unreaped, KernelTypes
  <2> QED
    BY <1>0, <2>1, <2>2, <2>3, <2>4
<1>3. CASE StopKill(t)
  <2>1. /\ at' = [at EXCEPT ![t] = "stopKill"] /\ killed' = killed \cup {target[t]}
        /\ UNCHANGED <<mu, proc, dir, exitCh, tail, kernel, reaped, started, dirs, target,
                       foreign, leaving, exited>>
        /\ at[t] = "stopInt"
    BY <1>3 DEF StopKill, SendKill, km
  <2>2. KernelTypes'
    BY <2>1 DEF KernelTypes
  <2>3. LifeOK'
    BY <2>1 DEF LifeOK, KernelTypes
  <2>4. Owned => Owned'
    BY <2>1 DEF Owned, Unreaped, KernelTypes
  <2> QED
    BY <1>0, <2>1, <2>2, <2>3, <2>4
<1>4. CASE StopCleanup(t)
  <2>1. PICK l \in {"ended", "menu"} :
           /\ at' = [at EXCEPT ![t] = l] /\ (t = "signal" => l = "ended")
    BY <1>4 DEF StopCleanup, StopReturns, Last
  <2>2. /\ UNCHANGED <<mu, exitCh, tail, kernel, killed, reaped, started, foreign, leaving>>
        /\ proc' = 0 /\ dir' = 0 /\ dirs' = dirs \ {dir}
        /\ exited' \in BOOLEAN /\ target' = [target EXCEPT ![t] = 0]
        /\ at[t] \in {"stopInt", "stopKill"} /\ ~mu
    BY <1>4 DEF StopCleanup, CleanupLocked, StopReturns, Last, procs,
                KernelTypes
  <2>3. KernelTypes'
    BY <2>1, <2>2 DEF KernelTypes
  <2>4. LifeOK'
    BY <2>1, <2>2 DEF LifeOK, KernelTypes
  <2>5. Owned /\ at'["signal"] = "idle" => Owned'
    <3> SUFFICES ASSUME Owned, at'["signal"] = "idle" PROVE Owned'
      OBVIOUS
    <3>1. t = "menu"
      BY <1>0, <2>1
    <3>2. target["menu"] \in reaped
      BY <1>4, <2>2, <3>1 DEF StopCleanup, StopWaited, Waited, Owned
    <3>3. \A k \in Kernels : ~Unreaped(k)
      BY <2>2, <3>1, <3>2 DEF Owned, Unreaped
    <3>4. dirs = {}
      BY <3>3 DEF Owned, KernelTypes
    <3>5. \A k \in Kernels : ~Unreaped(k)'
      BY <2>2, <3>3 DEF Unreaped
    <3> QED
      BY <1>0, <2>1, <2>2, <3>1, <3>4, <3>5 DEF Owned
  <2> QED
    BY <1>0, <2>1, <2>2, <2>3, <2>4, <2>5
<1> QED
  BY <1>1, <1>2, <1>3, <1>4 DEF StopStep

(* The waiter of a kernel, its output, and its own life.                     *)
LEMMA KernelKeeps ==
  ASSUME ManagerInv, NEW k \in Kernels,
         Waiter(k) \/ ScanLine(k) \/ KernelListens(k) \/ KernelExits(k)
  PROVE  ManagerInv'
<1> USE DEF ManagerInv, LockFree, None
<1>1. CASE Waiter(k)
  <2>1. /\ UNCHANGED <<mu, exitCh, tail, kernel, killed, started, at, target, foreign, leaving,
                       exited>>
        /\ proc' = 0 /\ dir' = 0 /\ dirs' = dirs \ {dir} /\ reaped' = reaped \cup {k}
        /\ kernel[k] = "dead" /\ k \notin reaped
    BY <1>1 DEF Waiter, CleanupLocked
  <2>2. KernelTypes'
    BY <2>1 DEF KernelTypes
  <2>3. LifeOK'
    BY <2>1 DEF LifeOK
  <2>4. Owned => Owned'
    <3> SUFFICES ASSUME Owned PROVE Owned'
      OBVIOUS
    <3>1. Unreaped(k) /\ proc = k /\ dir = k
      BY <2>1 DEF Unreaped, Owned
    <3>2. \A j \in Kernels : Unreaped(j) => j = k
      BY <3>1 DEF Owned
    <3>3. \A j \in Kernels : ~Unreaped(j)'
      BY <2>1, <3>2 DEF Unreaped
    <3>4. dirs' = {}
      BY <2>1, <3>1, <3>2 DEF Owned, KernelTypes
    <3> QED
      BY <2>1, <3>3, <3>4 DEF Owned
  <2> QED
    BY <2>1, <2>2, <2>3, <2>4
<1>2. CASE ScanLine(k)
  <2>1. /\ UNCHANGED <<mu, proc, dir, exitCh, kernel, killed, reaped, started, dirs, at, target,
                       foreign, leaving, exited>>
        /\ tail' = IF tail < MaxTail THEN tail + 1 ELSE tail
    BY <1>2 DEF ScanLine, AppendLine, procs
  <2>2. tail' \in 0 .. MaxTail
    BY <2>1, ManagerAssumption DEF KernelTypes
  <2>3. KernelTypes'
    BY <2>1, <2>2 DEF KernelTypes
  <2>4. LifeOK' /\ (Owned => Owned')
    BY <2>1 DEF LifeOK, Owned, Unreaped
  <2> QED
    BY <2>1, <2>3, <2>4
<1>3. CASE KernelListens(k) \/ KernelExits(k)
  <2>1. PICK s \in {"listening", "dead"} : kernel' = [kernel EXCEPT ![k] = s]
    BY <1>3 DEF KernelListens, KernelExits
  <2>2. /\ UNCHANGED <<mu, proc, dir, exitCh, tail, killed, reaped, started, dirs, at, target,
                       foreign, leaving, exited>>
        /\ kernel[k] \in {"running", "listening"}
    BY <1>3 DEF KernelListens, KernelExits, Alive, km
  <2>3. KernelTypes'
    BY <2>1, <2>2 DEF KernelTypes
  <2>4. LifeOK'
    BY <2>1, <2>2 DEF LifeOK, KernelTypes
  <2>5. \A j \in Kernels : Unreaped(j)' <=> Unreaped(j)
    BY <2>1, <2>2 DEF Unreaped, KernelTypes
  <2>6. Owned => Owned'
    BY <2>2, <2>5 DEF Owned, KernelTypes
  <2> QED
    BY <2>2, <2>3, <2>4, <2>6
<1> QED
  BY <1>1, <1>2, <1>3

LEMMA ManagerKeeps == ManagerInv /\ [ManagerNext]_managerVars => ManagerInv'
<1> SUFFICES ASSUME ManagerInv, [ManagerNext]_managerVars PROVE ManagerInv'
  OBVIOUS
<1>1. CASE Foreign
  <2>1. /\ foreign' \in BOOLEAN
        /\ UNCHANGED <<mu, proc, dir, exitCh, tail, kernel, killed, reaped, started, dirs, at,
                       target, leaving, exited>>
    BY <1>1 DEF Foreign, km, procs, ManagerInv, KernelTypes
  <2> QED
    BY <2>1 DEF ManagerInv, KernelTypes, LifeOK, Owned, Unreaped
<1>2. CASE UNCHANGED managerVars
  BY <1>2 DEF managerVars, km, procs, ManagerInv, KernelTypes, LifeOK, Owned, Unreaped
<1>3. CASE \E t \in Threads : StopStep(t)
  BY <1>3, StopKeeps DEF Threads
<1>4. CASE \E k \in Kernels : \/ Waiter(k) \/ ScanLine(k)
                                  \/ KernelListens(k) \/ KernelExits(k)
  BY <1>4, KernelKeeps DEF Kernels
<1>5. CASE ActionStart \/ StartStep \/ ActionStop \/ Quit \/ SignalArrives
  BY <1>5, MenuKeeps, StartKeeps, SignalKeeps
<1> QED
  BY <1>1, <1>2, <1>3, <1>4, <1>5 DEF ManagerNext

LEMMA ManagerHolds == ManagerSpec => []ManagerInv
<1>1. ManagerInit => ManagerInv
  BY ManagerStarts
<1>2. ManagerInv /\ [ManagerNext]_managerVars => ManagerInv'
  BY ManagerKeeps
<1> QED
  BY <1>1, <1>2, PTL DEF ManagerSpec

(* Every reachable state of the manager, its threads and its kernels is well  *)
(* typed.                                                                    *)
THEOREM ManagerTyped == ManagerSpec => []ManagerTypeOK
<1>1. ManagerInv => ManagerTypeOK
  BY DEF ManagerInv, KernelTypes, ManagerTypeOK, Kernels, None, Threads
<1> QED
  BY <1>1, ManagerHolds, PTL

(* Until a signal arrives the manager knows every kernel that runs, and that  *)
(* kernel keeps its directory (start, stop, the waiter, cleanupLocked).       *)
THEOREM KernelIsOwnedHolds == ManagerSpec => []KernelIsOwned
<1>1. ManagerInv => KernelIsOwned
  <2> SUFFICES ASSUME ManagerInv, at["signal"] = "idle", NEW k \in Kernels, Alive(k)
               PROVE  proc = k /\ k \in dirs
    BY DEF KernelIsOwned, Kernels
  <2>1. Unreaped(k)
    BY DEF ManagerInv, LifeOK, Unreaped, Alive
  <2> QED
    BY <2>1 DEF ManagerInv, Owned
<1> QED
  BY <1>1, ManagerHolds, PTL

(* A TUI that is left through its menu leaves neither a kernel nor a          *)
(* temporary directory behind, unless a signal arrived (main's deferred stop). *)
THEOREM QuitLeavesNothingHolds == ManagerSpec => []QuitLeavesNothing
<1>1. ManagerInv => QuitLeavesNothing
  <2> SUFFICES ASSUME ManagerInv, exited, at["signal"] = "idle"
               PROVE  dirs = {} /\ \A k \in Kernels : ~Alive(k)
    BY DEF QuitLeavesNothing, Kernels
  <2>1. \A k \in Kernels : ~Unreaped(k)
    BY DEF ManagerInv, Owned
  <2>2. dirs = {}
    BY <2>1 DEF ManagerInv, Owned, KernelTypes
  <2>3. ASSUME NEW k \in Kernels PROVE ~Alive(k)
    BY <2>1 DEF ManagerInv, LifeOK, Unreaped, Alive
  <2> QED
    BY <2>2, <2>3
<1> QED
  BY <1>1, ManagerHolds, PTL

==============================================================================
