-------------------------- MODULE RealityRelayProofs --------------------------
(***************************************************************************)
(* Proofs about RealityRelay: its tables stay typed, counted and bounded,   *)
(* no flow loses its socket or runs past a candidate that works, and only   *)
(* Close can meet a flow without a socket while a candidate works.          *)
(***************************************************************************)
EXTENDS RealityRelay, AddressCounts

(* The table and its counters are consistent, and an entry that has a socket *)
(* has it for one of its candidates.                                          *)
ConnHasCand == \A c \in Clients : entry[c].conn # None => entry[c].idx \in Cands

TableInv == TypeOK /\ ConnHasCand /\ PerIPCounts /\ WithinLimits

(* Count as the lemmas of AddressCounts see it. *)
LEMMA CountIs == \A ip : Count(ip) = Cardinality(AtAddress(table, IPOf, ip))
BY DEF Count, AtAddress

LEMMA CountIsNext ==
  \A ip : Count(ip)' = Cardinality(AtAddress(table', IPOf, ip))
BY DEF Count, AtAddress

LEMMA TableFinite == TypeOK => IsFiniteSet(table) /\ Cardinality(table) \in Nat
BY ClientsFinite, FS_Subset, FS_CardinalityType DEF TypeOK

LEMMA TableInit == Init => TableInv
<1> SUFFICES ASSUME Init PROVE TableInv
  OBVIOUS
<1> USE CandAssumption, LimitAssumption, ClientsFinite
<1>1. Blank \in Entries
  BY DEF Blank, Entries
<1>2. Free \in SocketRecords
  BY DEF Free, SocketRecords
<1>3. TypeOK
  BY <1>1, <1>2 DEF Init, TypeOK
<1>4. ConnHasCand
  BY DEF Init, ConnHasCand, Blank
<1>5. PerIPCounts
  <2>1. \A ip : Count(ip) = 0
    BY CountIs, CountEmpty DEF Init
  <2> QED
    BY <2>1 DEF Init, PerIPCounts
<1>6. WithinLimits
  <2>1. \A ip : Count(ip) = 0
    BY CountIs, CountEmpty DEF Init
  <2>2. Cardinality(table) = 0
    BY FS_EmptySet DEF Init
  <2> QED
    BY <2>1, <2>2 DEF WithinLimits
<1> QED
  BY <1>3, <1>4, <1>5, <1>6 DEF TableInv

(* Steps that leave the table alone keep everything about its counters. *)
LEMMA TableUnchanged ==
  ASSUME TableInv, UNCHANGED <<table, ipCount>>
  PROVE  PerIPCounts' /\ WithinLimits'
BY DEF TableInv, PerIPCounts, WithinLimits, Count

(* Removing entries keeps the limits. *)
LEMMA FewerEntries ==
  ASSUME TableInv, table' \subseteq table
  PROVE  WithinLimits'
<1>1. IsFiniteSet(table) /\ Cardinality(table) \in Nat
  BY TableFinite DEF TableInv
<1>2. IsFiniteSet(table') /\ Cardinality(table') \in Nat /\ Cardinality(table') <= Cardinality(table)
  BY <1>1, FS_Subset, FS_CardinalityType
<1>3. ASSUME NEW ip \in IPs
      PROVE  Count(ip)' <= Count(ip) /\ Count(ip)' \in Nat /\ Count(ip) \in Nat
  <2>1. AtAddress(table', IPOf, ip) \in SUBSET AtAddress(table, IPOf, ip)
    BY DEF AtAddress
  <2>2. IsFiniteSet(AtAddress(table, IPOf, ip))
    BY <1>1, CountType
  <2> QED
    BY <2>1, <2>2, CountIs, CountIsNext, FS_Subset, FS_CardinalityType
<1> QED
  BY <1>1, <1>2, <1>3, LimitAssumption DEF WithinLimits, TableInv

-----------------------------------------------------------------------------
(* The records a step writes stay in their sets. *)
LEMMA RecordTypes ==
  /\ Blank \in Entries /\ Free \in SocketRecords
  /\ \A e \in Entries, n \in 1..(NCand + 1) : [e EXCEPT !.idx = n] \in Entries
  /\ \A e \in Entries, n \in 0..(Timeout + 1) : [e EXCEPT !.age = n] \in Entries
  /\ \A e \in Entries, s \in Sockets \cup {None} : [e EXCEPT !.conn = s] \in Entries
  /\ \A k \in SocketRecords, e \in {"clean", "sent", "refused"} : [k EXCEPT !.err = e] \in SocketRecords
  /\ \A k \in SocketRecords : [k EXCEPT !.reader = FALSE] \in SocketRecords
  /\ \A k \in SocketRecords : Collected([k EXCEPT !.open = FALSE]) \in SocketRecords
<1> USE CandAssumption, LimitAssumption
<1>1. Blank \in Entries
  BY DEF Blank, Entries
<1>2. Free \in SocketRecords
  BY DEF Free, SocketRecords
<1>3. \A e \in Entries, n \in 1..(NCand + 1) : [e EXCEPT !.idx = n] \in Entries
  BY DEF Entries
<1>4. \A e \in Entries, n \in 0..(Timeout + 1) : [e EXCEPT !.age = n] \in Entries
  BY DEF Entries
<1>5. \A e \in Entries, s \in Sockets \cup {None} : [e EXCEPT !.conn = s] \in Entries
  BY DEF Entries
<1>6. \A k \in SocketRecords, e \in {"clean", "sent", "refused"} :
        [k EXCEPT !.err = e] \in SocketRecords
  BY DEF SocketRecords
<1>7. \A k \in SocketRecords : [k EXCEPT !.reader = FALSE] \in SocketRecords
  BY DEF SocketRecords
<1>8. \A k \in SocketRecords : [k EXCEPT !.open = FALSE] \in SocketRecords
  BY DEF SocketRecords
<1>9. \A k \in SocketRecords : Collected([k EXCEPT !.open = FALSE]) \in SocketRecords
  BY <1>2, <1>8 DEF Collected
<1> QED
  BY <1>1, <1>2, <1>3, <1>4, <1>5, <1>6, <1>7, <1>9

(* Taking entries out, as the reaper and Close do, keeps the types. *)
LEMMA RemoveTyped ==
  ASSUME TableInv, NEW gone \in SUBSET table, Remove(gone)
  PROVE  /\ table' \subseteq Clients
         /\ entry' \in [Clients -> Entries]
         /\ socket' \in [Sockets -> SocketRecords]
         /\ panicked' \in BOOLEAN
         /\ ConnHasCand'
<1> USE RecordTypes
<1>1. entry' \in [Clients -> Entries] /\ ConnHasCand'
  BY DEF Remove, TableInv, TypeOK, ConnHasCand, Blank
<1>2. socket' \in [Sockets -> SocketRecords]
  BY DEF Remove, TableInv, TypeOK
<1> QED
  BY <1>1, <1>2 DEF Remove, TableInv, TypeOK

LEMMA TableStep == TableInv /\ [Next]_vars => TableInv'
<1> SUFFICES ASSUME TableInv, [Next]_vars PROVE TableInv'
  OBVIOUS
<1> USE CandAssumption, LimitAssumption, RecordTypes
<1>0. TypeOK /\ ConnHasCand /\ PerIPCounts /\ WithinLimits
  BY DEF TableInv
<1>1. ASSUME NEW c \in Clients, RelayKnown(c) PROVE TableInv'
  <2>1. TypeOK' /\ ConnHasCand'
    BY <1>0, <1>1 DEF RelayKnown, TypeOK, ConnHasCand, Entries
  <2> QED
    BY <1>1, <2>1, TableUnchanged DEF RelayKnown, TableInv
<1>2. ASSUME NEW c \in Clients, RelayNew(c) PROVE TableInv'
  <2>1. TypeOK' /\ ConnHasCand'
    <3>0. IPOf[c] \in IPs
      BY IPOfClients
    <3>1. ipCount' \in [IPs -> Nat]
      BY <1>0, <1>2, <3>0 DEF RelayNew, TypeOK
    <3>2. entry' \in [Clients -> Entries] /\ ConnHasCand'
      BY <1>0, <1>2 DEF RelayNew, TypeOK, ConnHasCand, Blank
    <3> QED
      BY <1>0, <1>2, <3>1, <3>2 DEF RelayNew, TypeOK
  <2>2. IsFiniteSet(table) /\ Cardinality(table) \in Nat
    BY <1>0, TableFinite
  <2>3. table' = table \cup {c} /\ c \notin table /\ ~AtLimit(c)
    BY <1>2 DEF RelayNew
  <2>4. ASSUME NEW ip \in IPs
        PROVE  Count(ip)' = IF IPOf[c] = ip THEN Count(ip) + 1 ELSE Count(ip)
    BY <2>2, <2>3, CountIs, CountIsNext, CountAdd
  <2>5. PerIPCounts'
    BY <1>0, <1>2, <2>4, IPOfClients DEF RelayNew, PerIPCounts, TypeOK
  <2>6. Cardinality(table') = Cardinality(table) + 1
    BY <2>2, <2>3, FS_AddElement
  <2>7. Cardinality(table') <= MaxEntries
    BY <2>2, <2>3, <2>6 DEF AtLimit
  <2>8. ASSUME NEW ip \in IPs PROVE Count(ip)' <= MaxPerIP
    <3>1. Count(ip) <= MaxPerIP /\ Count(ip) = ipCount[ip] /\ ipCount[ip] \in Nat
      BY <1>0 DEF WithinLimits, PerIPCounts, TypeOK
    <3> QED
      BY <2>3, <2>4, <3>1 DEF AtLimit
  <2>9. WithinLimits'
    BY <2>7, <2>8 DEF WithinLimits
  <2> QED
    BY <2>1, <2>5, <2>9, Zenon DEF TableInv
<1>3. ASSUME NEW c \in Clients, RelayRefused(c) PROVE TableInv'
  <2>1. TypeOK' /\ ConnHasCand'
    BY <1>0, <1>3 DEF RelayRefused, TypeOK, ConnHasCand
  <2> QED
    BY <1>3, <2>1, TableUnchanged DEF RelayRefused, TableInv
<1>4. ASSUME WriteExhausted PROVE TableInv'
  <2>1. TypeOK' /\ ConnHasCand'
    BY <1>0, <1>4 DEF WriteExhausted, Return, TypeOK, ConnHasCand, Blank
  <2> QED
    BY <1>4, <2>1, TableUnchanged DEF WriteExhausted, TableInv
<1>5. ASSUME DialFails PROVE TableInv'
  <2>1. cur \in Clients /\ entry[cur].idx \in Cands
    BY <1>0, <1>5, FaultAssumption DEF DialFails, TypeOK, Cands
  <2>2. TypeOK' /\ ConnHasCand'
    BY <1>0, <1>5, <2>1 DEF DialFails, TypeOK, ConnHasCand, Cands, Entries
  <2> QED
    BY <1>5, <2>2, TableUnchanged DEF DialFails, TableInv
<1>6. ASSUME NEW s \in Sockets, Dial(s) PROVE TableInv'
  <2>1. cur \in Clients /\ entry[cur].idx \in Cands
    BY <1>0, <1>6 DEF Dial, TypeOK
  <2>2. entry' \in [Clients -> Entries] /\ ConnHasCand'
    BY <1>0, <1>6, <2>1 DEF Dial, TypeOK, ConnHasCand
  <2>3. [client |-> cur, cand |-> entry[cur].idx, open |-> TRUE, err |-> "clean", reader |-> TRUE]
          \in SocketRecords
    BY <1>0, <2>1 DEF Cands, SocketRecords
  <2>4. socket' \in [Sockets -> SocketRecords]
    BY <1>0, <1>6, <2>3 DEF Dial, TypeOK
  <2>5. TypeOK'
    BY <1>0, <1>6, <2>2, <2>4 DEF Dial, TypeOK
  <2> QED
    BY <1>6, <2>2, <2>5, TableUnchanged DEF Dial, TableInv
<1>7. ASSUME WriteSucceeds PROVE TableInv'
  <2>1. cur \in Clients /\ entry[cur].conn \in Sockets
    BY <1>0, <1>7 DEF WriteSucceeds, TypeOK, Entries
  <2>2. socket' \in [Sockets -> SocketRecords]
    <3>1. socket[entry[cur].conn] \in SocketRecords
      BY <1>0, <2>1 DEF TypeOK
    <3>2. [socket[entry[cur].conn] EXCEPT !.err = "sent"] \in SocketRecords
      BY <3>1, RecordTypes
    <3>3. \/ socket' = socket
          \/ socket' = [socket EXCEPT ![entry[cur].conn] =
                                       [socket[entry[cur].conn] EXCEPT !.err = "sent"]]
      BY <1>7 DEF WriteSucceeds
    <3> QED
      BY <1>0, <3>2, <3>3 DEF TypeOK
  <2>3. entry' \in [Clients -> Entries] /\ ConnHasCand'
    BY <1>0, <1>7, <2>1 DEF WriteSucceeds, TypeOK, ConnHasCand, Blank
  <2>4. TypeOK'
    BY <1>0, <1>7, <2>2, <2>3 DEF WriteSucceeds, Return, TypeOK
  <2> QED
    BY <1>7, <2>3, <2>4, TableUnchanged DEF WriteSucceeds, TableInv
<1>8. ASSUME WriteFails PROVE TableInv'
  <2>1. cur \in Clients /\ entry[cur].conn \in Sockets /\ entry[cur].idx \in Cands
    BY <1>0, <1>8 DEF WriteFails, TypeOK, Entries, ConnHasCand
  <2>2. entry' \in [Clients -> Entries] /\ ConnHasCand'
    BY <1>0, <1>8, <2>1 DEF WriteFails, TypeOK, ConnHasCand, Entries, Cands
  <2>3. socket' \in [Sockets -> SocketRecords]
    BY <1>0, <1>8, <2>1 DEF WriteFails, TypeOK
  <2>4. TypeOK'
    BY <1>0, <1>8, <2>1, <2>2, <2>3 DEF WriteFails, TypeOK
  <2> QED
    BY <1>8, <2>2, <2>4, TableUnchanged DEF WriteFails, TableInv
<1>9. ASSUME NEW s \in Sockets, IcmpArrives(s) \/ ReaderStep(s) PROVE TableInv'
  <2>1. socket' \in [Sockets -> SocketRecords]
    <3>1. socket[s] \in SocketRecords
      BY <1>0 DEF TypeOK
    <3>2. \E k \in SocketRecords : socket' = [socket EXCEPT ![s] = k]
      <4>1. CASE IcmpArrives(s)
        BY <3>1, <4>1 DEF IcmpArrives
      <4>2. CASE ReaderStep(s)
        BY <3>1, <4>2 DEF ReaderStep, ReadRefused, ReadClosed, ReplyFails
      <4> QED
        BY <1>9, <4>1, <4>2
    <3> QED
      BY <1>0, <3>2 DEF TypeOK
  <2>2. UNCHANGED <<table, entry, ipCount, cur, tried, fate, stage, panicked>>
    BY <1>9 DEF IcmpArrives, ReaderStep, ReadRefused, ReadClosed, ReplyFails
  <2>3. TypeOK' /\ ConnHasCand'
    BY <1>0, <2>1, <2>2 DEF TypeOK, ConnHasCand
  <2> QED
    BY <2>2, <2>3, TableUnchanged DEF TableInv
<1>10. ASSUME Reap PROVE TableInv'
  <2> DEFINE idle == {c \in table : entry[c].age > Timeout}
  <2>1. idle \in SUBSET table /\ Remove(idle)
    BY <1>10 DEF Reap
  <2>2. IsFiniteSet(table) /\ table' = table \ idle
    BY <1>0, <2>1, TableFinite DEF Remove
  <2> HIDE DEF idle
  <2>3. ASSUME NEW ip \in IPs
        PROVE  /\ Count(ip)' = Count(ip) - Cardinality(AtAddress(idle, IPOf, ip))
               /\ Count(ip)' \in Nat
    <3>1. IsFiniteSet(table')
      BY <2>2, FS_Difference
    <3>2. Count(ip)' \in Nat
      <4>1. Cardinality(AtAddress(table', IPOf, ip)) \in Nat
        BY <3>1, CountType
      <4> QED
        BY <4>1, CountIsNext
    <3>3. Cardinality(AtAddress(table \ idle, IPOf, ip)) =
            Cardinality(AtAddress(table, IPOf, ip)) - Cardinality(AtAddress(idle, IPOf, ip))
      BY <2>1, <2>2, CountRemove
    <3> QED
      BY <2>2, <3>2, <3>3, CountIs, CountIsNext
  <2>4. ipCount' = [ip \in IPs |-> ipCount[ip] - Cardinality(AtAddress(idle, IPOf, ip))]
    BY <1>10 DEF Reap, AtAddress, idle
  <2>5. PerIPCounts' /\ ipCount' \in [IPs -> Nat]
    BY <1>0, <2>3, <2>4 DEF PerIPCounts
  <2>6. TypeOK' /\ ConnHasCand'
    BY <1>0, <1>10, <2>1, <2>5, RemoveTyped DEF Reap, TypeOK, TableInv
  <2>7. WithinLimits'
    BY <2>2, FewerEntries
  <2> QED
    BY <2>5, <2>6, <2>7 DEF TableInv
<1>11. ASSUME ReaperExits \/ CloseBegins PROVE TableInv'
  <2>1. TypeOK' /\ ConnHasCand'
    BY <1>0, <1>11 DEF ReaperExits, CloseBegins, TypeOK, ConnHasCand
  <2> QED
    BY <1>11, <2>1, TableUnchanged DEF ReaperExits, CloseBegins, TableInv
<1>12. ASSUME CloseEntries PROVE TableInv'
  <2>1. Remove(table) /\ table' = {}
    BY <1>12 DEF CloseEntries, Remove
  <2>2. TypeOK' /\ ConnHasCand'
    BY <1>0, <1>12, <2>1, RemoveTyped DEF CloseEntries, TypeOK, TableInv
  <2>3. PerIPCounts'
    BY <1>12, <2>1, CountIsNext, CountEmpty DEF CloseEntries, PerIPCounts
  <2>4. WithinLimits'
    BY <2>1, FewerEntries
  <2> QED
    BY <2>2, <2>3, <2>4 DEF TableInv
<1>13. ASSUME Tick PROVE TableInv'
  <2>1. TypeOK' /\ ConnHasCand'
    BY <1>0, <1>13 DEF Tick, Age, TypeOK, ConnHasCand, Entries
  <2> QED
    BY <1>13, <2>1, TableUnchanged DEF Tick, Age, TableInv
<1>14. ASSUME UNCHANGED vars PROVE TableInv'
  <2>1. TypeOK' /\ ConnHasCand'
    BY <1>0, <1>14 DEF vars, TypeOK, ConnHasCand
  <2> QED
    BY <1>14, <2>1, TableUnchanged DEF vars, TableInv
<1> QED
  BY <1>1, <1>2, <1>3, <1>4, <1>5, <1>6, <1>7, <1>8, <1>9, <1>10, <1>11, <1>12, <1>13, <1>14
     DEF Next, RelayClientToDest, ReadLoopStep

(* The relay's variables keep their types, for any clients, candidates, *)
(* limits and sockets (reality_relay.go: relayEntry, realityRelay).      *)
THEOREM TypeCorrect == Spec => []TypeOK
BY TableInit, TableStep, PTL DEF Spec, TableInv

(* Whatever the read loop, the reaper and Close do, r.perIP counts exactly *)
(* the entries of each address and both limits hold.                        *)
THEOREM CountsCorrect == Spec => [](PerIPCounts /\ WithinLimits)
BY TableInit, TableStep, PTL DEF Spec, TableInv

-----------------------------------------------------------------------------
(* The flows: sockets, candidates and the reaper.                          *)

Flow == EntryInUse /\ OwnSocket /\ SocketUsable /\ NothingSkipped

LEMMA FlowInit == Init => FlowInv
BY CandAssumption DEF Init, FlowInv, EntryInUse, OwnSocket, SocketUsable, NothingSkipped, NoOrphan,
                      Free, Blank, Healthy, Cands

(* What taking entries out does to the sockets.                              *)
LEMMA RemoveSockets ==
  ASSUME TypeOK, NEW gone \in SUBSET Clients, Remove(gone)
  PROVE  \A s \in Sockets :
           /\ s \notin {entry[c].conn : c \in gone} => socket'[s] = socket[s]
           /\ s \in {entry[c].conn : c \in gone} => ~socket'[s].open
           /\ socket'[s].err # "clean" =>
                /\ socket[s].err # "clean"
                /\ socket'[s].cand = socket[s].cand
<1> DEFINE conns == {entry[c].conn : c \in gone}
<1>1. socket' = [s \in Sockets |-> IF s \in conns
                                   THEN Collected([socket[s] EXCEPT !.open = FALSE])
                                   ELSE socket[s]]
  BY DEF Remove
<1>2. ASSUME NEW s \in Sockets, s \in conns
      PROVE  /\ ~socket'[s].open
             /\ socket'[s].err # "clean" => /\ socket[s].err # "clean"
                                           /\ socket'[s].cand = socket[s].cand
  <2>1. socket[s] \in SocketRecords
    BY DEF TypeOK
  <2> QED
    BY <1>1, <1>2, <2>1 DEF Collected, Free, SocketRecords
<1> QED
  BY <1>1, <1>2

(* Taking idle entries out: none of them is in use, each has its own socket, *)
(* and the sockets of the others stay as they are.                            *)
LEMMA ReapKeepsFlow ==
  ASSUME TypeOK, Flow, Reap
  PROVE  Flow' /\ (NoOrphan => NoOrphan')
<1> DEFINE idle == {c \in table : entry[c].age > Timeout}
<1> DEFINE conns == {entry[c].conn : c \in idle}
<1>0. idle \in SUBSET Clients
  BY DEF TypeOK
<1>1. /\ table' = table \ idle
      /\ entry' = [c \in Clients |-> IF c \in idle /\ c # cur THEN Blank ELSE entry[c]]
      /\ cur' = cur /\ Remove(idle)
  BY DEF Reap, Remove
<1>2. cur \notin idle
  <2> SUFFICES ASSUME cur \in idle PROVE FALSE
    OBVIOUS
  <2>1. entry[cur].age <= Timeout /\ entry[cur].age \in Nat /\ entry[cur].age > Timeout
    BY <1>0, LimitAssumption DEF Flow, EntryInUse, TypeOK, Entries
  <2> QED
    BY <2>1, LimitAssumption
<1>3. \A c \in Clients : entry'[c] = IF c \in idle THEN Blank ELSE entry[c]
  BY <1>1, <1>2
<1>4. \A c \in Clients \ idle : entry[c].conn # None => entry[c].conn \notin conns
  BY <1>0 DEF Flow, OwnSocket
<1>5. \A s \in Sockets :
        /\ s \notin conns => socket'[s] = socket[s]
        /\ s \in conns => ~socket'[s].open
        /\ socket'[s].err # "clean" =>
             /\ socket[s].err # "clean"
             /\ socket'[s].cand = socket[s].cand
  BY <1>0, <1>1, RemoveSockets
<1>6. \A c \in table' : /\ c \in Clients \ idle /\ c \in table /\ entry'[c] = entry[c]
                        /\ entry[c].conn # None =>
                             /\ entry[c].conn \in Sockets
                             /\ socket'[entry[c].conn] = socket[entry[c].conn]
  BY <1>1, <1>3, <1>4, <1>5 DEF TypeOK, Entries
<1> HIDE DEF idle, conns
<1>7. EntryInUse'
  <2>1. cur' \in table' => entry'[cur'].age <= Timeout
    BY <1>1, <1>6 DEF Flow, EntryInUse
  <2>2. \A c \in Clients \ table' : c # cur' => entry'[c] = Blank
    BY <1>1, <1>3 DEF Flow, EntryInUse
  <2> QED
    BY <2>1, <2>2 DEF EntryInUse
<1>8. OwnSocket'
  <2>1. \A c, d \in Clients : entry'[c].conn # None /\ entry'[c].conn = entry'[d].conn => c = d
    BY <1>3 DEF Flow, OwnSocket, Blank
  <2>2. ASSUME NEW c \in table'
        PROVE  LET s == entry'[c].conn IN s # None /\ socket'[s].open => socket'[s].cand = entry'[c].idx
    BY <1>6 DEF Flow, OwnSocket
  <2> QED
    BY <2>1, <2>2 DEF OwnSocket
<1>9. SocketUsable'
  <2>1. \A s \in Sockets : socket'[s].err # "clean" => socket'[s].cand \in Refusing
    BY <1>5 DEF Flow, SocketUsable
  <2>2. ASSUME NEW c \in table'
        PROVE  /\ entry'[c].conn # None =>
                   \/ entry'[c].idx \in Refusing
                   \/ socket'[entry'[c].conn].open /\ socket'[entry'[c].conn].err # "refused"
               /\ entry'[c].conn = None => c = cur' \/ Healthy = {}
    BY <1>1, <1>6 DEF Flow, SocketUsable
  <2> QED
    BY <2>1, <2>2 DEF SocketUsable
<1>10. NothingSkipped'
  BY <1>6 DEF Flow, NothingSkipped
<1>11. ASSUME NoOrphan PROVE NoOrphan'
  <2>1. cur' # None => cur' \in table'
    BY <1>1, <1>2, <1>11 DEF NoOrphan
  <2>2. ASSUME NEW s \in Sockets, socket'[s].open
        PROVE  /\ socket'[s].client \in table'
               /\ entry'[socket'[s].client].conn = s
               /\ entry'[socket'[s].client].idx = socket'[s].cand
    <3>1. s \notin conns /\ socket'[s] = socket[s]
      BY <1>5, <2>2
    <3>2. socket[s].client \in table /\ entry[socket[s].client].conn = s
          /\ entry[socket[s].client].idx = socket[s].cand
      BY <1>11, <2>2, <3>1 DEF NoOrphan
    <3>3. socket[s].client \notin idle
      BY <3>1, <3>2 DEF conns
    <3> QED
      BY <1>1, <1>6, <3>1, <3>2, <3>3
  <2> QED
    BY <2>1, <2>2 DEF NoOrphan
<1> QED
  BY <1>7, <1>8, <1>9, <1>10, <1>11 DEF Flow

(* Close leaves an empty map, and of the objects only the one in use.        *)
LEMMA CloseKeepsFlow ==
  ASSUME TypeOK, Flow, CloseEntries
  PROVE  Flow'
<1>1. /\ table' = {} /\ cur' = cur /\ Remove(table)
      /\ entry' = [c \in Clients |-> IF c \in table /\ c # cur THEN Blank ELSE entry[c]]
  BY DEF CloseEntries, Remove
<1>2. \A c \in Clients : entry'[c] = IF c \in table /\ c # cur THEN Blank ELSE entry[c]
  BY <1>1
<1>3. \A s \in Sockets : socket'[s].err # "clean" =>
                            socket[s].err # "clean" /\ socket'[s].cand = socket[s].cand
  BY <1>1, RemoveSockets DEF TypeOK
<1>4. EntryInUse'
  BY <1>1, <1>2 DEF Flow, EntryInUse
<1>5. OwnSocket'
  BY <1>1, <1>2 DEF Flow, OwnSocket, Blank
<1>6. SocketUsable'
  BY <1>1, <1>3 DEF Flow, SocketUsable
<1>7. NothingSkipped'
  BY <1>1 DEF NothingSkipped
<1> QED
  BY <1>4, <1>5, <1>6, <1>7 DEF Flow

(* Steps that leave cur, the table and the entries alone and only take a     *)
(* socket further: an ICMP error, or the end of a goroutine.                  *)
LEMMA SocketStepKeepsFlow ==
  ASSUME TypeOK, Flow, NEW s \in Sockets,
         IcmpArrives(s) \/ ReadRefused(s) \/ ReadClosed(s) \/ ReplyFails(s)
  PROVE  Flow' /\ (NoOrphan => NoOrphan')
<1>1. UNCHANGED <<table, entry, cur>>
  BY DEF IcmpArrives, ReadRefused, ReadClosed, ReplyFails
<1>2. \A t \in Sockets \ {s} : socket'[t] = socket[t]
  BY DEF IcmpArrives, ReadRefused, ReadClosed, ReplyFails, TypeOK
<1>3. socket[s] \in SocketRecords
  BY DEF TypeOK
<1>4. /\ socket'[s].open => /\ socket[s].open
                          /\ socket'[s].client = socket[s].client
                          /\ socket'[s].cand = socket[s].cand
      /\ socket'[s].err # "clean" => socket[s].err # "clean" /\ socket'[s].cand = socket[s].cand
      /\ socket[s].open /\ ~(socket'[s].open /\ socket'[s].err # "refused")
           => socket[s].err # "clean"
  <2>1. CASE IcmpArrives(s)
    BY <1>3, <2>1 DEF IcmpArrives, TypeOK, SocketRecords
  <2>2. CASE ReadRefused(s)
    BY <1>3, <2>2 DEF ReadRefused, TypeOK, SocketRecords, Free
  <2>3. CASE ReadClosed(s)
    BY <1>3, <2>3 DEF ReadClosed, TypeOK, SocketRecords, Free
  <2>4. CASE ReplyFails(s)
    BY <1>3, <2>4 DEF ReplyFails, TypeOK, SocketRecords
  <2> QED
    BY <2>1, <2>2, <2>3, <2>4
<1>5. EntryInUse' /\ NothingSkipped'
  BY <1>1 DEF Flow, EntryInUse, NothingSkipped
<1>6. \A c \in table : entry[c].conn # None => entry[c].conn \in Sockets
  BY DEF TypeOK, Entries
<1>7. OwnSocket'
  <2>1. ASSUME NEW c \in table, entry[c].conn # None, socket'[entry[c].conn].open
        PROVE  socket'[entry[c].conn].cand = entry[c].idx
    <3>1. socket[entry[c].conn].open /\ socket'[entry[c].conn].cand = socket[entry[c].conn].cand
      BY <1>2, <1>4, <1>6, <2>1
    <3> QED
      BY <2>1, <3>1 DEF Flow, OwnSocket
  <2> QED
    BY <1>1, <2>1 DEF Flow, OwnSocket
<1>8. SocketUsable'
  <2>1. \A t \in Sockets : socket'[t].err # "clean" => socket'[t].cand \in Refusing
    BY <1>2, <1>4 DEF Flow, SocketUsable
  <2>2. ASSUME NEW c \in table, entry[c].conn # None
        PROVE  \/ entry[c].idx \in Refusing
               \/ socket'[entry[c].conn].open /\ socket'[entry[c].conn].err # "refused"
    <3>1. CASE entry[c].conn # s
      BY <1>2, <1>6, <2>2, <3>1 DEF Flow, SocketUsable
    <3>2. CASE entry[c].conn = s /\ socket[s].open
      <4>1. entry[c].idx = socket[s].cand
        BY <2>2, <3>2 DEF Flow, OwnSocket
      <4> QED
        BY <1>4, <3>2, <4>1 DEF Flow, SocketUsable
    <3>3. CASE entry[c].conn = s /\ ~socket[s].open
      BY <2>2, <3>3 DEF Flow, SocketUsable
    <3> QED
      BY <3>1, <3>2, <3>3
  <2> QED
    BY <1>1, <2>1, <2>2 DEF Flow, SocketUsable
<1>9. NoOrphan => NoOrphan'
  BY <1>1, <1>2, <1>4 DEF NoOrphan
<1> QED
  BY <1>5, <1>7, <1>8, <1>9 DEF Flow

(* Once a call has returned no object outside the map is left.               *)
LEMMA ReturnEntries ==
  ASSUME TypeOK, Flow, cur \in Clients, cur' = None, table' = table,
         entry' = IF cur \in table THEN entry ELSE [entry EXCEPT ![cur] = Blank]
  PROVE  /\ EntryInUse'
         /\ \A c \in Clients : entry'[c] = entry[c] \/ entry'[c] = Blank
         /\ \A c \in table : entry'[c] = entry[c]
<1>1. \A c \in Clients : entry'[c] = IF c = cur /\ cur \notin table THEN Blank ELSE entry[c]
  BY DEF TypeOK
<1>2. table \subseteq Clients /\ None \notin Clients
  BY ClientsFinite DEF TypeOK
<1>3. EntryInUse'
  BY <1>1, <1>2 DEF Flow, EntryInUse
<1> QED
  BY <1>1, <1>2, <1>3

(* The read loop's own steps on the entry it uses.                           *)
LEMMA LoopStepKeepsFlow ==
  ASSUME TableInv, Flow, ReadLoopStep
  PROVE  Flow' /\ (NoOrphan => NoOrphan')
<1>0. TypeOK /\ table \subseteq Clients /\ None \notin Clients
  BY ClientsFinite DEF TableInv, TypeOK
<1>1. cur \in Clients /\ entry[cur] \in Entries /\ cur # None
  BY <1>0 DEF ReadLoopStep, WriteExhausted, DialFails, Dial, WriteSucceeds, WriteFails, TypeOK
<1>2. CASE WriteExhausted
  <2>1. /\ UNCHANGED <<table, socket>> /\ cur' = None
        /\ EntryInUse'
        /\ \A c \in Clients : entry'[c] = entry[c] \/ entry'[c] = Blank
        /\ \A c \in table : entry'[c] = entry[c]
    BY <1>0, <1>1, <1>2, ReturnEntries DEF WriteExhausted, Return
  <2>2. ASSUME cur \in table PROVE Healthy = {}
    <3>1. \A i \in Healthy : i \in Nat /\ i <= NCand /\ entry[cur].idx <= i
      BY <1>1, <2>2, CandAssumption DEF Flow, NothingSkipped, Healthy, Cands
    <3>2. entry[cur].idx > NCand /\ entry[cur].idx \in Nat
      BY <1>1, <1>2, CandAssumption DEF WriteExhausted, Entries
    <3> QED
      BY <3>1, <3>2, CandAssumption
  <2>3. OwnSocket'
    BY <1>0, <2>1 DEF Flow, OwnSocket, Blank
  <2>4. SocketUsable'
    BY <2>1, <2>2 DEF Flow, SocketUsable
  <2>5. NothingSkipped' /\ (NoOrphan => NoOrphan')
    BY <2>1 DEF Flow, NothingSkipped, NoOrphan
  <2> QED
    BY <2>1, <2>3, <2>4, <2>5 DEF Flow
<1>3. CASE DialFails
  <2>1. /\ UNCHANGED <<table, socket, cur>>
        /\ entry' = [entry EXCEPT ![cur].idx = @ + 1]
        /\ entry[cur].conn = None /\ entry[cur].idx \in Undialable
    BY <1>3 DEF DialFails
  <2>2. /\ \A c \in Clients \ {cur} : entry'[c] = entry[c]
        /\ entry'[cur].conn = None /\ entry'[cur].age = entry[cur].age
        /\ entry'[cur].idx = entry[cur].idx + 1
    BY <1>0, <1>1, <2>1 DEF TypeOK, Entries
  <2>3. EntryInUse'
    BY <1>1, <2>1, <2>2 DEF Flow, EntryInUse
  <2>4. OwnSocket'
    <3>1. \A c \in Clients : entry'[c].conn = entry[c].conn
      BY <2>1, <2>2
    <3>2. \A c \in Clients : entry'[c].conn # None => entry'[c] = entry[c]
      BY <2>2
    <3> QED
      BY <1>0, <2>1, <3>1, <3>2 DEF Flow, OwnSocket
  <2>5. SocketUsable'
    BY <1>0, <1>1, <2>1, <2>2 DEF Flow, SocketUsable
  <2>6. NothingSkipped'
    <3>1. ASSUME NEW i \in Healthy, cur \in table PROVE entry[cur].idx + 1 <= i
      <4>1. entry[cur].idx <= i /\ entry[cur].idx # i
        BY <1>1, <2>1, <3>1 DEF Flow, NothingSkipped, Healthy
      <4> QED
        BY <1>1, <4>1, CandAssumption DEF Healthy, Cands, Entries
    <3> QED
      BY <1>0, <1>1, <2>1, <2>2, <3>1 DEF Flow, NothingSkipped
  <2>7. NoOrphan => NoOrphan'
    BY <1>0, <1>1, <2>1, <2>2, SocketsAssumption DEF NoOrphan
  <2> QED
    BY <2>3, <2>4, <2>5, <2>6, <2>7 DEF Flow
<1>4. ASSUME NEW s \in Sockets, Dial(s) PROVE Flow' /\ (NoOrphan => NoOrphan')
  <2>1. /\ UNCHANGED <<table, cur>>
        /\ entry' = [entry EXCEPT ![cur].conn = s]
        /\ socket' = [socket EXCEPT ![s] = [client |-> cur, cand |-> entry[cur].idx, open |-> TRUE,
                                            err |-> "clean", reader |-> TRUE]]
        /\ socket[s] = Free /\ \A c \in Clients : entry[c].conn # s
        /\ entry[cur].conn = None
    BY <1>4 DEF Dial, Unused
  <2>2. /\ \A c \in Clients \ {cur} : entry'[c] = entry[c]
        /\ entry'[cur].conn = s /\ entry'[cur].age = entry[cur].age
        /\ entry'[cur].idx = entry[cur].idx
    BY <1>0, <1>1, <2>1 DEF TypeOK, Entries
  <2>3. /\ \A t \in Sockets \ {s} : socket'[t] = socket[t]
        /\ socket'[s].client = cur /\ socket'[s].cand = entry[cur].idx
        /\ socket'[s].open /\ socket'[s].err = "clean"
    BY <1>0, <2>1 DEF TypeOK
  <2>4. \A c \in table \ {cur} : entry[c].conn # None =>
          entry[c].conn \in Sockets /\ socket'[entry[c].conn] = socket[entry[c].conn]
    BY <1>0, <2>1, <2>3 DEF TypeOK, Entries
  <2>5. EntryInUse'
    BY <1>1, <2>1, <2>2 DEF Flow, EntryInUse
  <2>6. OwnSocket'
    <3>1. \A c, d \in Clients : entry'[c].conn # None /\ entry'[c].conn = entry'[d].conn => c = d
      BY <2>1, <2>2 DEF Flow, OwnSocket
    <3>2. ASSUME NEW c \in table
          PROVE  entry'[c].conn # None /\ socket'[entry'[c].conn].open
                   => socket'[entry'[c].conn].cand = entry'[c].idx
      <4>1. CASE c = cur
        BY <2>2, <2>3, <4>1
      <4>2. CASE c # cur
        BY <1>0, <2>2, <2>4, <4>2 DEF Flow, OwnSocket
      <4> QED
        BY <4>1, <4>2
    <3> QED
      BY <2>1, <3>1, <3>2 DEF OwnSocket
  <2>7. SocketUsable'
    <3>1. \A t \in Sockets : socket'[t].err # "clean" => socket'[t].cand \in Refusing
      BY <2>3 DEF Flow, SocketUsable
    <3>2. ASSUME NEW c \in table
          PROVE  /\ entry'[c].conn # None =>
                     \/ entry'[c].idx \in Refusing
                     \/ socket'[entry'[c].conn].open /\ socket'[entry'[c].conn].err # "refused"
                 /\ entry'[c].conn = None => c = cur \/ Healthy = {}
      <4>1. CASE c = cur
        BY <2>2, <2>3, <4>1
      <4>2. CASE c # cur
        BY <1>0, <2>2, <2>4, <4>2 DEF Flow, SocketUsable
      <4> QED
        BY <4>1, <4>2
    <3> QED
      BY <2>1, <3>1, <3>2 DEF SocketUsable
  <2>8. NothingSkipped'
    BY <1>0, <1>1, <2>1, <2>2 DEF Flow, NothingSkipped
  <2>9. ASSUME NoOrphan PROVE NoOrphan'
    <3>1. cur \in table
      BY <1>1, <2>9 DEF NoOrphan
    <3>2. ASSUME NEW t \in Sockets \ {s}, socket'[t].open
          PROVE  /\ socket'[t].client \in table'
                 /\ entry'[socket'[t].client].conn = t
                 /\ entry'[socket'[t].client].idx = socket'[t].cand
      <4>1. socket[t].client \in table /\ entry[socket[t].client].conn = t
            /\ entry[socket[t].client].idx = socket[t].cand
        BY <2>3, <2>9, <3>2 DEF NoOrphan
      <4>2. socket[t].client # cur
        BY <2>1, <4>1, SocketsAssumption
      <4> QED
        BY <1>0, <2>1, <2>2, <2>3, <4>1, <4>2
    <3> QED
      BY <2>1, <2>2, <2>3, <3>1, <3>2 DEF NoOrphan
  <2> QED
    BY <2>5, <2>6, <2>7, <2>8, <2>9 DEF Flow
<1>5. CASE WriteSucceeds
  <2> DEFINE s == entry[cur].conn
  <2>1. /\ UNCHANGED table /\ cur' = None
        /\ s # None /\ socket[s].open /\ socket[s].err # "refused"
        /\ \/ socket' = socket
           \/ socket[s].cand \in Refusing /\ socket' = [socket EXCEPT ![s].err = "sent"]
        /\ EntryInUse'
        /\ \A c \in Clients : entry'[c] = entry[c] \/ entry'[c] = Blank
        /\ \A c \in table : entry'[c] = entry[c]
    BY <1>0, <1>1, <1>5, ReturnEntries DEF WriteSucceeds, Return
  <2>2. s \in Sockets /\ socket[s] \in SocketRecords
    BY <1>0, <1>1, <2>1 DEF TypeOK, Entries
  <2>3. \A t \in Sockets :
          /\ socket'[t].open = socket[t].open
          /\ socket'[t].client = socket[t].client
          /\ socket'[t].cand = socket[t].cand
          /\ \/ socket'[t].err = socket[t].err
             \/ socket'[t].err = "sent" /\ socket[t].cand \in Refusing
    BY <1>0, <2>1, <2>2 DEF TypeOK, SocketRecords
  <2>4. \A c \in table : entry[c].conn # None => entry[c].conn \in Sockets
    BY <1>0 DEF TypeOK, Entries
  <2>5. cur \in table => entry[cur].conn # None
    BY <2>1
  <2> HIDE DEF s
  <2>6. NothingSkipped' /\ (NoOrphan => NoOrphan')
    BY <2>1, <2>3 DEF Flow, NothingSkipped, NoOrphan
  <2>7. OwnSocket'
    <3>1. \A c, d \in Clients : entry'[c].conn # None /\ entry'[c].conn = entry'[d].conn => c = d
      BY <2>1 DEF Flow, OwnSocket, Blank
    <3>2. \A c \in table : entry'[c].conn # None /\ socket'[entry'[c].conn].open
                             => socket'[entry'[c].conn].cand = entry'[c].idx
      BY <2>1, <2>3, <2>4 DEF Flow, OwnSocket
    <3> QED
      BY <2>1, <3>1, <3>2 DEF OwnSocket
  <2>8. SocketUsable'
    <3>1. \A t \in Sockets : socket'[t].err # "clean" => socket'[t].cand \in Refusing
      BY <2>3 DEF Flow, SocketUsable
    <3>2. ASSUME NEW c \in table
          PROVE  /\ entry[c].conn # None =>
                     \/ entry[c].idx \in Refusing
                     \/ socket'[entry[c].conn].open /\ socket'[entry[c].conn].err # "refused"
                 /\ entry[c].conn = None => Healthy = {}
      BY <2>3, <2>4, <2>5 DEF Flow, SocketUsable
    <3> QED
      BY <2>1, <3>1, <3>2 DEF SocketUsable
  <2> QED
    BY <2>1, <2>6, <2>7, <2>8 DEF Flow
<1>6. CASE WriteFails
  <2> DEFINE s == entry[cur].conn
  <2>1. /\ UNCHANGED <<table, cur>>
        /\ s # None /\ (~socket[s].open \/ socket[s].err = "refused")
        /\ socket' = [socket EXCEPT ![s] = Collected([socket[s] EXCEPT !.open = FALSE])]
        /\ entry' = [entry EXCEPT ![cur].conn = None, ![cur].idx = @ + 1]
    BY <1>6 DEF WriteFails
  <2>2. s \in Sockets /\ socket[s] \in SocketRecords
    BY <1>0, <1>1, <2>1 DEF TypeOK, Entries
  <2>3. /\ \A t \in Sockets \ {s} : socket'[t] = socket[t]
        /\ ~socket'[s].open
        /\ socket'[s].err # "clean" => socket[s].err # "clean" /\ socket'[s].cand = socket[s].cand
    BY <1>0, <2>1, <2>2 DEF TypeOK, Collected, Free, SocketRecords
  <2>4. /\ \A c \in Clients \ {cur} : entry'[c] = entry[c]
        /\ entry'[cur].conn = None /\ entry'[cur].age = entry[cur].age
        /\ entry'[cur].idx = entry[cur].idx + 1
    BY <1>0, <1>1, <2>1 DEF TypeOK, Entries
  <2>5. cur \in table => entry[cur].idx \in Refusing
    BY <2>1 DEF Flow, SocketUsable
  <2>6. \A c \in Clients \ {cur} : entry[c].conn # s
    BY <1>1, <2>1 DEF Flow, OwnSocket
  <2>7. \A c \in table \ {cur} : entry[c].conn # None =>
          entry[c].conn \in Sockets /\ socket'[entry[c].conn] = socket[entry[c].conn]
    BY <1>0, <2>3, <2>6 DEF TypeOK, Entries
  <2>8. ASSUME NoOrphan PROVE NoOrphan'
    <3>1. ASSUME NEW t \in Sockets, socket'[t].open
          PROVE  /\ socket'[t].client \in table'
                 /\ entry'[socket'[t].client].conn = t
                 /\ entry'[socket'[t].client].idx = socket'[t].cand
      <4>1. t # s /\ socket'[t] = socket[t]
        BY <2>3, <3>1
      <4>2. socket[t].client \in table /\ entry[socket[t].client].conn = t
            /\ entry[socket[t].client].idx = socket[t].cand
        BY <2>8, <3>1, <4>1 DEF NoOrphan
      <4>3. socket[t].client # cur
        BY <4>1, <4>2
      <4>4. entry'[socket[t].client] = entry[socket[t].client] /\ socket[t].client \in table'
        BY <1>0, <2>1, <2>4, <4>2, <4>3
      <4> QED
        BY <4>1, <4>2, <4>4
    <3> QED
      BY <2>1, <2>8, <3>1 DEF NoOrphan
  <2> HIDE DEF s
  <2>9. EntryInUse'
    BY <1>1, <2>1, <2>4 DEF Flow, EntryInUse
  <2>10. OwnSocket'
    <3>1. \A c, d \in Clients : entry'[c].conn # None /\ entry'[c].conn = entry'[d].conn => c = d
      BY <2>4 DEF Flow, OwnSocket
    <3>2. ASSUME NEW c \in table, entry'[c].conn # None, socket'[entry'[c].conn].open
          PROVE  socket'[entry'[c].conn].cand = entry'[c].idx
      <4>1. c # cur
        BY <2>4, <3>2
      <4> QED
        BY <1>0, <2>4, <2>7, <3>2, <4>1 DEF Flow, OwnSocket
    <3> QED
      BY <2>1, <3>1, <3>2 DEF OwnSocket
  <2>11. SocketUsable'
    <3>1. \A t \in Sockets : socket'[t].err # "clean" => socket'[t].cand \in Refusing
      BY <2>2, <2>3 DEF Flow, SocketUsable
    <3>2. ASSUME NEW c \in table
          PROVE  /\ entry'[c].conn # None =>
                     \/ entry'[c].idx \in Refusing
                     \/ socket'[entry'[c].conn].open /\ socket'[entry'[c].conn].err # "refused"
                 /\ entry'[c].conn = None => c = cur \/ Healthy = {}
      <4>1. CASE c = cur
        BY <2>4, <4>1
      <4>2. CASE c # cur
        BY <1>0, <2>4, <2>7, <4>2 DEF Flow, SocketUsable
      <4> QED
        BY <4>1, <4>2
    <3> QED
      BY <2>1, <3>1, <3>2 DEF SocketUsable
  <2>12. NothingSkipped'
    <3>1. ASSUME NEW i \in Healthy, cur \in table PROVE entry[cur].idx + 1 <= i
      <4>1. entry[cur].idx <= i /\ entry[cur].idx # i
        BY <1>1, <2>5, <3>1 DEF Flow, NothingSkipped, Healthy
      <4> QED
        BY <1>1, <4>1, CandAssumption DEF Healthy, Cands, Entries
    <3> QED
      BY <1>0, <1>1, <2>1, <2>4, <3>1 DEF Flow, NothingSkipped
  <2> QED
    BY <2>8, <2>9, <2>10, <2>11, <2>12 DEF Flow
<1> QED
  BY <1>2, <1>3, <1>4, <1>5, <1>6 DEF ReadLoopStep

LEMMA FlowStep == TableInv /\ FlowInv /\ [Next]_vars => FlowInv'
<1> SUFFICES ASSUME TableInv, FlowInv, [Next]_vars, ~panicked'
             PROVE  Flow' /\ (stage'.close # "closed" => NoOrphan')
  BY DEF FlowInv, Flow
<1>0. TypeOK
  BY DEF TableInv
<1>1. CASE UNCHANGED vars
  <2>1. Flow /\ (stage.close # "closed" => NoOrphan)
    BY <1>1 DEF FlowInv, Flow, vars
  <2> QED
    BY <1>1, <2>1 DEF vars, Flow, EntryInUse, OwnSocket, SocketUsable, NothingSkipped, NoOrphan
<1>2. CASE Next
  <2>1. stage'.close # "closed" => stage.close # "closed"
    BY <1>2 DEF Next, RelayClientToDest, RelayKnown, RelayNew, RelayRefused, ReadLoopStep,
                WriteExhausted, DialFails, Dial, WriteSucceeds, WriteFails, IcmpArrives,
                ReaderStep, ReadRefused, ReadClosed, ReplyFails, Reap, ReaperExits, CloseBegins,
                CloseEntries, Tick, Age, TableInv, TypeOK
  <2>2. ~panicked
    BY <1>2 DEF Next, RelayClientToDest, RelayKnown, RelayNew, RelayRefused, ReadLoopStep,
                WriteExhausted, DialFails, Dial, WriteSucceeds, WriteFails, IcmpArrives,
                ReaderStep, ReadRefused, ReadClosed, ReplyFails, Reap, ReaperExits, CloseBegins,
                CloseEntries, Tick
  <2>3. Flow /\ (stage.close # "closed" => NoOrphan)
    BY <2>2 DEF FlowInv, Flow
  <2>4. ASSUME NEW c \in Clients, RelayKnown(c) PROVE Flow' /\ (NoOrphan => NoOrphan')
    <3>1. UNCHANGED <<table, socket>> /\ cur' = c /\ cur = None /\ c \in table
      BY <2>4 DEF RelayKnown
    <3>2. /\ \A d \in Clients \ {c} : entry'[d] = entry[d]
          /\ entry'[c].conn = entry[c].conn /\ entry'[c].idx = entry[c].idx /\ entry'[c].age = 0
      BY <1>0, <2>4 DEF RelayKnown, TypeOK, Entries
    <3>3. EntryInUse'
      BY <2>3, <3>1, <3>2, ClientsFinite, LimitAssumption DEF Flow, EntryInUse
    <3>4. OwnSocket'
      BY <1>0, <2>3, <3>1, <3>2 DEF Flow, OwnSocket, TypeOK
    <3>5. SocketUsable'
      BY <1>0, <2>3, <3>1, <3>2, ClientsFinite DEF Flow, SocketUsable, TypeOK
    <3>6. NothingSkipped'
      BY <1>0, <2>3, <3>1, <3>2 DEF Flow, NothingSkipped, TypeOK
    <3>7. NoOrphan => NoOrphan'
      BY <1>0, <3>1, <3>2 DEF NoOrphan, TypeOK
    <3> QED
      BY <3>3, <3>4, <3>5, <3>6, <3>7 DEF Flow
  <2>5. ASSUME NEW c \in Clients, RelayNew(c) PROVE Flow' /\ (NoOrphan => NoOrphan')
    <3>1. /\ UNCHANGED socket /\ cur' = c /\ cur = None /\ c # cur
          /\ c \notin table /\ table' = table \cup {c}
      BY <2>5, ClientsFinite DEF RelayNew
    <3>2. entry[c] = Blank
      BY <2>3, <3>1 DEF Flow, EntryInUse
    <3>3. \A d \in Clients : entry'[d] = entry[d]
      <4>1. entry' = [entry EXCEPT ![c] = Blank]
        BY <2>5 DEF RelayNew
      <4>2. entry \in [Clients -> Entries]
        BY <1>0 DEF TypeOK
      <4> QED
        BY <3>2, <4>1, <4>2
    <3>4. EntryInUse'
      <4>1. entry'[c].age <= Timeout
        <5>1. Blank.age = 0
          BY DEF Blank
        <5> QED
          BY <3>2, <3>3, <5>1, LimitAssumption
      <4>2. ASSUME NEW d \in Clients \ table', d # cur' PROVE entry'[d] = Blank
        <5>1. d \notin table /\ d # cur
          BY <3>1, <4>2, ClientsFinite
        <5> QED
          BY <2>3, <3>3, <5>1 DEF Flow, EntryInUse
      <4> QED
        BY <3>1, <4>1, <4>2 DEF EntryInUse
    <3>5. OwnSocket'
      <4>1. entry[c].conn = None /\ table \subseteq Clients
        BY <1>0, <3>2 DEF Blank, TypeOK
      <4>2. ASSUME NEW d \in table', entry'[d].conn # None PROVE d \in table /\ entry'[d] = entry[d]
        BY <3>1, <3>3, <4>1, <4>2
      <4>3. \A d, e \in Clients : entry'[d].conn # None /\ entry'[d].conn = entry'[e].conn => d = e
        BY <2>3, <3>3 DEF Flow, OwnSocket
      <4> QED
        BY <2>3, <3>1, <4>2, <4>3 DEF Flow, OwnSocket
    <3>6. SocketUsable'
      BY <1>0, <2>3, <3>1, <3>2, <3>3, ClientsFinite DEF Flow, SocketUsable, Blank, TypeOK
    <3>7. NothingSkipped'
      BY <1>0, <2>3, <3>1, <3>2, <3>3 DEF Flow, NothingSkipped, Blank, Healthy, Cands, TypeOK
    <3>8. NoOrphan => NoOrphan'
      BY <1>0, <3>1, <3>3 DEF NoOrphan, TypeOK
    <3> QED
      BY <3>4, <3>5, <3>6, <3>7, <3>8 DEF Flow
  <2>6. ASSUME NEW c \in Clients, RelayRefused(c) PROVE Flow' /\ (NoOrphan => NoOrphan')
    BY <2>3, <2>6 DEF RelayRefused, Flow, EntryInUse, OwnSocket, SocketUsable, NothingSkipped,
                      NoOrphan
  <2>7. CASE ReadLoopStep
    BY <2>1, <2>3, <2>7, LoopStepKeepsFlow
  <2>8. ASSUME NEW s \in Sockets, IcmpArrives(s) \/ ReaderStep(s)
        PROVE  Flow' /\ (NoOrphan => NoOrphan')
    BY <1>0, <2>3, <2>8, SocketStepKeepsFlow DEF ReaderStep
  <2>9. CASE Reap
    BY <1>0, <2>1, <2>3, <2>9, ReapKeepsFlow
  <2>10. CASE ReaperExits \/ CloseBegins
    BY <2>1, <2>3, <2>10 DEF ReaperExits, CloseBegins, Flow, EntryInUse, OwnSocket, SocketUsable,
                             NothingSkipped, NoOrphan
  <2>11. CASE CloseEntries
    <3>1. stage'.close = "closed"
      BY <1>0, <2>11 DEF CloseEntries, TypeOK
    <3> QED
      BY <1>0, <2>3, <2>11, <3>1, CloseKeepsFlow
  <2>12. CASE Tick
    <3>1. UNCHANGED <<table, socket, cur>>
      BY <2>12 DEF Tick, Age
    <3>2. \A c \in Clients :
            /\ entry'[c].conn = entry[c].conn /\ entry'[c].idx = entry[c].idx
            /\ c \notin table => entry'[c] = entry[c]
            /\ entry'[c].age = entry[c].age \/ entry'[c].age = entry[c].age + 1
      BY <1>0, <2>12 DEF Tick, Age, TypeOK, Entries
    <3>3. EntryInUse'
      <4>1. cur # None => entry'[cur].age <= Timeout
        <5> SUFFICES ASSUME cur # None PROVE entry'[cur].age <= Timeout
          OBVIOUS
        <5>1. cur \in Clients /\ entry[cur].age < Timeout /\ entry[cur].age \in Nat
          BY <1>0, <2>12 DEF Tick, Timely, TypeOK, Entries
        <5> QED
          BY <3>2, <5>1, LimitAssumption
      <4>2. cur \in table => cur # None
        BY <1>0, ClientsFinite DEF TypeOK
      <4> QED
        BY <2>3, <3>1, <3>2, <4>1, <4>2 DEF Flow, EntryInUse
    <3>4. OwnSocket'
      BY <1>0, <2>3, <3>1, <3>2 DEF Flow, OwnSocket, TypeOK
    <3>5. SocketUsable'
      BY <1>0, <2>3, <3>1, <3>2 DEF Flow, SocketUsable, TypeOK
    <3>6. NothingSkipped'
      BY <1>0, <2>3, <3>1, <3>2 DEF Flow, NothingSkipped, TypeOK
    <3>7. NoOrphan => NoOrphan'
      BY <1>0, <3>1, <3>2 DEF NoOrphan, TypeOK
    <3> QED
      BY <2>1, <2>3, <3>3, <3>4, <3>5, <3>6, <3>7 DEF Flow
  <2> QED
    BY <1>2, <2>1, <2>3, <2>4, <2>5, <2>6, <2>7, <2>8, <2>9, <2>10, <2>11, <2>12
       DEF Next, RelayClientToDest
<1> QED
  BY <1>1, <1>2

(* Until Close empties the map every open socket belongs to exactly one live *)
(* flow: no interleaving of relayClientToDest, the reaper and destToClient    *)
(* gives a client two sockets or leaves one behind.                            *)
THEOREM OneSocketPerFlowHolds == Spec => []OneSocketPerFlow
<1>1. FlowInv => OneSocketPerFlow
  BY DEF FlowInv, NoOrphan, OneSocketPerFlow
<1> QED
  BY <1>1, TableInit, TableStep, FlowInit, FlowStep, PTL DEF Spec

(* Failover (writeToDest) never moves past a candidate that neither refuses  *)
(* datagrams nor fails to be dialled, for any list of candidates and also for *)
(* a flow that is created behind Close.                                        *)
THEOREM HealthyNeverSkippedHolds == Spec => []HealthyNeverSkipped
<1>1. FlowInv => HealthyNeverSkipped
  BY DEF FlowInv, NothingSkipped, HealthyNeverSkipped
<1> QED
  BY <1>1, TableInit, TableStep, FlowInit, FlowStep, PTL DEF Spec

-----------------------------------------------------------------------------
(* The sweep never meets an entry without a socket while some candidate      *)
(* works; Close may, and then only the one the read loop is about to dial.   *)
PanicInv == TableInv /\ FlowInv /\ PanicsOnlyInClose

LEMMA PanicStep == PanicInv /\ [Next]_vars => PanicInv'
<1> SUFFICES ASSUME PanicInv, [Next]_vars, Healthy # {}, panicked' PROVE MetUndialled'
  BY TableStep, FlowStep DEF PanicInv, PanicsOnlyInClose, Healthy, Cands
<1>1. CASE UNCHANGED vars
  BY <1>1 DEF vars, PanicInv, PanicsOnlyInClose, MetUndialled
<1>2. CASE Next
  <2>1. ~panicked /\ (Reap \/ CloseEntries)
    BY <1>2 DEF Next, RelayClientToDest, RelayKnown, RelayNew, RelayRefused, ReadLoopStep,
                WriteExhausted, DialFails, Dial, WriteSucceeds, WriteFails, IcmpArrives,
                ReaderStep, ReadRefused, ReadClosed, ReplyFails, Reap, ReaperExits, CloseBegins,
                CloseEntries, Tick, Age
  <2>2. Flow /\ TypeOK
    BY <2>1 DEF PanicInv, FlowInv, Flow, TableInv
  <2>3. ASSUME NEW c \in table, entry[c].conn = None PROVE c = cur
    BY <2>2, <2>3 DEF Flow, SocketUsable
  <2>4. CASE Reap
    <3>1. PICK c \in table : entry[c].age > Timeout /\ entry[c].conn = None
      BY <2>4 DEF Reap, Remove
    <3>2. c = cur /\ entry[c].age <= Timeout /\ entry[c].age \in Nat
      BY <2>2, <2>3, <3>1 DEF Flow, EntryInUse, TypeOK, Entries
    <3> QED
      BY <3>1, <3>2, LimitAssumption
  <2>5. CASE CloseEntries
    <3>1. PICK c \in table : entry[c].conn = None
      BY <2>5 DEF CloseEntries, Remove
    <3>2. c = cur /\ cur \in Clients /\ cur # None
      BY <2>2, <2>3, <3>1, ClientsFinite DEF TypeOK
    <3>3. entry'[cur] = entry[cur] /\ cur' = cur /\ stage'.close = "closed"
      BY <2>2, <2>5, <3>2 DEF CloseEntries, Remove, TypeOK
    <3> QED
      BY <3>1, <3>2, <3>3 DEF MetUndialled
  <2> QED
    BY <2>1, <2>4, <2>5
<1> QED
  BY <1>1, <1>2

(* With a candidate that works, reap never calls Close on a nil socket:      *)
(* whoever has no socket is being served by the read loop, which has just     *)
(* refreshed its lastSeen.  The only panic left is that of Close              *)
(* (reality_relay.go:247) on the flow of the call it overtakes.                *)
THEOREM PanicsOnlyInCloseHolds == Spec => []PanicsOnlyInClose
<1>1. Init => PanicInv
  BY TableInit, FlowInit DEF PanicInv, PanicsOnlyInClose, Init
<1>2. PanicInv => PanicsOnlyInClose
  BY DEF PanicInv
<1> QED
  BY <1>1, <1>2, PanicStep, PTL DEF Spec
=============================================================================
