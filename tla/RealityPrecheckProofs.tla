------------------------- MODULE RealityPrecheckProofs -------------------------
(***************************************************************************)
(* Proofs about RealityPrecheck: its tables stay typed, counted and         *)
(* bounded, the AUTH queue only ever holds datagrams of proved clients,     *)
(* what an undecided flow holds is bounded, a flow takes one path, and the  *)
(* precheck implements FlowGate.  One part carries these results, and  *)
(* those of the relay, over to the composed RealityListener, where only     *)
(* clients that sent something shaped like an Initial get a socket.  A      *)
(* section of its own proves the reassembler of CryptoReassembler right.    *)
(***************************************************************************)
EXTENDS RealityListener, PrecheckReassembly, AddressCounts, SequenceTheorems,
        FunctionTheorems, WellFoundedInduction

TableInv == TypeOK /\ LoopOK /\ PerIPCounts /\ WithinLimits

LEMMA CountIs == \A ip : Count(ip) = Cardinality(AtAddress(table, IPOf, ip))
BY DEF Count, AtAddress

LEMMA CountIsNext ==
  \A ip : Count(ip)' = Cardinality(AtAddress(table', IPOf, ip))
BY DEF Count, AtAddress

LEMMA TableFinite == TypeOK => IsFiniteSet(table) /\ Cardinality(table) \in Nat
BY ClientsFinite, FS_Subset, FS_CardinalityType DEF TypeOK

LEMMA EmptyStateTyped == EmptyState \in States /\ AtRest \in LoopStates
BY LimitAssumption DEF EmptyState, AtRest, States, LoopStates

LEMMA TableInit == Init => TableInv
<1> SUFFICES ASSUME Init PROVE TableInv
  OBVIOUS
<1>1. TypeOK
  BY EmptyStateTyped, LimitAssumption DEF Init, TypeOK, Stages
<1>2. LoopOK
  BY LimitAssumption DEF Init, LoopOK, AtRest
<1>3. \A ip : Count(ip) = 0
  BY CountIs, CountEmpty DEF Init
<1>4. Cardinality(table) = 0
  BY FS_EmptySet DEF Init
<1>5. PerIPCounts /\ WithinLimits
  BY <1>3, <1>4, LimitAssumption DEF Init, PerIPCounts, WithinLimits
<1> QED
  BY <1>1, <1>2, <1>5 DEF TableInv

(* Steps that leave the table alone keep everything about its counters. *)
LEMMA TableUnchanged ==
  ASSUME TableInv, UNCHANGED <<table, ipCount>>
  PROVE  PerIPCounts' /\ WithinLimits'
BY DEF TableInv, PerIPCounts, WithinLimits, Count

(* Removing states keeps the limits. *)
LEMMA FewerStates ==
  ASSUME TableInv, table' \subseteq table
  PROVE  WithinLimits'
<1>1. IsFiniteSet(table) /\ Cardinality(table) \in Nat
  BY TableFinite DEF TableInv
<1>2. IsFiniteSet(table') /\ Cardinality(table') \in Nat /\ Cardinality(table') <= Cardinality(table)
  BY <1>1, FS_Subset, FS_CardinalityType
<1>3. ASSUME NEW ip \in IPs
      PROVE  Count(ip)' <= Count(ip) /\ Count(ip)' \in Nat /\ Count(ip) \in Nat
  <2>1. AtAddress(table', IPOf, ip) \in SUBSET AtAddress(table, IPOf, ip)
    BY DEF AtAddress
  <2>2. IsFiniteSet(AtAddress(table, IPOf, ip))
    BY <1>1, CountType
  <2> QED
    BY <2>1, <2>2, CountIs, CountIsNext, FS_Subset, FS_CardinalityType
<1> QED
  BY <1>1, <1>2, <1>3, LimitAssumption DEF WithinLimits, TableInv

-----------------------------------------------------------------------------
(* Types.                                                                  *)

(* A datagram that arrives gets the next number. *)
LEMMA ArrivesTyped ==
  ASSUME TypeOK, LoopOK, NEW d \in Inputs, Arrives(d)
  PROVE  /\ d.client \in Clients /\ d.size \in Nat
         /\ NewId \in Ids /\ NewId = Len(arrived') /\ NewId \in DOMAIN arrived'
         /\ arrived' \in Seq(Inputs) /\ Len(arrived') <= MaxArrivals
         /\ arrived'[NewId] = d
         /\ DOMAIN arrived \subseteq DOMAIN arrived'
         /\ \A i \in DOMAIN arrived : arrived'[i] = arrived[i]
         /\ batch' \in 0..BatchSize
<1>1. d.client \in Clients /\ d.size \in Nat
  BY InputsAssumption
<1>2. arrived \in Seq(Inputs) /\ Len(arrived) \in Nat /\ Len(arrived) < MaxArrivals
  BY DEF TypeOK, Arrives
<1>3. batch' \in 0..BatchSize
  BY LimitAssumption DEF TypeOK, Arrives
<1>4. arrived' = Append(arrived, d)
  BY DEF Arrives
<1> QED
  BY <1>1, <1>2, <1>3, <1>4, LimitAssumption DEF NewId, Ids

(* The read loop's current client is a client. *)
LEMMA CurrentIsClient ==
  ASSUME TypeOK, LoopOK, loop.at \in {"decide", "flush"}
  PROVE  /\ Current \in Clients /\ loop.pkt \in Ids
         /\ Packet \in Inputs /\ Packet.client = Current /\ Packet.size \in Nat
         /\ Packet.frags \subseteq Fragments
<1>0. loop.pkt \in DOMAIN arrived /\ arrived \in Seq(Inputs) /\ Len(arrived) <= MaxArrivals
  BY DEF TypeOK, LoopOK
<1>1. arrived[loop.pkt] \in Inputs /\ loop.pkt \in Ids
  BY <1>0, LimitAssumption, LenProperties DEF Ids
<1> QED
  BY <1>1, InputsAssumption DEF Current, ClientOf, Packet

(* A flush step keeps the loop and the states typed. *)
LEMMA FlushNextTyped ==
  ASSUME TypeOK, LoopOK, loop.at = "flush", FlushNext
  PROVE  /\ loop' \in LoopStates /\ state' \in [Clients -> States] /\ LoopOK'
         /\ Head(loop.flush) \in Ids
<1>1. loop.flush \in Seq(Ids) /\ loop.flush # <<>> /\ loop \in LoopStates
  BY DEF TypeOK, LoopOK, LoopStates
<1>2. Head(loop.flush) \in Ids /\ Tail(loop.flush) \in Seq(Ids)
      /\ (Len(loop.flush) # 1 => Tail(loop.flush) # <<>>)
  <2>1. Head(loop.flush) \in Ids /\ Tail(loop.flush) \in Seq(Ids)
        /\ Len(Tail(loop.flush)) = Len(loop.flush) - 1
    BY <1>1, HeadTailProperties
  <2>2. Len(loop.flush) \in Nat
    BY <1>1, LenProperties
  <2>3. Len(loop.flush) # 1 => Len(Tail(loop.flush)) # 0
    BY <2>1, <2>2
  <2> QED
    BY <2>1, <2>3, EmptySeq
<1>3. Current \in Clients
  BY CurrentIsClient
<1>4. state' \in [Clients -> States]
  BY <1>3, EmptyStateTyped DEF FlushNext, TypeOK
<1>5. CASE Len(loop.flush) = 1
  <2>1. loop' = AtRest /\ arrived' = arrived
    BY <1>5 DEF FlushNext
  <2> QED
    BY <1>2, <1>4, <2>1, EmptyStateTyped DEF AtRest, LoopOK
<1>6. CASE Len(loop.flush) # 1
  <2>1. loop' = [loop EXCEPT !.flush = Tail(@)] /\ arrived' = arrived
    BY <1>6 DEF FlushNext
  <2>2. /\ loop' \in LoopStates /\ loop'.at = loop.at /\ loop'.pkt = loop.pkt
        /\ loop'.to = loop.to /\ loop'.flush = Tail(loop.flush)
    BY <1>1, <1>2, <2>1 DEF LoopStates
  <2> QED
    BY <1>2, <1>4, <1>6, <2>1, <2>2 DEF LoopOK
<1> QED
  BY <1>5, <1>6

(* Taking states out, as the reaper and Close do, keeps the types. *)
LEMMA RemoveTyped ==
  ASSUME TypeOK, NEW gone \in SUBSET table, NEW why \in {"idle", "closed"}, Remove(gone, why),
         arrived \in Seq(Inputs)
  PROVE  /\ table' \subseteq Clients
         /\ state' \in [Clients -> States]
         /\ lost' \subseteq (Ids \X {"noninitial", "full", "closed", "idle"})
<1>1. \A c \in Clients : Held(c) \subseteq Ids
  BY DEF TypeOK, States, Held
<1>2. lost' \subseteq (Ids \X {"noninitial", "full", "closed", "idle"})
  BY <1>1 DEF Remove, TypeOK
<1> QED
  BY <1>2, EmptyStateTyped DEF Remove, TypeOK

LEMMA HandlePacketTyped ==
  ASSUME TableInv, NEW d \in Inputs, HandlePacket(d)
  PROVE  TypeOK' /\ LoopOK'
<1>0. TypeOK /\ LoopOK
  BY DEF TableInv
<1>1. Arrives(d)
  BY DEF HandlePacket, DropObvious, DropAtLimit, RelayAtLimit, NewClient, KnownClient
<1>2. /\ d.client \in Clients /\ NewId \in Ids /\ NewId \in DOMAIN arrived'
      /\ arrived' \in Seq(Inputs) /\ Len(arrived') <= MaxArrivals /\ batch' \in 0..BatchSize
  BY <1>0, <1>1, ArrivesTyped
<1>3. loop.at = "read" /\ loop \in LoopStates /\ state[d.client] \in States
  BY <1>0, <1>1, <1>2 DEF Arrives, TypeOK
<1>4. <<NewId>> \in Seq(Ids) /\ <<NewId>> # <<>> /\ <<>> \in Seq(Ids)
  BY <1>2
<1>5. CASE DropObvious(d) \/ DropAtLimit(d)
  <2>1. UNCHANGED <<table, state, ipCount, queue, loop, served, relayed, stage>>
    BY <1>5 DEF DropObvious, DropAtLimit
  <2>2. lost' = lost \cup {<<NewId, "noninitial">>}
    BY <1>5 DEF DropObvious, DropAtLimit
  <2> QED
    BY <1>0, <1>2, <1>3, <2>1, <2>2 DEF TypeOK, LoopOK
<1>6. CASE RelayAtLimit(d)
  <2>1. loop' = [at |-> "flush", pkt |-> NewId, flush |-> <<NewId>>, to |-> "relay"]
        /\ UNCHANGED <<table, state, ipCount, queue, served, relayed, lost, stage>>
    BY <1>6 DEF RelayAtLimit
  <2>2. loop' \in LoopStates
    BY <1>2, <1>4, <2>1 DEF LoopStates
  <2> QED
    BY <1>0, <1>2, <1>4, <2>1, <2>2 DEF TypeOK, LoopOK
<1>7. CASE NewClient(d)
  <2>1. /\ loop' = [at |-> "decide", pkt |-> NewId, flush |-> <<>>, to |-> "none"]
        /\ table' = table \cup {d.client}
        /\ state' = [state EXCEPT ![d.client] = [EmptyState EXCEPT !.born = NewId]]
        /\ ipCount' = [ipCount EXCEPT ![IPOf[d.client]] = @ + 1]
        /\ UNCHANGED <<queue, served, relayed, lost, stage>>
    BY <1>7 DEF NewClient
  <2>2. loop' \in LoopStates
    BY <1>2, <1>4, <2>1 DEF LoopStates
  <2>3. [EmptyState EXCEPT !.born = NewId] \in States
    BY <1>2, EmptyStateTyped DEF States
  <2>4. state' \in [Clients -> States]
    BY <1>0, <2>1, <2>3 DEF TypeOK
  <2>5. IPOf[d.client] \in IPs
    BY <1>2, IPOfClients
  <2>6. ipCount' \in [IPs -> Nat]
    BY <1>0, <2>1, <2>5 DEF TypeOK
  <2> QED
    BY <1>0, <1>2, <2>1, <2>2, <2>4, <2>6 DEF TypeOK, LoopOK
<1>8. CASE KnownClient(d)
  <2>1. /\ state' = [state EXCEPT ![d.client].age = 0]
        /\ loop' = IF Undecided(d.client)
                   THEN [at |-> "decide", pkt |-> NewId, flush |-> <<>>, to |-> "none"]
                   ELSE [at |-> "flush", pkt |-> NewId, flush |-> <<NewId>>,
                         to |-> state[d.client].phase]
        /\ d.client \in table
        /\ UNCHANGED <<table, ipCount, queue, served, relayed, lost, stage>>
    BY <1>8 DEF KnownClient
  <2>2. [state[d.client] EXCEPT !.age = 0] \in States
    <3>1. 0 \in 0..(Timeout + 1)
      BY LimitAssumption
    <3> QED
      BY <1>3, <3>1 DEF States
  <2>3. state' \in [Clients -> States]
    BY <1>0, <2>1, <2>2 DEF TypeOK
  <2>4. loop' \in LoopStates /\ (loop'.at = "flush" => loop'.flush # <<>> /\ loop'.to # "none")
        /\ loop'.pkt = NewId
    BY <1>2, <1>3, <1>4, <2>1 DEF LoopStates, States, Undecided
  <2> QED
    BY <1>0, <1>2, <2>1, <2>3, <2>4 DEF TypeOK, LoopOK
<1> QED
  BY <1>5, <1>6, <1>7, <1>8 DEF HandlePacket

LEMMA DecidePendingTyped ==
  ASSUME TableInv, DecidePending
  PROVE  TypeOK' /\ LoopOK'
<1>0. TypeOK /\ LoopOK /\ loop.at = "decide"
  BY DEF TableInv, DecidePending, ForgetEmptyPending, Hold, Decide
<1>1. /\ Current \in Clients /\ loop.pkt \in Ids /\ Packet.size \in Nat
      /\ Packet.frags \subseteq Fragments /\ state[Current] \in States /\ loop \in LoopStates
  BY <1>0, CurrentIsClient DEF TypeOK
<1>2. \A c \in Clients : Held(c) \subseteq Ids
  BY <1>0 DEF TypeOK, States, Held
<1>3. /\ state[Current].pending \in Seq(Ids) /\ state[Current].bytes \in Nat
      /\ state[Current].crypto \subseteq Fragments
  BY <1>1 DEF States
<1>4. Append(state[Current].pending, loop.pkt) \in Seq(Ids)
      /\ Append(state[Current].pending, loop.pkt) # <<>>
  BY <1>1, <1>3, AppendProperties, EmptySeq
<1>5. CASE ForgetEmptyPending
  <2>1. /\ loop' = AtRest /\ table' \subseteq table
        /\ UNCHANGED <<queue, batch, arrived, served, relayed, stage>>
    BY <1>5 DEF ForgetEmptyPending
  <2>2. state' \in [Clients -> States]
    BY <1>0, <1>5, EmptyStateTyped DEF ForgetEmptyPending, TypeOK
  <2>3. lost' \subseteq (Ids \X {"noninitial", "full", "closed", "idle"})
    <3>1. Held(Current) \subseteq Ids
      BY <1>1, <1>2
    <3> QED
      BY <1>0, <1>1, <1>5, <3>1 DEF ForgetEmptyPending, TypeOK
  <2>4. ipCount' \in [IPs -> Nat]
    <3>1. CASE Current \in table /\ state[Current].pending = <<>> /\ state[Current].crypto = {}
      <4>1. IPOf[Current] \in IPs
        BY <1>1, IPOfClients
      <4>2. Count(IPOf[Current]) \in Nat /\ Count(IPOf[Current]) # 0
        <5>1. IsFiniteSet(AtAddress(table, IPOf, IPOf[Current]))
          BY <1>0, TableFinite, CountType
        <5>2. Current \in AtAddress(table, IPOf, IPOf[Current])
          BY <3>1 DEF AtAddress
        <5> QED
          BY <5>1, <5>2, CountIs, FS_CardinalityType, FS_EmptySet
      <4>3. ipCount[IPOf[Current]] - 1 \in Nat
        BY <4>1, <4>2 DEF TableInv, PerIPCounts
      <4> QED
        BY <1>0, <1>5, <3>1, <4>1, <4>3 DEF ForgetEmptyPending, TypeOK
    <3>2. CASE ~(Current \in table /\ state[Current].pending = <<>> /\ state[Current].crypto = {})
      BY <1>0, <1>5, <3>2 DEF ForgetEmptyPending, TypeOK
    <3> QED
      BY <3>1, <3>2
  <2> QED
    BY <1>0, <2>1, <2>2, <2>3, <2>4, EmptyStateTyped DEF TypeOK, LoopOK, AtRest
<1>6. CASE Hold
  <2>1. /\ loop' = AtRest
        /\ UNCHANGED <<table, ipCount, queue, batch, arrived, served, relayed, stage>>
    BY <1>6 DEF Hold
  <2>2. lost' \subseteq (Ids \X {"noninitial", "full", "closed", "idle"})
    <3>1. Held(Current) \subseteq Ids
      BY <1>1, <1>2
    <3> QED
      BY <1>0, <1>1, <1>6, <3>1 DEF Hold, TypeOK
  <2>3. state' \in [Clients -> States]
    <3>1. CASE Current \in table
      <4>1. state' = [state EXCEPT ![Current].pending = Append(@, loop.pkt),
                                   ![Current].bytes = @ + Packet.size,
                                   ![Current].crypto = Stream]
        BY <1>6, <3>1 DEF Hold
      <4>2. Stream \subseteq Fragments
        BY <1>1, <1>3 DEF Stream
      <4>3. state[Current].bytes + Packet.size \in Nat
        BY <1>1, <1>3
      <4>4. state'[Current] \in States
        BY <1>0, <1>1, <1>4, <4>1, <4>2, <4>3 DEF TypeOK, States
      <4> QED
        BY <1>0, <1>1, <4>1, <4>4 DEF TypeOK
    <3>2. CASE Current \notin table
      BY <1>0, <1>6, <3>2, EmptyStateTyped DEF Hold, TypeOK
    <3> QED
      BY <3>1, <3>2
  <2> QED
    BY <1>0, <2>1, <2>2, <2>3, EmptyStateTyped DEF TypeOK, LoopOK, AtRest
<1>7. CASE Decide
  <2>1. /\ Verdict \in {"auth", "relay"}
        /\ state' = [state EXCEPT ![Current].phase = Verdict, ![Current].pending = <<>>,
                                  ![Current].bytes = 0, ![Current].crypto = {}]
        /\ loop' = [loop EXCEPT !.at = "flush", !.to = Verdict,
                                !.flush = Append(state[Current].pending, loop.pkt)]
        /\ UNCHANGED <<table, ipCount, queue, batch, arrived, served, relayed, lost, stage>>
    BY <1>7 DEF Decide
  <2>2. /\ loop' \in LoopStates /\ loop'.at = "flush" /\ loop'.pkt = loop.pkt
        /\ loop'.to = Verdict /\ loop'.flush = Append(state[Current].pending, loop.pkt)
    BY <1>1, <1>4, <2>1 DEF LoopStates
  <2>3. state'[Current] \in States
    <3>1. state'[Current] = [state[Current] EXCEPT !.phase = Verdict, !.pending = <<>>,
                                                   !.bytes = 0, !.crypto = {}]
      BY <1>0, <1>1, <2>1 DEF TypeOK
    <3>2. <<>> \in Seq(Ids)
      BY EmptySeq
    <3>3. Verdict \in {"pending", "auth", "relay"}
      BY <2>1
    <3>4. state'[Current] = [phase |-> Verdict, age |-> state[Current].age,
                             life |-> state[Current].life, pending |-> <<>>, bytes |-> 0,
                             crypto |-> {}, born |-> state[Current].born]
      BY <1>1, <3>1 DEF States
    <3>5. /\ state[Current].age \in 0..(Timeout + 1) /\ state[Current].life \in 0..(Timeout + 1)
          /\ state[Current].born \in Ids \cup {0}
      BY <1>1 DEF States
    <3> QED
      BY <3>2, <3>3, <3>4, <3>5 DEF States
  <2>4. state' \in [Clients -> States]
    BY <1>0, <1>1, <2>1, <2>3 DEF TypeOK
  <2> QED
    BY <1>0, <1>4, <2>1, <2>2, <2>4 DEF TypeOK, LoopOK
<1> QED
  BY <1>5, <1>6, <1>7 DEF DecidePending

LEMMA FlushTyped ==
  ASSUME TableInv, Flush
  PROVE  TypeOK' /\ LoopOK'
<1>0. TypeOK /\ LoopOK /\ loop.at = "flush" /\ FlushNext
  BY DEF TableInv, Flush, Enqueue, HandToRelay
<1>1. /\ loop' \in LoopStates /\ state' \in [Clients -> States] /\ LoopOK'
      /\ Head(loop.flush) \in Ids
  BY <1>0, FlushNextTyped
<1>2. UNCHANGED <<table, ipCount, batch, arrived, served, stage>>
  BY <1>0 DEF FlushNext
<1>3. queue' \in Seq(Ids) /\ relayed' \in Seq(Ids)
  <2>1. queue \in Seq(Ids) /\ relayed \in Seq(Ids)
    BY <1>0 DEF TypeOK
  <2>2. \/ queue' = Append(queue, Head(loop.flush)) /\ relayed' = relayed
        \/ queue' = queue /\ relayed' = relayed
        \/ queue' = queue /\ relayed' = Append(relayed, Head(loop.flush))
    BY DEF Flush, Enqueue, HandToRelay
  <2>3. \A h \in Ids : Append(queue, h) \in Seq(Ids) /\ Append(relayed, h) \in Seq(Ids)
    BY <2>1, AppendProperties
  <2>4. Append(queue, Head(loop.flush)) \in Seq(Ids) /\ Append(relayed, Head(loop.flush)) \in Seq(Ids)
    BY <1>1, <2>3, Zenon
  <2> QED
    BY <2>1, <2>2, <2>4, Zenon
<1>4. lost' \subseteq (Ids \X {"noninitial", "full", "closed", "idle"})
  BY <1>0, <1>1 DEF Flush, Enqueue, HandToRelay, TypeOK
<1> QED
  BY <1>0, <1>1, <1>2, <1>3, <1>4 DEF TypeOK

LEMMA RemovalTyped ==
  ASSUME TableInv, Reap \/ CloseResets
  PROVE  TypeOK' /\ LoopOK'
<1>0. TypeOK /\ LoopOK /\ arrived \in Seq(Inputs)
  BY DEF TableInv, TypeOK
<1>1. UNCHANGED <<queue, loop, batch, arrived, served, relayed>> /\ stage' \in Stages
  BY <1>0 DEF Reap, CloseResets, TypeOK, Stages
<1>2. PICK gone \in SUBSET table, why \in {"idle", "closed"} : Remove(gone, why)
  BY DEF Reap, CloseResets
<1>3. /\ table' \subseteq Clients /\ state' \in [Clients -> States]
      /\ lost' \subseteq (Ids \X {"noninitial", "full", "closed", "idle"})
  BY <1>0, <1>2, RemoveTyped
<1>4. ipCount' \in [IPs -> Nat]
  <2>1. CASE CloseResets
    BY <2>1 DEF CloseResets
  <2>2. CASE Reap
    <3> DEFINE idle == {c \in table : state[c].age > Timeout}
    <3>1. ipCount' = [ip \in IPs |-> ipCount[ip] - Cardinality(AtAddress(idle, IPOf, ip))]
      BY <2>2 DEF Reap, AtAddress
    <3>2. \A ip \in IPs : ipCount[ip] - Cardinality(AtAddress(idle, IPOf, ip)) \in Nat
      <4> SUFFICES ASSUME NEW ip \in IPs
                   PROVE  ipCount[ip] - Cardinality(AtAddress(idle, IPOf, ip)) \in Nat
        OBVIOUS
      <4>1. IsFiniteSet(table) /\ idle \subseteq table /\ IsFiniteSet(idle) /\ IsFiniteSet(table \ idle)
        BY <1>0, TableFinite, FS_Subset
      <4>2. ipCount[ip] = Cardinality(AtAddress(table, IPOf, ip))
        BY CountIs DEF TableInv, PerIPCounts
      <4>3. Cardinality(AtAddress(table \ idle, IPOf, ip)) =
              Cardinality(AtAddress(table, IPOf, ip)) - Cardinality(AtAddress(idle, IPOf, ip))
        BY <4>1, CountRemove
      <4>4. Cardinality(AtAddress(table \ idle, IPOf, ip)) \in Nat
        BY <4>1, CountType
      <4> QED
        BY <4>2, <4>3, <4>4
    <3> QED
      BY <3>1, <3>2
  <2> QED
    BY <2>1, <2>2
<1> QED
  BY <1>0, <1>1, <1>3, <1>4 DEF TypeOK, LoopOK

(* The steps that touch neither the table nor a datagram of the read loop. *)
LEMMA RestTyped ==
  ASSUME TableInv,
         \/ ReadFails \/ QuicReads \/ QuicSeesClosed \/ ReaperExits
         \/ CloseBegins \/ CloseSocket \/ Tick \/ UNCHANGED vars
  PROVE  TypeOK' /\ LoopOK' /\ UNCHANGED <<table, ipCount>>
<1>0. TypeOK /\ LoopOK
  BY DEF TableInv
<1>1. CASE ReadFails
  <2>1. /\ loop' = [AtRest EXCEPT !.at = "exit"]
        /\ UNCHANGED <<table, state, ipCount, queue, batch, arrived, served, relayed, lost>>
        /\ stage' \in Stages
    BY <1>0, <1>1 DEF ReadFails, TypeOK, Stages
  <2>2. loop' \in LoopStates /\ loop'.at = "exit"
    BY <2>1, EmptyStateTyped DEF LoopStates, AtRest
  <2> QED
    BY <1>0, <2>1, <2>2 DEF TypeOK, LoopOK
<1>2. CASE QuicReads
  <2>1. /\ queue # <<>> /\ served' = Append(served, Head(queue)) /\ queue' = Tail(queue)
        /\ UNCHANGED <<table, state, ipCount, loop, batch, arrived, relayed, lost, stage>>
    BY <1>2 DEF QuicReads
  <2>2. queue \in Seq(Ids) /\ served \in Seq(Ids)
    BY <1>0 DEF TypeOK
  <2>3. Head(queue) \in Ids /\ Tail(queue) \in Seq(Ids)
    BY <2>1, <2>2, HeadTailProperties
  <2>4. Append(served, Head(queue)) \in Seq(Ids)
    BY <2>2, <2>3, AppendProperties
  <2> QED
    BY <1>0, <2>1, <2>3, <2>4 DEF TypeOK, LoopOK
<1>3. CASE QuicSeesClosed \/ ReaperExits \/ CloseBegins \/ CloseSocket
  <2>1. UNCHANGED <<table, state, ipCount, queue, loop, batch, arrived, served, relayed, lost>>
    BY <1>3 DEF QuicSeesClosed, ReaperExits, CloseBegins, CloseSocket
  <2>2. stage' \in Stages
    BY <1>0, <1>3 DEF QuicSeesClosed, ReaperExits, CloseBegins, CloseSocket, TypeOK, Stages
  <2> QED
    BY <1>0, <2>1, <2>2 DEF TypeOK, LoopOK
<1>4. CASE Tick
  <2>1. UNCHANGED <<table, ipCount, queue, loop, batch, arrived, served, relayed, lost, stage>>
    BY <1>4 DEF Tick, Age
  <2>2. \A t \in 0..(Timeout + 1) : (IF t > Timeout THEN t ELSE t + 1) \in 0..(Timeout + 1)
    BY LimitAssumption
  <2>3. ASSUME NEW c \in Clients
        PROVE  [state[c] EXCEPT !.age = IF @ > Timeout THEN @ ELSE @ + 1,
                                !.life = IF @ > Timeout THEN @ ELSE @ + 1] \in States
    BY <1>0, <2>2 DEF TypeOK, States
  <2>4. state' \in [Clients -> States]
    BY <1>0, <1>4, <2>3 DEF Tick, Age, TypeOK
  <2> QED
    BY <1>0, <2>1, <2>4 DEF TypeOK, LoopOK
<1>5. CASE UNCHANGED vars
  BY <1>0, <1>5 DEF vars, TypeOK, LoopOK
<1> QED
  BY <1>1, <1>2, <1>3, <1>4, <1>5

-----------------------------------------------------------------------------
(* Counters.                                                               *)

LEMMA NewClientCounted ==
  ASSUME TableInv, NEW d \in Inputs, NewClient(d)
  PROVE  PerIPCounts' /\ WithinLimits'
<1>1. /\ d.client \in Clients /\ d.client \notin table /\ ~AtLimit(d.client)
      /\ table' = table \cup {d.client}
      /\ ipCount' = [ipCount EXCEPT ![IPOf[d.client]] = @ + 1]
  BY InputsAssumption DEF NewClient
<1>2. IsFiniteSet(table) /\ Cardinality(table) \in Nat /\ ipCount \in [IPs -> Nat]
  BY TableFinite DEF TableInv, TypeOK
<1>3. Cardinality(table') = Cardinality(table) + 1
  BY <1>1, <1>2, FS_AddElement
<1>4. ASSUME NEW ip \in IPs
      PROVE  /\ Count(ip)' = IF IPOf[d.client] = ip THEN Count(ip) + 1 ELSE Count(ip)
             /\ ipCount[ip] = Count(ip) /\ Count(ip) \in Nat /\ Count(ip) <= MaxPerIP
  <2>1. Count(ip) = Cardinality(AtAddress(table, IPOf, ip))
    BY CountIs
  <2>2. Count(ip)' = Cardinality(AtAddress(table \cup {d.client}, IPOf, ip))
    BY <1>1, CountIsNext
  <2>3. ipCount[ip] = Count(ip) /\ Count(ip) <= MaxPerIP
    BY DEF TableInv, PerIPCounts, WithinLimits
  <2>4. Count(ip) \in Nat
    BY <1>2, <2>1, CountType
  <2> QED
    BY <1>1, <1>2, <2>1, <2>2, <2>3, <2>4, CountAdd
<1>5. Cardinality(table) < MaxStates /\ ipCount[IPOf[d.client]] < MaxPerIP
  BY <1>1, <1>2, IPOfClients, LimitAssumption DEF AtLimit
<1>6. PerIPCounts'
  BY <1>1, <1>2, <1>4 DEF PerIPCounts
<1>7. ASSUME NEW ip \in IPs
      PROVE  Count(ip)' <= MaxPerIP
  BY <1>4, <1>5, LimitAssumption
<1> QED
  BY <1>2, <1>3, <1>5, <1>6, <1>7, LimitAssumption DEF WithinLimits

LEMMA ForgetCounted ==
  ASSUME TableInv, ForgetEmptyPending
  PROVE  PerIPCounts' /\ WithinLimits'
<1>0. TypeOK /\ LoopOK /\ loop.at = "decide"
  BY DEF TableInv, ForgetEmptyPending
<1>1. CASE UNCHANGED <<table, ipCount>>
  BY <1>1, TableUnchanged
<1>2. CASE /\ Current \in table /\ table' = table \ {Current}
           /\ ipCount' = [ipCount EXCEPT ![IPOf[Current]] = @ - 1]
  <2>1. IsFiniteSet(table) /\ ipCount \in [IPs -> Nat]
    BY <1>0, TableFinite DEF TypeOK
  <2>2. ASSUME NEW ip \in IPs
        PROVE  ipCount'[ip] = Count(ip)'
    <3>1. Count(ip) = Cardinality(AtAddress(table, IPOf, ip))
      BY CountIs
    <3>2. Count(ip)' = Cardinality(AtAddress(table \ {Current}, IPOf, ip))
      BY <1>2, CountIsNext
    <3>3. ipCount[ip] = Count(ip)
      BY DEF TableInv, PerIPCounts
    <3> QED
      BY <1>2, <2>1, <3>1, <3>2, <3>3, CountRemoveOne
  <2> QED
    BY <1>2, <2>2, FewerStates DEF PerIPCounts
<1> QED
  BY <1>1, <1>2 DEF ForgetEmptyPending

LEMMA RemovalCounted ==
  ASSUME TableInv, Reap \/ CloseResets
  PROVE  PerIPCounts' /\ WithinLimits'
<1>0. IsFiniteSet(table)
  BY TableFinite DEF TableInv
<1>1. table' \subseteq table
  BY DEF Reap, CloseResets, Remove
<1>2. CASE CloseResets
  <2>1. table' = {} /\ ipCount' = [ip \in IPs |-> 0]
    BY <1>2 DEF CloseResets, Remove
  <2>2. \A ip \in IPs : Count(ip)' = 0
    BY <2>1, CountIsNext, CountEmpty
  <2> QED
    BY <1>1, <2>1, <2>2, FewerStates DEF PerIPCounts
<1>3. CASE Reap
  <2> DEFINE idle == {c \in table : state[c].age > Timeout}
  <2>1. /\ ipCount' = [ip \in IPs |-> ipCount[ip] - Cardinality(AtAddress(idle, IPOf, ip))]
        /\ table' = table \ idle
    BY <1>3 DEF Reap, Remove, AtAddress
  <2>2. ASSUME NEW ip \in IPs
        PROVE  ipCount'[ip] = Count(ip)'
    <3>1. Count(ip)' = Cardinality(AtAddress(table \ idle, IPOf, ip))
      BY <2>1, CountIsNext
    <3>2. ipCount[ip] = Cardinality(AtAddress(table, IPOf, ip))
      BY CountIs DEF TableInv, PerIPCounts
    <3>3. Cardinality(AtAddress(table \ idle, IPOf, ip)) =
            Cardinality(AtAddress(table, IPOf, ip)) - Cardinality(AtAddress(idle, IPOf, ip))
      BY <1>0, CountRemove
    <3> QED
      BY <2>1, <3>1, <3>2, <3>3
  <2> QED
    BY <1>1, <2>2, FewerStates DEF PerIPCounts
<1> QED
  BY <1>2, <1>3

(* TableInv is inductive. *)
LEMMA TableStep ==
  ASSUME TableInv, [Next]_vars
  PROVE  TableInv'
<1>1. CASE \E d \in Inputs : HandlePacket(d)
  <2>1. PICK d \in Inputs : HandlePacket(d)
    BY <1>1
  <2>2. TypeOK' /\ LoopOK'
    BY <2>1, HandlePacketTyped
  <2>3. PerIPCounts' /\ WithinLimits'
    <3>1. CASE NewClient(d)
      BY <3>1, NewClientCounted
    <3>2. CASE UNCHANGED <<table, ipCount>>
      BY <3>2, TableUnchanged
    <3> QED
      BY <2>1, <3>1, <3>2 DEF HandlePacket, DropObvious, DropAtLimit, RelayAtLimit, KnownClient
  <2> QED
    BY <2>2, <2>3 DEF TableInv
<1>2. CASE DecidePending
  <2>1. TypeOK' /\ LoopOK'
    BY <1>2, DecidePendingTyped
  <2>2. PerIPCounts' /\ WithinLimits'
    BY <1>2, ForgetCounted, TableUnchanged DEF DecidePending, Hold, Decide
  <2> QED
    BY <2>1, <2>2 DEF TableInv
<1>3. CASE Flush
  <2>1. UNCHANGED <<table, ipCount>>
    BY <1>3 DEF Flush, Enqueue, HandToRelay, FlushNext
  <2> QED
    BY <1>3, <2>1, FlushTyped, TableUnchanged DEF TableInv
<1>4. CASE Reap \/ CloseResets
  BY <1>4, RemovalTyped, RemovalCounted DEF TableInv
<1>5. CASE \/ ReadFails \/ QuicReads \/ QuicSeesClosed \/ ReaperExits
           \/ CloseBegins \/ CloseSocket \/ Tick \/ UNCHANGED vars
  BY <1>5, RestTyped, TableUnchanged DEF TableInv
<1> QED
  BY <1>1, <1>2, <1>3, <1>4, <1>5 DEF Next

(* Every reachable state of the precheck is well typed: in particular the   *)
(* per-IP counters of c.perIP never run below zero, and the read loop never *)
(* works on a datagram it does not have.                                    *)
THEOREM TypeCorrect == Spec => []TypeOK
<1>1. TableInv /\ [Next]_vars => TableInv'
  BY TableStep
<1>2. TableInv => TypeOK
  BY DEF TableInv
<1> QED
  BY <1>1, <1>2, TableInit, PTL DEF Spec

(* However arrivals, forgetting, reaping and Close interleave, c.perIP is    *)
(* exactly the number of tracked states per address, and neither the table   *)
(* nor any address exceeds precheckMaxStates / precheckMaxPerIP.             *)
THEOREM CountsCorrect == Spec => [](PerIPCounts /\ WithinLimits)
<1>1. TableInv /\ [Next]_vars => TableInv'
  BY TableStep
<1>2. TableInv => PerIPCounts /\ WithinLimits
  BY DEF TableInv
<1> QED
  BY <1>1, <1>2, TableInit, PTL DEF Spec

-----------------------------------------------------------------------------
(* Admission.                                                              *)

(* More datagrams can only prove more. *)
LEMMA ProofsGrow ==
  ASSUME TypeOK, arrived' \in Seq(Inputs),
         \A i \in DOMAIN arrived : i \in DOMAIN arrived' /\ arrived'[i] = arrived[i]
  PROVE  \A c : Sent(c) \subseteq Sent(c)' /\ (Proved(c) => Proved(c)')
<1>1. \A c : Sent(c) \subseteq Sent(c)'
  BY DEF Sent
<1>2. ASSUME NEW c PROVE Sent(c)' \subseteq Fragments
  <2>1. \A i \in DOMAIN arrived' : arrived'[i] \in Inputs
    OBVIOUS
  <2>2. \A d \in Inputs : d.frags \subseteq Fragments
    BY InputsAssumption
  <2> QED
    BY <2>1, <2>2 DEF Sent
<1>3. \A f \in Fragments : f.at \in Pieces
  BY DEF Fragments
<1> QED
  BY <1>1, <1>2, <1>3 DEF Proved

(* A complete hello of genuine fragments is a proof. *)
LEMMA HelloProves ==
  ASSUME TypeOK, NEW c, NEW F \in SUBSET Sent(c), Complete(F), Verified(F)
  PROVE  Proved(c)
<1>1. Sent(c) \subseteq Fragments
  <2>1. \A i \in DOMAIN arrived : arrived[i] \in Inputs
    BY DEF TypeOK
  <2>2. \A d \in Inputs : d.frags \subseteq Fragments
    BY InputsAssumption
  <2> QED
    BY <2>1, <2>2 DEF Sent
<1>2. \A f \in Fragments : f.at \in Pieces
  BY DEF Fragments
<1> QED
  BY <1>1, <1>2 DEF Proved, Complete, Verified

(* What decidePending has established when it reaches each verdict. *)
LEMMA VerdictMeans ==
  ASSUME TableInv, LoopAuth, loop.at = "decide"
  PROVE  /\ Verdict = "auth" => Packet.kind = "initial" /\ Complete(Stream) /\ Verified(Stream)
         /\ Verdict = "hold" => Packet.kind = "initial"
<1>1. Packet \in Inputs
  BY CurrentIsClient DEF TableInv
<1>2. Packet.kind \in {"noninitial", "malformed", "initial"}
  BY <1>1, InputsAssumption DEF LoopAuth, Kinds
<1> QED
  BY <1>2 DEF Verdict

(* A state that gains nothing keeps what it has shown. *)
LEMMA StatesKept ==
  ASSUME TypeOK, StatesAuth, arrived' \in Seq(Inputs),
         \A i \in DOMAIN arrived : i \in DOMAIN arrived' /\ arrived'[i] = arrived[i],
         NEW c \in Clients,
         state'[c].crypto \subseteq state[c].crypto,
         state'[c].pending \in {state[c].pending, <<>>},
         state'[c].phase = "auth" => state[c].phase = "auth"
  PROVE  /\ state'[c].crypto \subseteq Sent(c)'
         /\ \A i \in DOMAIN state'[c].pending :
              state'[c].pending[i] \in DOMAIN arrived' /\ arrived'[state'[c].pending[i]].client = c
         /\ state'[c].phase = "auth" => Proved(c)'
<1>1. Sent(c) \subseteq Sent(c)' /\ (Proved(c) => Proved(c)')
  BY ProofsGrow
<1>2. /\ state[c].crypto \subseteq Sent(c)
      /\ \A i \in DOMAIN state[c].pending :
           state[c].pending[i] \in DOMAIN arrived /\ arrived[state[c].pending[i]].client = c
      /\ state[c].phase = "auth" => Proved(c)
  BY DEF StatesAuth, Owned, ClientOf
<1>3. CASE state'[c].pending = <<>>
  <2>1. DOMAIN state'[c].pending = {}
    BY <1>3
  <2> QED
    BY <1>1, <1>2, <2>1
<1>4. CASE state'[c].pending = state[c].pending
  BY <1>1, <1>2, <1>4
<1> QED
  BY <1>3, <1>4

(* A datagram of a proved client stays one. *)
LEMMA StaysProved ==
  ASSUME TypeOK, arrived' \in Seq(Inputs),
         \A i \in DOMAIN arrived : i \in DOMAIN arrived' /\ arrived'[i] = arrived[i]
  PROVE  \A id \in DOMAIN arrived :
           Proved(ClientOf(id)) => id \in DOMAIN arrived' /\ Proved(ClientOf(id))'
<1>1. \A c : Proved(c) => Proved(c)'
  BY ProofsGrow
<1>2. \A id \in DOMAIN arrived : ClientOf(id)' = ClientOf(id)
  BY DEF ClientOf
<1> SUFFICES ASSUME NEW id \in DOMAIN arrived, Proved(ClientOf(id))
             PROVE  id \in DOMAIN arrived' /\ Proved(ClientOf(id))'
  OBVIOUS
<1>3. \A c : c = ClientOf(id) => (Proved(c)' <=> Proved(ClientOf(id))')
  BY <1>2 DEF Proved, Sent
<1> QED
  BY <1>1, <1>3

AdmitInv == TableInv /\ AuthInv

LEMMA AdmitInit == Init => AdmitInv
<1> SUFFICES ASSUME Init PROVE AdmitInv
  OBVIOUS
<1>1. TableInv
  BY TableInit
<1>2. StatesAuth
  BY DEF Init, StatesAuth, EmptyState, Owned
<1>3. LoopAuth
  BY DEF Init, LoopAuth, AtRest
<1>4. Enqueued(queue) /\ Enqueued(served)
  BY DEF Init, Enqueued
<1> QED
  BY <1>1, <1>2, <1>3, <1>4 DEF AdmitInv, AuthInv

(* A new datagram decides nothing yet. *)
LEMMA HandlePacketAdmits ==
  ASSUME AdmitInv, NEW d \in Inputs, HandlePacket(d)
  PROVE  AuthInv'
<1>0. /\ TypeOK /\ LoopOK /\ StatesAuth /\ LoopAuth /\ Enqueued(queue) /\ Enqueued(served)
      /\ Arrives(d)
  BY DEF AdmitInv, TableInv, AuthInv, HandlePacket, DropObvious, DropAtLimit, RelayAtLimit,
         NewClient, KnownClient
<1>1. /\ d.client \in Clients /\ NewId \in DOMAIN arrived' /\ arrived' \in Seq(Inputs)
      /\ arrived'[NewId] = d
      /\ \A i \in DOMAIN arrived : i \in DOMAIN arrived' /\ arrived'[i] = arrived[i]
  BY <1>0, ArrivesTyped
<1>2. UNCHANGED <<queue, served>> /\ loop.at = "read"
  BY <1>0 DEF HandlePacket, DropObvious, DropAtLimit, RelayAtLimit, NewClient, KnownClient, Arrives
<1>3. \A id \in DOMAIN arrived :
        Proved(ClientOf(id)) => id \in DOMAIN arrived' /\ Proved(ClientOf(id))'
  BY <1>0, <1>1, StaysProved
<1>4. Enqueued(queue)' /\ Enqueued(served)'
  BY <1>0, <1>2, <1>3 DEF Enqueued
<1>5. StatesAuth'
  <2> SUFFICES ASSUME NEW c \in Clients
               PROVE  /\ state'[c].crypto \subseteq Sent(c)'
                      /\ \A i \in DOMAIN state'[c].pending :
                           /\ state'[c].pending[i] \in DOMAIN arrived'
                           /\ arrived'[state'[c].pending[i]].client = c
                      /\ state'[c].phase = "auth" => Proved(c)'
    BY DEF StatesAuth, Owned, ClientOf
  <2>1. /\ state'[c].crypto \subseteq state[c].crypto
        /\ state'[c].pending \in {state[c].pending, <<>>}
        /\ state'[c].phase = "auth" => state[c].phase = "auth"
    <3>1. state[c] \in States /\ state[d.client] \in States
      BY <1>0, <1>1 DEF TypeOK
    <3>2. CASE UNCHANGED state
      BY <3>2
    <3>3. CASE NewClient(d)
      BY <1>0, <1>1, <3>1, <3>3 DEF NewClient, TypeOK, EmptyState, States
    <3>4. CASE KnownClient(d)
      BY <1>0, <1>1, <3>1, <3>4 DEF KnownClient, TypeOK, States
    <3> QED
      BY <3>2, <3>3, <3>4 DEF HandlePacket, DropObvious, DropAtLimit, RelayAtLimit
  <2> QED
    BY <1>0, <1>1, <2>1, StatesKept
<1>6. LoopAuth'
  <2>1. CASE DropObvious(d) \/ DropAtLimit(d)
    BY <1>2, <2>1 DEF DropObvious, DropAtLimit, LoopAuth
  <2>2. CASE loop' = [at |-> "decide", pkt |-> NewId, flush |-> <<>>, to |-> "none"]
             /\ d.kind # "short"
    BY <1>1, <2>2 DEF LoopAuth, Packet
  <2>3. ASSUME NEW to \in {"relay", "auth"},
               loop' = [at |-> "flush", pkt |-> NewId, flush |-> <<NewId>>, to |-> to],
               to = "auth" => Proved(d.client)
        PROVE  LoopAuth'
    <3>1. Owned(loop.flush, Current)'
      BY <1>1, <2>3 DEF Owned, Current, ClientOf
    <3>2. to = "auth" => Proved(Current)'
      <4>1. Proved(d.client) => Proved(d.client)'
        BY <1>0, <1>1, ProofsGrow
      <4>2. Current' = d.client
        BY <1>1, <2>3 DEF Current, ClientOf
      <4> QED
        BY <2>3, <4>1, <4>2 DEF Proved, Sent
    <3> QED
      BY <2>3, <3>1, <3>2 DEF LoopAuth
  <2>4. CASE RelayAtLimit(d)
    BY <2>3, <2>4 DEF RelayAtLimit
  <2>5. CASE NewClient(d)
    BY <2>2, <2>5 DEF NewClient
  <2>6. CASE KnownClient(d)
    <3>1. CASE Undecided(d.client)
      BY <2>2, <2>6, <3>1 DEF KnownClient
    <3>2. CASE ~Undecided(d.client)
      <4>1. state[d.client] \in States /\ (state[d.client].phase = "auth" => Proved(d.client))
        BY <1>0, <1>1 DEF TypeOK, StatesAuth
      <4>2. state[d.client].phase \in {"relay", "auth"}
        BY <3>2, <4>1 DEF Undecided, States
      <4>3. loop' = [at |-> "flush", pkt |-> NewId, flush |-> <<NewId>>,
                     to |-> state[d.client].phase]
        BY <2>6, <3>2 DEF KnownClient
      <4>4. PICK to \in {"relay", "auth"} : to = state[d.client].phase
        BY <4>2
      <4> QED
        BY <2>3, <4>1, <4>3, <4>4
    <3> QED
      BY <3>1, <3>2
  <2> QED
    BY <2>1, <2>4, <2>5, <2>6 DEF HandlePacket
<1> QED
  BY <1>4, <1>5, <1>6 DEF AuthInv

LEMMA SameProofs ==
  ASSUME UNCHANGED arrived
  PROVE  \A c : Sent(c)' = Sent(c) /\ (Proved(c)' <=> Proved(c))
BY DEF Proved, Sent

LEMMA SameEnqueued ==
  ASSUME UNCHANGED <<arrived, queue, served>>, Enqueued(queue), Enqueued(served)
  PROVE  Enqueued(queue)' /\ Enqueued(served)'
BY DEF Enqueued, ClientOf, Proved, Sent

(* Steps that only take from the states, with no datagram arriving. *)
LEMMA StatesShrink ==
  ASSUME TypeOK, StatesAuth, UNCHANGED arrived,
         \A c \in Clients : /\ state'[c].crypto \subseteq state[c].crypto
                            /\ state'[c].pending \in {state[c].pending, <<>>}
                            /\ state'[c].phase = "auth" => state[c].phase = "auth"
  PROVE  StatesAuth'
<1> SUFFICES ASSUME NEW c \in Clients
             PROVE  /\ state'[c].crypto \subseteq Sent(c)'
                    /\ \A i \in DOMAIN state'[c].pending :
                         /\ state'[c].pending[i] \in DOMAIN arrived'
                         /\ arrived'[state'[c].pending[i]].client = c
                    /\ state'[c].phase = "auth" => Proved(c)'
  BY DEF StatesAuth, Owned, ClientOf
<1>1. arrived' \in Seq(Inputs)
  BY DEF TypeOK
<1> QED
  BY <1>1, StatesKept

(* An AUTH verdict rests on a complete genuine hello, which the datagrams *)
(* of this very client carried.                                            *)
LEMMA StreamSent ==
  ASSUME AdmitInv, loop.at = "decide", Packet.kind = "initial"
  PROVE  Stream \subseteq Sent(Current)
<1>1. Current \in Clients /\ loop.pkt \in DOMAIN arrived
  BY CurrentIsClient DEF AdmitInv, TableInv, LoopOK
<1>2. state[Current].crypto \subseteq Sent(Current)
  BY <1>1 DEF AdmitInv, AuthInv, StatesAuth
<1>3. Packet.frags \subseteq Sent(Current)
  BY <1>1 DEF Sent, Packet, Current, ClientOf
<1> QED
  BY <1>2, <1>3 DEF Stream

LEMMA DecidePendingAdmits ==
  ASSUME AdmitInv, DecidePending
  PROVE  AuthInv'
<1>0. /\ TypeOK /\ LoopOK /\ StatesAuth /\ LoopAuth /\ Enqueued(queue) /\ Enqueued(served)
      /\ TableInv /\ loop.at = "decide"
      /\ UNCHANGED <<arrived, queue, served>>
  BY DEF AdmitInv, TableInv, AuthInv, DecidePending, ForgetEmptyPending, Hold, Decide
<1>1. Current \in Clients /\ loop.pkt \in DOMAIN arrived /\ state[Current] \in States
  BY <1>0, CurrentIsClient DEF LoopOK, TypeOK
<1>2. Enqueued(queue)' /\ Enqueued(served)'
  BY <1>0, SameEnqueued
<1>3. \A c : Sent(c)' = Sent(c) /\ (Proved(c)' <=> Proved(c))
  BY <1>0, SameProofs
<1>4. ASSUME loop' = AtRest PROVE LoopAuth'
  BY <1>4 DEF AtRest, LoopAuth
<1>5. CASE ForgetEmptyPending
  <2>1. \A c \in Clients : state'[c] \in {state[c], EmptyState}
    BY <1>0, <1>5 DEF ForgetEmptyPending, TypeOK
  <2>2. StatesAuth'
    BY <1>0, <2>1, StatesShrink DEF EmptyState
  <2> QED
    BY <1>2, <1>4, <1>5, <2>2 DEF AuthInv, ForgetEmptyPending
<1>6. CASE Hold
  <2>1. CASE Current \notin table
    <3>1. \A c \in Clients : state'[c] \in {state[c], EmptyState}
      BY <1>0, <1>6, <2>1 DEF Hold, TypeOK
    <3>2. StatesAuth'
      BY <1>0, <3>1, StatesShrink DEF EmptyState
    <3> QED
      BY <1>2, <1>4, <1>6, <3>2 DEF AuthInv, Hold
  <2>2. CASE Current \in table
    <3>1. Stream \subseteq Sent(Current)
      BY <1>0, <1>6, VerdictMeans, StreamSent DEF Hold
    <3>2. state' = [state EXCEPT ![Current].pending = Append(@, loop.pkt),
                                 ![Current].bytes = @ + Packet.size,
                                 ![Current].crypto = Stream]
      BY <1>6, <2>2 DEF Hold
    <3>3. /\ \A c \in Clients : c # Current => state'[c] = state[c]
          /\ state'[Current].pending = Append(state[Current].pending, loop.pkt)
          /\ state'[Current].crypto = Stream
          /\ state'[Current].phase = state[Current].phase
      BY <1>0, <1>1, <3>2 DEF TypeOK, States
    <3>4. Owned(state[Current].pending, Current) /\ state[Current].pending \in Seq(Ids)
      BY <1>0, <1>1 DEF StatesAuth, States
    <3>5. /\ arrived[loop.pkt].client = Current
          /\ \A i \in DOMAIN state[Current].pending :
               /\ state[Current].pending[i] \in DOMAIN arrived
               /\ arrived[state[Current].pending[i]].client = Current
      BY <3>4 DEF Owned, ClientOf, Current
    <3>6. loop.pkt \in Ids
      BY <1>0, CurrentIsClient
    <3>7. \A i \in DOMAIN state'[Current].pending :
             /\ state'[Current].pending[i] \in DOMAIN arrived
             /\ arrived[state'[Current].pending[i]].client = Current
      BY <1>1, <3>3, <3>4, <3>5, <3>6, AppendProperties
    <3>8. StatesAuth'
      <4> SUFFICES ASSUME NEW c \in Clients
                   PROVE  /\ state'[c].crypto \subseteq Sent(c)
                          /\ \A i \in DOMAIN state'[c].pending :
                               /\ state'[c].pending[i] \in DOMAIN arrived
                               /\ arrived[state'[c].pending[i]].client = c
                          /\ state'[c].phase = "auth" => Proved(c)
        BY <1>0, <1>3 DEF StatesAuth, Owned, ClientOf
      <4>1. CASE c # Current
        BY <1>0, <3>3, <4>1 DEF StatesAuth, Owned, ClientOf
      <4>2. CASE c = Current
        BY <1>0, <3>1, <3>3, <3>7, <4>2 DEF StatesAuth
      <4> QED
        BY <4>1, <4>2
    <3> QED
      BY <1>2, <1>4, <1>6, <3>8 DEF AuthInv, Hold
  <2> QED
    BY <2>1, <2>2
<1>7. CASE Decide
  <2>1. /\ Verdict \in {"auth", "relay"}
        /\ state' = [state EXCEPT ![Current].phase = Verdict, ![Current].pending = <<>>,
                                  ![Current].bytes = 0, ![Current].crypto = {}]
        /\ loop' = [loop EXCEPT !.at = "flush", !.to = Verdict,
                                !.flush = Append(state[Current].pending, loop.pkt)]
    BY <1>7 DEF Decide
  <2>2. Verdict = "auth" => Proved(Current)
    BY <1>0, <1>1, VerdictMeans, StreamSent, HelloProves
  <2>3. /\ loop'.at = "flush" /\ loop'.pkt = loop.pkt
        /\ loop'.to = Verdict /\ loop'.flush = Append(state[Current].pending, loop.pkt)
    BY <1>0, <2>1 DEF TypeOK, LoopStates
  <2>4. /\ \A c \in Clients : c # Current => state'[c] = state[c]
        /\ state'[Current].pending = <<>> /\ state'[Current].crypto = {}
        /\ state'[Current].phase = Verdict
    BY <1>0, <1>1, <2>1 DEF TypeOK, States
  <2>5. StatesAuth'
    <3> SUFFICES ASSUME NEW c \in Clients
                 PROVE  /\ state'[c].crypto \subseteq Sent(c)
                        /\ \A i \in DOMAIN state'[c].pending :
                             /\ state'[c].pending[i] \in DOMAIN arrived
                             /\ arrived[state'[c].pending[i]].client = c
                        /\ state'[c].phase = "auth" => Proved(c)
      BY <1>0, <1>3 DEF StatesAuth, Owned, ClientOf
    <3>1. CASE c # Current
      BY <1>0, <2>4, <3>1 DEF StatesAuth, Owned, ClientOf
    <3>2. CASE c = Current
      BY <2>2, <2>4, <3>2
    <3> QED
      BY <3>1, <3>2
  <2>6. LoopAuth'
    <3>1. Owned(state[Current].pending, Current) /\ state[Current].pending \in Seq(Ids)
      BY <1>0, <1>1 DEF StatesAuth, States
    <3>2. /\ arrived[loop.pkt].client = Current /\ loop.pkt \in Ids
          /\ \A i \in DOMAIN state[Current].pending :
               /\ state[Current].pending[i] \in DOMAIN arrived
               /\ arrived[state[Current].pending[i]].client = Current
      BY <1>0, <3>1, CurrentIsClient DEF Owned, ClientOf, Current
    <3>3. \A i \in DOMAIN loop'.flush :
             loop'.flush[i] \in DOMAIN arrived /\ arrived[loop'.flush[i]].client = Current
      BY <1>1, <2>3, <3>1, <3>2, AppendProperties
    <3>4. Current' = Current
      BY <1>0, <2>3 DEF Current, ClientOf
    <3>5. Owned(loop.flush, Current)'
      BY <1>0, <3>3, <3>4 DEF Owned, ClientOf
    <3>6. Verdict = "auth" => Proved(Current)'
      BY <1>0, <2>2, <3>4 DEF Proved, Sent
    <3> QED
      BY <2>3, <3>5, <3>6 DEF LoopAuth
  <2> QED
    BY <1>2, <2>5, <2>6 DEF AuthInv
<1> QED
  BY <1>5, <1>6, <1>7 DEF DecidePending

(* Only a flush to AUTH feeds the queue, and it carries a proved client's *)
(* datagrams.                                                              *)
LEMMA FlushAdmits ==
  ASSUME AdmitInv, Flush
  PROVE  AuthInv'
<1>0. /\ TypeOK /\ LoopOK /\ StatesAuth /\ LoopAuth /\ Enqueued(queue) /\ Enqueued(served)
      /\ loop.at = "flush" /\ FlushNext /\ UNCHANGED <<arrived, served>>
  BY DEF AdmitInv, TableInv, AuthInv, Flush, Enqueue, HandToRelay, FlushNext
<1>1. /\ loop.flush \in Seq(Ids) /\ loop.flush # <<>> /\ Current \in Clients
      /\ queue \in Seq(Ids)
  BY <1>0, CurrentIsClient DEF TypeOK, LoopOK, LoopStates
<1>2. \A c : Sent(c)' = Sent(c) /\ (Proved(c)' <=> Proved(c))
  BY <1>0, SameProofs
<1>3. \A i \in DOMAIN loop.flush :
         loop.flush[i] \in DOMAIN arrived /\ arrived[loop.flush[i]].client = Current
  BY <1>0 DEF LoopAuth, Owned, ClientOf
<1>4. StatesAuth'
  <2>1. \A c \in Clients : state'[c] \in {state[c], EmptyState}
    BY <1>0 DEF FlushNext, TypeOK
  <2> QED
    BY <1>0, <2>1, StatesShrink DEF EmptyState
<1>5. LoopAuth'
  <2>1. CASE Len(loop.flush) = 1
    BY <1>0, <2>1 DEF FlushNext, LoopAuth, AtRest
  <2>2. CASE Len(loop.flush) # 1
    <3>1. loop' = [loop EXCEPT !.flush = Tail(@)]
      BY <1>0, <2>2 DEF FlushNext
    <3>2. /\ loop'.at = "flush" /\ loop'.pkt = loop.pkt /\ loop'.to = loop.to
          /\ loop'.flush = Tail(loop.flush)
      BY <1>0, <3>1 DEF TypeOK, LoopStates
    <3>3. \A i \in DOMAIN Tail(loop.flush) :
             i + 1 \in DOMAIN loop.flush /\ Tail(loop.flush)[i] = loop.flush[i + 1]
      BY <1>1, HeadTailProperties, LenProperties
    <3>4. Current' = Current
      BY <1>0, <3>2 DEF Current, ClientOf
    <3>5. Owned(loop.flush, Current)'
      BY <1>0, <1>3, <3>2, <3>3, <3>4 DEF Owned, ClientOf
    <3>6. loop.to = "auth" => Proved(Current)'
      BY <1>0, <3>4 DEF LoopAuth, Proved, Sent
    <3> QED
      BY <3>2, <3>5, <3>6 DEF LoopAuth
  <2> QED
    BY <2>1, <2>2
<1>6. Enqueued(served)'
  BY <1>0, <1>2 DEF Enqueued, ClientOf, Proved, Sent
<1>7. Enqueued(queue)'
  <2>1. CASE queue' = queue
    BY <1>0, <2>1 DEF Enqueued, ClientOf, Proved, Sent
  <2>2. CASE queue' = Append(queue, Head(loop.flush)) /\ loop.to = "auth"
    <3>1. Proved(Current)
      BY <1>0, <2>2 DEF LoopAuth
    <3>2. Head(loop.flush) = loop.flush[1] /\ 1 \in DOMAIN loop.flush
      BY <1>1, LenProperties, EmptySeq
    <3>3. /\ Head(loop.flush) \in Ids /\ Head(loop.flush) \in DOMAIN arrived
          /\ arrived[Head(loop.flush)].client = Current
      BY <1>1, <1>3, <3>2
    <3>4. \A i \in DOMAIN queue : queue[i] \in DOMAIN arrived /\ Proved(arrived[queue[i]].client)
      BY <1>0 DEF Enqueued, ClientOf
    <3>5. \A i \in DOMAIN queue' : i \in DOMAIN queue \/ i = Len(queue) + 1
      BY <1>1, <2>2, <3>3, AppendProperties
    <3>6. /\ \A i \in DOMAIN queue : queue'[i] = queue[i]
          /\ queue'[Len(queue) + 1] = Head(loop.flush)
      BY <1>1, <2>2, <3>3, AppendProperties
    <3>7. \A i \in DOMAIN queue' : queue'[i] \in DOMAIN arrived /\ Proved(arrived[queue'[i]].client)
      BY <3>1, <3>3, <3>4, <3>5, <3>6
    <3> QED
      BY <1>0, <3>7 DEF Enqueued, ClientOf, Proved, Sent
  <2> QED
    BY <2>1, <2>2 DEF Flush, Enqueue, HandToRelay
<1> QED
  BY <1>4, <1>5, <1>6, <1>7 DEF AuthInv

LEMMA OtherAdmits ==
  ASSUME AdmitInv,
         \/ ReadFails \/ QuicReads \/ QuicSeesClosed \/ Reap \/ ReaperExits
         \/ CloseBegins \/ CloseResets \/ CloseSocket \/ Tick \/ UNCHANGED vars
  PROVE  AuthInv'
<1>0. /\ TypeOK /\ StatesAuth /\ LoopAuth /\ Enqueued(queue) /\ Enqueued(served)
      /\ UNCHANGED arrived
  BY DEF AdmitInv, TableInv, AuthInv, ReadFails, QuicReads, QuicSeesClosed, Reap, ReaperExits,
         CloseBegins, CloseResets, CloseSocket, Tick, Age, vars
<1>1. StatesAuth'
  <2>1. ASSUME NEW c \in Clients
        PROVE  /\ state'[c].crypto \subseteq state[c].crypto
               /\ state'[c].pending \in {state[c].pending, <<>>}
               /\ state'[c].phase = "auth" => state[c].phase = "auth"
    <3>1. state[c] \in States
      BY <1>0 DEF TypeOK
    <3>2. CASE UNCHANGED state
      BY <3>2
    <3>3. CASE Reap \/ CloseResets
      <4>1. state'[c] \in {state[c], EmptyState}
        BY <3>3 DEF Reap, CloseResets, Remove
      <4> QED
        BY <4>1 DEF EmptyState
    <3>4. CASE Tick
      BY <3>1, <3>4 DEF Tick, Age, States
    <3> QED
      BY <3>2, <3>3, <3>4 DEF ReadFails, QuicReads, QuicSeesClosed, ReaperExits,
           CloseBegins, CloseSocket, vars
  <2> QED
    BY <1>0, <2>1, StatesShrink
<1>2. LoopAuth'
  <2>1. CASE UNCHANGED loop
    BY <1>0, <2>1 DEF LoopAuth, Packet, Owned, Current, ClientOf, Proved, Sent
  <2>2. CASE ReadFails
    BY <2>2 DEF ReadFails, LoopAuth, AtRest
  <2> QED
    BY <2>1, <2>2 DEF QuicReads, QuicSeesClosed, Reap, ReaperExits, CloseBegins, CloseResets,
         CloseSocket, Tick, Age, vars
<1>3. Enqueued(queue)' /\ Enqueued(served)'
  <2>1. CASE UNCHANGED <<queue, served>>
    BY <1>0, <2>1, SameEnqueued
  <2>2. CASE QuicReads
    <3>1. queue \in Seq(Ids) /\ served \in Seq(Ids) /\ queue # <<>>
      BY <1>0, <2>2 DEF TypeOK, QuicReads
    <3>2. queue' = Tail(queue) /\ served' = Append(served, Head(queue))
      BY <2>2 DEF QuicReads
    <3>3. Head(queue) = queue[1] /\ 1 \in DOMAIN queue /\ Head(queue) \in Ids
      BY <3>1, LenProperties, EmptySeq
    <3>4. /\ \A i \in DOMAIN queue : queue[i] \in DOMAIN arrived /\ Proved(arrived[queue[i]].client)
          /\ \A i \in DOMAIN served : served[i] \in DOMAIN arrived /\ Proved(arrived[served[i]].client)
      BY <1>0 DEF Enqueued, ClientOf
    <3>5. \A i \in DOMAIN queue' : i + 1 \in DOMAIN queue /\ queue'[i] = queue[i + 1]
      BY <3>1, <3>2, HeadTailProperties, LenProperties
    <3>6. /\ \A i \in DOMAIN served' : i \in DOMAIN served \/ i = Len(served) + 1
          /\ \A i \in DOMAIN served : served'[i] = served[i]
          /\ served'[Len(served) + 1] = Head(queue)
      BY <3>1, <3>2, <3>3, AppendProperties
    <3>7. \A i \in DOMAIN queue' : queue'[i] \in DOMAIN arrived /\ Proved(arrived[queue'[i]].client)
      BY <3>4, <3>5
    <3>8. \A i \in DOMAIN served' : served'[i] \in DOMAIN arrived /\ Proved(arrived[served'[i]].client)
      BY <3>3, <3>4, <3>6
    <3> QED
      BY <1>0, <3>7, <3>8 DEF Enqueued, ClientOf, Proved, Sent
  <2> QED
    BY <2>1, <2>2 DEF ReadFails, QuicSeesClosed, Reap, ReaperExits, CloseBegins, CloseResets,
         CloseSocket, Tick, Age, vars
<1> QED
  BY <1>1, <1>2, <1>3 DEF AuthInv

LEMMA AdmitStep ==
  ASSUME AdmitInv, [Next]_vars
  PROVE  AdmitInv'
<1>1. TableInv'
  BY TableStep DEF AdmitInv
<1>2. AuthInv'
  BY HandlePacketAdmits, DecidePendingAdmits, FlushAdmits, OtherAdmits DEF Next
<1> QED
  BY <1>1, <1>2 DEF AdmitInv

(* quic-go is only ever given datagrams of clients that have sent every     *)
(* piece of a ClientHello the verifier accepts, whatever is interleaved,    *)
(* duplicated, reordered or split: flushPending and enqueue admit no other. *)
THEOREM AdmittedProvedHolds == Spec => []AdmittedProved
<1>1. AdmitInv /\ [Next]_vars => AdmitInv'
  BY AdmitStep
<1>2. AdmitInv => AdmittedProved
  BY DEF AdmitInv, AuthInv, Enqueued, AdmittedProved
<1> QED
  BY <1>1, <1>2, AdmitInit, PTL DEF Spec

-----------------------------------------------------------------------------
(* What an undecided flow holds.                                            *)
HoldInv == TableInv /\ HoldBounded

LEMMA HoldStep ==
  ASSUME HoldInv, [Next]_vars
  PROVE  HoldBounded'
<1>0. TypeOK /\ LoopOK /\ HoldBounded
  BY DEF HoldInv, TableInv
<1>1. \A c \in Clients : /\ state[c] \in States /\ Len(state[c].pending) <= MaxPendingPkts
                         /\ state[c].bytes <= MaxPendingBytes
  BY <1>0 DEF TypeOK, HoldBounded
<1>2. Len(EmptyState.pending) <= MaxPendingPkts /\ EmptyState.bytes <= MaxPendingBytes
  BY LimitAssumption DEF EmptyState
<1>3. ASSUME \A c \in Clients : \/ state'[c] = EmptyState
                                \/ /\ state'[c].pending \in {state[c].pending, <<>>}
                                   /\ state'[c].bytes \in {state[c].bytes, 0}
      PROVE  HoldBounded'
  <2>1. ASSUME NEW c \in Clients
        PROVE  Len(state'[c].pending) <= MaxPendingPkts /\ state'[c].bytes <= MaxPendingBytes
    BY <1>1, <1>2, <1>3, LimitAssumption
  <2> QED
    BY <2>1 DEF HoldBounded
<1>4. ASSUME UNCHANGED state PROVE HoldBounded'
  BY <1>3, <1>4
<1>5. ASSUME NEW d \in Inputs, HandlePacket(d) PROVE HoldBounded'
  <2>1. d.client \in Clients /\ state[d.client] \in States
    BY <1>1, InputsAssumption
  <2>2. CASE NewClient(d)
    BY <1>0, <1>3, <2>1, <2>2 DEF NewClient, TypeOK, EmptyState
  <2>3. CASE KnownClient(d)
    BY <1>0, <1>3, <2>1, <2>3 DEF KnownClient, TypeOK, States
  <2> QED
    BY <1>4, <1>5, <2>2, <2>3 DEF HandlePacket, DropObvious, DropAtLimit, RelayAtLimit
<1>6. CASE Flush
  <2>1. \A c \in Clients : state'[c] \in {state[c], EmptyState}
    BY <1>0, <1>6 DEF Flush, Enqueue, HandToRelay, FlushNext, TypeOK
  <2> QED
    BY <1>3, <2>1
<1>7. CASE DecidePending
  <2>1. /\ Current \in Clients /\ loop.pkt \in Ids /\ Packet.size \in Nat
        /\ state[Current] \in States /\ loop.at = "decide"
    BY <1>0, <1>1, <1>7, CurrentIsClient DEF DecidePending, ForgetEmptyPending, Hold, Decide
  <2>2. CASE ForgetEmptyPending
    <3>1. \A c \in Clients : state'[c] \in {state[c], EmptyState}
      BY <1>0, <2>1, <2>2 DEF ForgetEmptyPending, TypeOK
    <3> QED
      BY <1>3, <3>1
  <2>3. CASE Decide
    BY <1>0, <1>3, <2>1, <2>3 DEF Decide, TypeOK, States
  <2>4. CASE Hold
    <3>1. CASE Current \notin table
      <4>1. \A c \in Clients : state'[c] \in {state[c], EmptyState}
        BY <1>0, <2>1, <2>4, <3>1 DEF Hold, TypeOK
      <4> QED
        BY <1>3, <4>1
    <3>2. CASE Current \in table
      <4>1. Verdict = "hold" /\ Packet.kind \in Kinds
        BY <1>0, <2>1, <2>4, CurrentIsClient, InputsAssumption DEF Hold
      <4>2. ~HoldLimit
        BY <4>1 DEF Verdict, Kinds
      <4>3. /\ Len(state[Current].pending) + 1 <= MaxPendingPkts
            /\ state[Current].bytes + Packet.size <= MaxPendingBytes
        BY <2>1, <4>2, LimitAssumption, LenProperties DEF HoldLimit, States
      <4>4. /\ \A c \in Clients \ {Current} : state'[c] = state[c]
            /\ state'[Current].pending = Append(state[Current].pending, loop.pkt)
            /\ state'[Current].bytes = state[Current].bytes + Packet.size
        <5>1. state' = [state EXCEPT ![Current].pending = Append(state[Current].pending, loop.pkt),
                                     ![Current].bytes = state[Current].bytes + Packet.size,
                                     ![Current].crypto = Stream]
          BY <2>4, <3>2 DEF Hold
        <5>2. state \in [Clients -> States]
          BY <1>0 DEF TypeOK
        <5>3. \A c \in Clients \ {Current} : state'[c] = state[c]
          BY <2>1, <5>1, <5>2
        <5>4. state'[Current] = [state[Current] EXCEPT
                                   !.pending = Append(state[Current].pending, loop.pkt),
                                   !.bytes = state[Current].bytes + Packet.size,
                                   !.crypto = Stream]
          BY <2>1, <5>1, <5>2
        <5>5. {"pending", "bytes"} \subseteq DOMAIN state[Current]
          BY <2>1 DEF States
        <5> QED
          BY <5>3, <5>4, <5>5
      <4>5. Len(state'[Current].pending) = Len(state[Current].pending) + 1
        BY <2>1, <4>4, AppendProperties DEF States
      <4> QED
        BY <1>1, <4>3, <4>4, <4>5 DEF HoldBounded
    <3> QED
      BY <3>1, <3>2
  <2> QED
    BY <1>7, <2>2, <2>3, <2>4 DEF DecidePending
<1>8. CASE Reap \/ CloseResets
  <2>1. \A c \in Clients : state'[c] \in {state[c], EmptyState}
    BY <1>8 DEF Reap, CloseResets, Remove
  <2> QED
    BY <1>3, <2>1
<1>9. CASE Tick
  BY <1>1, <1>3, <1>9 DEF Tick, Age, States
<1>10. CASE ReadFails \/ QuicReads \/ QuicSeesClosed \/ ReaperExits \/ CloseBegins \/ CloseSocket
            \/ UNCHANGED vars
  BY <1>4, <1>10 DEF ReadFails, QuicReads, QuicSeesClosed, ReaperExits, CloseBegins, CloseSocket, vars
<1> QED
  BY <1>5, <1>6, <1>7, <1>8, <1>9, <1>10 DEF Next

(* decidePending never lets an undecided client hold more than                *)
(* precheckMaxPendingPkts datagrams or precheckMaxPendingBytes bytes: it       *)
(* decides for the relay before it would.                                     *)
THEOREM HoldBoundedHolds == Spec => []HoldBounded
<1>1. Init => HoldInv
  BY TableInit, LimitAssumption DEF HoldInv, Init, HoldBounded, EmptyState
<1>2. HoldInv /\ [Next]_vars => HoldInv'
  BY HoldStep, TableStep DEF HoldInv
<1>3. HoldInv => HoldBounded
  BY DEF HoldInv
<1> QED
  BY <1>1, <1>2, <1>3, PTL DEF Spec

-----------------------------------------------------------------------------
(* The order of datagrams.                                                  *)

(* A datagram whose fate is settled, and the number of one.                  *)
Names(L) == {l[1] : l \in L}
Marked(S, why) == {<<id, why>> : id \in S}
Disposed == Ran(served) \cup Ran(queue) \cup Ran(relayed) \cup Names(lost)

(* The read loop works on the datagram, or a state holds it.                *)
Tracked(id) == \/ id \in Ran(state[ClientOf(id)].pending)
               \/ loop.at = "decide" /\ id = loop.pkt
               \/ loop.at = "flush" /\ id \in Ran(loop.flush)

Sorted(s) == \A i, j \in DOMAIN s : i < j => s[i] < s[j]

(* Exactly what is still open is held or in the read loop's hands ...        *)
Fates == Disposed \subseteq DOMAIN arrived
Open  == \A id \in DOMAIN arrived : id \notin Disposed <=> Tracked(id)

(* ... in the order it arrived.                                              *)
Lines ==
  /\ \A c \in Clients : Sorted(state[c].pending)
  /\ loop.at = "decide" => \A id \in Ran(state[Current].pending) : id < loop.pkt
  /\ loop.at = "flush" => Sorted(loop.flush) /\ state[Current].pending = <<>>

(* Decided and forgotten states hold nothing.                                *)
Holders == \A c \in Clients : state[c].phase # "pending" \/ (c \notin table /\ ~InHand(c))
                                => state[c].pending = <<>>

(* The flow in hand is undecided until Decide, and then takes its path.      *)
InHandPhase ==
  loop.at \in {"decide", "flush"} /\ Current \in table =>
    state[Current].phase = IF loop.at = "decide" THEN "pending" ELSE loop.to

OrderInv == Fates /\ Open /\ Lines /\ Holders /\ InHandPhase
GateInv  == AdmitInv /\ OrderInv

LEMMA RanOf ==
  ASSUME NEW S, NEW s \in Seq(S)
  PROVE  /\ Ran(s) \subseteq S /\ Ran(<<>>) = {}
         /\ \A x \in S : Ran(Append(s, x)) = Ran(s) \cup {x} /\ Ran(<<x>>) = {x}
         /\ \A t \in Seq(S) : Ran(s \o t) = Ran(s) \cup Ran(t)
<1>1. Ran(s) \subseteq S /\ Ran(<<>>) = {}
  BY ElementOfSeq DEF Ran
<1>2. ASSUME NEW x \in S PROVE Ran(Append(s, x)) = Ran(s) \cup {x} /\ Ran(<<x>>) = {x}
  <2>1. /\ DOMAIN Append(s, x) = DOMAIN s \cup {Len(s) + 1} /\ Append(s, x)[Len(s) + 1] = x
        /\ \A i \in DOMAIN s : Append(s, x)[i] = s[i]
    BY AppendProperties, LenProperties
  <2>2. Ran(<<x>>) = {x}
    BY DEF Ran
  <2> QED
    BY <2>1, <2>2 DEF Ran
<1>3. ASSUME NEW t \in Seq(S) PROVE Ran(s \o t) = Ran(s) \cup Ran(t)
  <2>1. /\ Len(s \o t) = Len(s) + Len(t) /\ s \o t \in Seq(S)
        /\ \A i \in 1..Len(s) : (s \o t)[i] = s[i]
        /\ \A i \in 1..Len(t) : (s \o t)[Len(s) + i] = t[i]
        /\ Len(s) \in Nat /\ Len(t) \in Nat
        /\ DOMAIN s = 1..Len(s) /\ DOMAIN t = 1..Len(t) /\ DOMAIN (s \o t) = 1..Len(s \o t)
    BY ConcatProperties, LenProperties
  <2>2. Ran(s) \cup Ran(t) \subseteq Ran(s \o t)
    <3>1. ASSUME NEW i \in DOMAIN s PROVE s[i] \in Ran(s \o t)
      BY <2>1 DEF Ran
    <3>2. ASSUME NEW i \in DOMAIN t PROVE t[i] \in Ran(s \o t)
      <4>1. Len(s) + i \in DOMAIN (s \o t)
        BY <2>1
      <4> QED
        BY <2>1, <4>1 DEF Ran
    <3> QED
      BY <3>1, <3>2 DEF Ran
  <2>3. Ran(s \o t) \subseteq Ran(s) \cup Ran(t)
    <3>1. ASSUME NEW i \in DOMAIN (s \o t) PROVE (s \o t)[i] \in Ran(s) \cup Ran(t)
      <4>1. CASE i <= Len(s)
        BY <2>1, <4>1 DEF Ran
      <4>2. CASE ~(i <= Len(s))
        <5>1. PICK j \in 1..Len(t) : i = Len(s) + j
          <6>1. i - Len(s) \in 1..Len(t) /\ i = Len(s) + (i - Len(s))
            BY <2>1, <4>2
          <6> QED
            BY <6>1
        <5> QED
          BY <2>1, <5>1 DEF Ran
      <4> QED
        BY <4>1, <4>2
    <3> QED
      BY <3>1 DEF Ran
  <2> QED
    BY <2>2, <2>3
<1> QED
  BY <1>1, <1>2, <1>3

LEMMA SortedEmpty == Sorted(<<>>)
BY DEF Sorted

LEMMA RanTail ==
  ASSUME NEW s \in Seq(Ids), s # <<>>
  PROVE  /\ Ran(s) = {Head(s)} \cup Ran(Tail(s)) /\ Head(s) \in Ids /\ Tail(s) \in Seq(Ids)
         /\ Sorted(s) => Sorted(Tail(s)) /\ \A y \in Ran(Tail(s)) : Head(s) < y
         /\ Len(s) = 1 => Tail(s) = <<>>
<1>1. /\ Len(s) \in Nat \ {0} /\ DOMAIN s = 1..Len(s) /\ Tail(s) \in Seq(Ids) /\ Head(s) = s[1]
      /\ Len(Tail(s)) = Len(s) - 1 /\ DOMAIN Tail(s) = 1..(Len(s) - 1)
      /\ \A i \in 1..(Len(s) - 1) : Tail(s)[i] = s[i + 1]
  BY HeadTailProperties, LenProperties, EmptySeq
<1>2. Head(s) \in Ids
  BY <1>1, ElementOfSeq
<1>3. \A i \in DOMAIN s : i = 1 \/ (i - 1 \in DOMAIN Tail(s) /\ Tail(s)[i - 1] = s[i])
  BY <1>1
<1>4. \A i \in DOMAIN Tail(s) : i + 1 \in DOMAIN s /\ Tail(s)[i] = s[i + 1]
  BY <1>1
<1>5. Ran(s) = {Head(s)} \cup Ran(Tail(s))
  <2>1. \A i \in DOMAIN s : s[i] = Head(s) \/ s[i] \in Ran(Tail(s))
    BY <1>1, <1>3 DEF Ran
  <2>2. \A i \in DOMAIN Tail(s) : Tail(s)[i] \in Ran(s)
    BY <1>4 DEF Ran
  <2>3. Head(s) \in Ran(s)
    BY <1>1 DEF Ran
  <2> QED
    BY <2>1, <2>2, <2>3 DEF Ran
<1>6. ASSUME Sorted(s) PROVE Sorted(Tail(s)) /\ \A y \in Ran(Tail(s)) : Head(s) < y
  <2>1. \A i, j \in DOMAIN Tail(s) : i < j => Tail(s)[i] < Tail(s)[j]
    BY <1>1, <1>4, <1>6 DEF Sorted
  <2>2. \A i \in DOMAIN Tail(s) : Head(s) < Tail(s)[i]
    BY <1>1, <1>4, <1>6 DEF Sorted
  <2> QED
    BY <2>1, <2>2 DEF Sorted, Ran
<1>7. Len(s) = 1 => Tail(s) = <<>>
  BY <1>1, EmptySeq
<1> QED
  BY <1>1, <1>2, <1>5, <1>6, <1>7

LEMMA SortedAppend ==
  ASSUME NEW s \in Seq(Ids), NEW x \in Ids, Sorted(s), \A y \in Ran(s) : y < x
  PROVE  Sorted(Append(s, x))
<1>1. /\ DOMAIN Append(s, x) = 1..(Len(s) + 1) /\ Append(s, x)[Len(s) + 1] = x
      /\ Len(s) \in Nat /\ \A i \in 1..Len(s) : i \in DOMAIN s /\ Append(s, x)[i] = s[i]
  BY AppendProperties, LenProperties
<1>2. \A i \in 1..Len(s) : s[i] < x
  BY <1>1 DEF Ran
<1>3. ASSUME NEW i \in 1..(Len(s) + 1), NEW j \in 1..(Len(s) + 1), i < j
      PROVE  Append(s, x)[i] < Append(s, x)[j]
  <2>1. i \in 1..Len(s)
    BY <1>1, <1>3
  <2>2. CASE j = Len(s) + 1
    BY <1>1, <1>2, <2>1, <2>2
  <2>3. CASE j # Len(s) + 1
    <3>1. j \in 1..Len(s)
      BY <1>1, <2>3
    <3> QED
      BY <1>1, <1>3, <2>1, <3>1 DEF Sorted
  <2> QED
    BY <2>2, <2>3
<1> QED
  BY <1>1, <1>3 DEF Sorted

LEMMA NamesGrow ==
  /\ \A L, x, why : Names(L \cup {<<x, why>>}) = Names(L) \cup {x}
  /\ \A L, S, why : Names(L \cup Marked(S, why)) = Names(L) \cup S
<1>1. ASSUME NEW L, NEW x, NEW why PROVE Names(L \cup {<<x, why>>}) = Names(L) \cup {x}
  <2>1. \A y \in Names(L \cup {<<x, why>>}) : y \in Names(L) \cup {x}
    BY DEF Names
  <2>2. x \in Names(L \cup {<<x, why>>})
    <3>1. <<x, why>> \in L \cup {<<x, why>>} /\ <<x, why>>[1] = x
      OBVIOUS
    <3> QED
      BY <3>1 DEF Names
  <2>3. Names(L) \subseteq Names(L \cup {<<x, why>>})
    BY DEF Names
  <2> QED
    BY <2>1, <2>2, <2>3
<1>2. ASSUME NEW L, NEW S, NEW why
      PROVE  Names(L \cup Marked(S, why)) = Names(L) \cup S
  <2>1. \A x \in Names(L \cup Marked(S, why)) : x \in Names(L) \cup S
    BY DEF Names, Marked
  <2>2. ASSUME NEW x \in S PROVE x \in Names(L \cup Marked(S, why))
    <3>1. <<x, why>> \in L \cup Marked(S, why) /\ <<x, why>>[1] = x
      BY DEF Marked
    <3> QED
      BY <3>1 DEF Names
  <2>3. Names(L) \subseteq Names(L \cup Marked(S, why))
    BY DEF Names, Marked
  <2> QED
    BY <2>1, <2>2, <2>3
<1> QED
  BY <1>1, <1>2

(* What is open is exactly what FlowGate calls waiting.                       *)
LEMMA WaitingIs == TypeOK => Waiting = DOMAIN arrived \ Disposed
BY RanOf DEF TypeOK, Waiting, ToQuic, Disposed, Names

LEMMA WaitingIsNext == TypeOK' => Waiting' = DOMAIN arrived' \ Disposed'
BY RanOf DEF TypeOK, Waiting, ToQuic, Disposed, Names

LEMMA GateFacts ==
  ASSUME GateInv
  PROVE  /\ TypeOK /\ LoopOK /\ TableInv /\ Fates /\ Open /\ Lines /\ Holders /\ InHandPhase
         /\ Ids \subseteq Nat /\ DOMAIN arrived = 1..Len(arrived) /\ DOMAIN arrived \subseteq Ids
         /\ \A c \in Clients :
              /\ state[c] \in States /\ state[c].pending \in Seq(Ids)
              /\ \A id \in Ran(state[c].pending) : id \in DOMAIN arrived /\ arrived[id].client = c
         /\ \A id \in DOMAIN arrived : arrived[id].client \in Clients
<1>1. /\ TypeOK /\ LoopOK /\ TableInv /\ StatesAuth
      /\ Fates /\ Open /\ Lines /\ Holders /\ InHandPhase
  BY DEF GateInv, AdmitInv, TableInv, AuthInv, OrderInv
<1>2. Ids \subseteq Nat /\ DOMAIN arrived = 1..Len(arrived) /\ DOMAIN arrived \subseteq Ids
  BY <1>1, LimitAssumption, LenProperties DEF TypeOK, LoopOK, Ids
<1>3. \A c \in Clients : state[c] \in States /\ state[c].pending \in Seq(Ids)
  BY <1>1 DEF TypeOK, States
<1>4. \A c \in Clients : \A id \in Ran(state[c].pending) :
         id \in DOMAIN arrived /\ arrived[id].client = c
  BY <1>1 DEF StatesAuth, Owned, Ran, ClientOf
<1>5. \A id \in DOMAIN arrived : arrived[id].client \in Clients
  BY <1>1, <1>2, InputsAssumption DEF TypeOK
<1> QED
  BY <1>1, <1>2, <1>3, <1>4, <1>5

(* What the read loop flushes is its client's, and was not yet disposed of.   *)
LEMMA FlushFacts ==
  ASSUME GateInv, loop.at = "flush"
  PROVE  /\ loop.flush \in Seq(Ids) /\ loop.flush # <<>> /\ Current \in Clients
         /\ \A id \in Ran(loop.flush) : id \in DOMAIN arrived /\ arrived[id].client = Current
         /\ Sorted(loop.flush) /\ state[Current].pending = <<>>
<1>1. /\ TypeOK /\ LoopOK /\ Lines /\ LoopAuth
  BY GateFacts DEF GateInv, AdmitInv, AuthInv
<1>2. loop.flush \in Seq(Ids) /\ loop.flush # <<>> /\ Current \in Clients
  BY <1>1, CurrentIsClient DEF TypeOK, LoopOK, LoopStates
<1>3. \A id \in Ran(loop.flush) : id \in DOMAIN arrived /\ arrived[id].client = Current
  BY <1>1 DEF LoopAuth, Owned, Ran, ClientOf
<1> QED
  BY <1>1, <1>2, <1>3 DEF Lines

(* The datagrams X leave: they are disposed of, and nobody holds them now.    *)
LEMMA OpenKept ==
  ASSUME Fates, Open, arrived' = arrived, NEW X \in SUBSET DOMAIN arrived,
         Disposed' = Disposed \cup X,
         \A id \in DOMAIN arrived : Tracked(id)' <=> Tracked(id) /\ id \notin X
  PROVE  Fates' /\ Open'
BY DEF Fates, Open

(* Steps that dispose of nothing, and neither hold nor take a datagram.       *)
LEMMA QuietOrder ==
  ASSUME GateInv, UNCHANGED <<table, arrived>>, Disposed' = Disposed,
         \A c \in Clients : /\ state'[c].pending = state[c].pending
                            /\ state'[c].phase = state[c].phase,
         loop' = loop \/ (loop.at = "read" /\ loop'.at = "exit")
  PROVE  OrderInv'
<1>1. /\ TypeOK /\ LoopOK /\ Fates /\ Open /\ Lines /\ Holders /\ InHandPhase
      /\ \A id \in DOMAIN arrived : arrived[id].client \in Clients
  BY GateFacts
<1>2. ASSUME loop.at \in {"decide", "flush"}
      PROVE  loop' = loop /\ Current' = Current /\ Current \in Clients
  BY <1>1, <1>2, CurrentIsClient DEF Current, ClientOf
<1>3. \A id \in DOMAIN arrived : Tracked(id)' <=> Tracked(id)
  BY <1>1 DEF Tracked, ClientOf
<1>4. Fates' /\ Open'
  BY <1>1, <1>3 DEF Fates, Open
<1>5. Lines'
  BY <1>1, <1>2 DEF Lines
<1>6. \A c : InHand(c)' <=> InHand(c)
  BY <1>2 DEF InHand
<1>7. Holders' /\ InHandPhase'
  BY <1>1, <1>2, <1>6 DEF Holders, InHandPhase
<1> QED
  BY <1>4, <1>5, <1>7 DEF OrderInv


(* A datagram arrives: it is dropped at once, or the read loop takes it.      *)
LEMMA HandlePacketOrder ==
  ASSUME GateInv, NEW d \in Inputs, HandlePacket(d)
  PROVE  OrderInv' /\ Gate!Arrive(d)
<1>0. /\ TypeOK /\ LoopOK /\ TableInv /\ Fates /\ Open /\ Lines /\ Holders /\ InHandPhase
      /\ Ids \subseteq Nat /\ DOMAIN arrived = 1..Len(arrived)
      /\ \A c \in Clients :
              /\ state[c] \in States /\ state[c].pending \in Seq(Ids)
              /\ \A id \in Ran(state[c].pending) : id \in DOMAIN arrived /\ arrived[id].client = c
      /\ \A id \in DOMAIN arrived : arrived[id].client \in Clients
  BY GateFacts
<1>1. Arrives(d) /\ loop.at = "read" /\ UNCHANGED <<queue, served, relayed>>
  BY DEF HandlePacket, DropObvious, DropAtLimit, RelayAtLimit, NewClient, KnownClient, Arrives
<1>2. PICK new \in Ids : new = NewId
  BY <1>0, <1>1, ArrivesTyped
<1>3. /\ d.client \in Clients /\ arrived' = Append(arrived, d)
      /\ arrived'[new] = d /\ new = Len(arrived) + 1 /\ Len(arrived) \in Nat
      /\ \A i \in DOMAIN arrived : arrived'[i] = arrived[i]
  BY <1>0, <1>1, <1>2, ArrivesTyped, LenProperties DEF Arrives, NewId, TypeOK
<1>4. DOMAIN arrived' = DOMAIN arrived \cup {new} /\ new \notin DOMAIN arrived
      /\ \A i \in DOMAIN arrived : i < new
  BY <1>0, <1>3, AppendProperties, LenProperties DEF TypeOK
<1>5. TypeOK'
  BY <1>0, HandlePacketTyped
<1>6. Waiting = DOMAIN arrived \ Disposed /\ Waiting' = DOMAIN arrived' \ Disposed'
  BY <1>0, <1>5, WaitingIs, WaitingIsNext
<1>7. new \notin Ran(state[d.client].pending) /\ new \notin Disposed
  BY <1>0, <1>3, <1>4 DEF Fates
<1>8. ToQuic' = ToQuic
  BY <1>1 DEF ToQuic
<1>9. CASE DropObvious(d) \/ DropAtLimit(d)
  <2>1. UNCHANGED <<table, state, loop>> /\ lost' = lost \cup {<<new, "noninitial">>}
    BY <1>2, <1>9 DEF DropObvious, DropAtLimit
  <2>2. Disposed' = Disposed \cup {new}
    <3>1. Names(lost') = Names(lost) \cup {new}
      BY <2>1, NamesGrow
    <3> QED
      BY <1>1, <3>1 DEF Disposed
  <2>3. Fates'
    BY <1>0, <1>4, <2>2 DEF Fates
  <2>4. \A id \in DOMAIN arrived : Tracked(id)' <=> Tracked(id)
    BY <1>3, <2>1 DEF Tracked, ClientOf
  <2>5. ~Tracked(new)'
    BY <1>1, <1>3, <1>7, <2>1 DEF Tracked, ClientOf
  <2>6. Open'
    BY <1>0, <1>4, <2>2, <2>4, <2>5 DEF Open
  <2>7. Lines' /\ Holders' /\ InHandPhase'
    BY <1>0, <1>1, <2>1 DEF Lines, Holders, InHandPhase, InHand
  <2>8. Waiting' = Waiting
    BY <1>4, <1>6, <1>7, <2>2
  <2> QED
    BY <1>1, <1>3, <1>8, <2>3, <2>6, <2>7, <2>8 DEF OrderInv, Gate!Arrive
<1>10. ASSUME lost' = lost, table \subseteq table', table' \subseteq table \cup {d.client},
              \A c \in Clients : state'[c].pending = state[c].pending,
              \A c \in Clients : state'[c].phase = state[c].phase \/ state[c].pending = <<>>,
              \/ /\ loop'.at = "decide" /\ loop'.pkt = new
                 /\ state'[d.client].phase = "pending"
              \/ /\ loop'.at = "flush" /\ loop'.pkt = new /\ loop'.flush = <<new>>
                 /\ state[d.client].pending = <<>>
                 /\ d.client \in table' => state'[d.client].phase = loop'.to
       PROVE  OrderInv' /\ Gate!Arrive(d)
  <2>1. Disposed' = Disposed
    BY <1>1, <1>10 DEF Disposed
  <2>2. Fates'
    BY <1>0, <1>4, <2>1 DEF Fates
  <2>3. loop'.pkt = new /\ Current' = d.client
    BY <1>3, <1>10 DEF Current, ClientOf
  <2>4. loop'.at = "flush" => Ran(loop'.flush) = {new} /\ Sorted(loop'.flush)
    BY <1>10 DEF Ran, Sorted
  <2>5. \A id \in DOMAIN arrived : Tracked(id)' <=> Tracked(id)
    BY <1>0, <1>1, <1>3, <1>4, <1>10, <2>3, <2>4 DEF Tracked, ClientOf
  <2>6. Tracked(new)'
    BY <1>10, <2>3, <2>4 DEF Tracked
  <2>7. Open'
    BY <1>0, <1>4, <1>7, <2>1, <2>5, <2>6 DEF Open
  <2>8. Lines'
    <3>1. \A c \in Clients : Sorted(state'[c].pending)
      BY <1>0, <1>10 DEF Lines
    <3>2. \A id \in Ran(state'[d.client].pending) : id < new
      BY <1>0, <1>3, <1>4, <1>10
    <3>3. loop'.at = "flush" => state'[d.client].pending = <<>>
      BY <1>3, <1>10
    <3> QED
      BY <2>3, <2>4, <3>1, <3>2, <3>3 DEF Lines
  <2>9. Holders'
    <3>1. \A c \in Clients : c \notin table' /\ ~InHand(c)' => c \notin table /\ ~InHand(c)
      BY <1>1, <1>10 DEF InHand
    <3> QED
      BY <1>0, <1>10, <3>1 DEF Holders
  <2>10. InHandPhase'
    BY <1>10, <2>3 DEF InHandPhase
  <2>11. Waiting' = Waiting \cup {Len(arrived) + 1}
    BY <1>3, <1>4, <1>6, <1>7, <2>1
  <2> QED
    BY <1>1, <1>3, <1>8, <2>2, <2>7, <2>8, <2>9, <2>10, <2>11 DEF OrderInv, Gate!Arrive
<1>11. d.client \notin table => state[d.client].pending = <<>>
  BY <1>0, <1>1, <1>3 DEF Holders, InHand
<1>12. CASE RelayAtLimit(d)
  BY <1>2, <1>10, <1>11, <1>12 DEF RelayAtLimit
<1>13. CASE NewClient(d)
  <2>1. /\ loop'.at = "decide" /\ loop'.pkt = new /\ lost' = lost /\ table' = table \cup {d.client}
        /\ d.client \notin table
    BY <1>2, <1>13 DEF NewClient
  <2>2. /\ \A c \in Clients \ {d.client} : state'[c] = state[c]
        /\ state'[d.client].pending = <<>> /\ state'[d.client].phase = "pending"
    BY <1>0, <1>3, <1>13 DEF NewClient, EmptyState, TypeOK
  <2> QED
    BY <1>10, <1>11, <2>1, <2>2
<1>14. CASE KnownClient(d)
  <2>1. /\ lost' = lost /\ table' = table /\ d.client \in table
        /\ loop' = IF Undecided(d.client)
                   THEN [at |-> "decide", pkt |-> new, flush |-> <<>>, to |-> "none"]
                   ELSE [at |-> "flush", pkt |-> new, flush |-> <<new>>,
                         to |-> state[d.client].phase]
    BY <1>2, <1>14 DEF KnownClient
  <2>2. \A c \in Clients : state'[c].pending = state[c].pending /\ state'[c].phase = state[c].phase
    BY <1>0, <1>3, <1>14 DEF KnownClient, TypeOK, States
  <2>3. ~Undecided(d.client) => state[d.client].pending = <<>>
    BY <1>0, <1>3, <2>1 DEF Undecided, Holders
  <2> QED
    BY <1>3, <1>10, <2>1, <2>2, <2>3 DEF Undecided
<1> QED
  BY <1>9, <1>12, <1>13, <1>14 DEF HandlePacket

(* Forgetting, holding and deciding the datagram in hand.                     *)
LEMMA DecidePendingOrder ==
  ASSUME GateInv, DecidePending
  PROVE  OrderInv'
<1>0. /\ TypeOK /\ LoopOK /\ TableInv /\ Fates /\ Open /\ Lines /\ Holders /\ InHandPhase
      /\ Ids \subseteq Nat /\ DOMAIN arrived = 1..Len(arrived)
      /\ \A c \in Clients :
              /\ state[c] \in States /\ state[c].pending \in Seq(Ids)
              /\ \A id \in Ran(state[c].pending) : id \in DOMAIN arrived /\ arrived[id].client = c
      /\ \A id \in DOMAIN arrived : arrived[id].client \in Clients
  BY GateFacts
<1>1. /\ loop.at = "decide" /\ UNCHANGED <<queue, arrived, served, relayed>>
  BY DEF DecidePending, ForgetEmptyPending, Hold, Decide
<1>2. PICK mine \in Clients : mine = Current
  BY <1>0, <1>1, CurrentIsClient
<1>3. PICK pkt \in Ids : pkt = loop.pkt
  BY <1>0, <1>1, CurrentIsClient
<1>4. /\ pkt \in DOMAIN arrived /\ arrived[pkt].client = mine
      /\ \A id \in Ran(state[mine].pending) : id < pkt
  BY <1>0, <1>1, <1>2, <1>3 DEF LoopOK, Lines, Current, ClientOf
<1>5. /\ pkt \notin Ran(state[mine].pending) /\ Held(mine) = Ran(state[mine].pending)
      /\ Ran(Append(state[mine].pending, pkt)) = Ran(state[mine].pending) \cup {pkt}
      /\ Sorted(Append(state[mine].pending, pkt))
  <2>1. PICK held \in Seq(Ids) : held = state[mine].pending
    BY <1>0
  <2>2. pkt \notin Ran(held)
    BY <1>0, <1>3, <1>4, <2>1
  <2>3. Held(mine) = Ran(held)
    BY <2>1 DEF Held, Ran
  <2>4. Ran(Append(held, pkt)) = Ran(held) \cup {pkt}
    <3>1. /\ DOMAIN Append(held, pkt) = DOMAIN held \cup {Len(held) + 1}
          /\ Append(held, pkt)[Len(held) + 1] = pkt
          /\ \A i \in DOMAIN held : Append(held, pkt)[i] = held[i]
      BY AppendProperties, LenProperties
    <3> QED
      BY <3>1 DEF Ran
  <2>5. Sorted(held)
    BY <1>0, <2>1 DEF Lines
  <2>6. Sorted(Append(held, pkt))
    BY <1>4, <2>1, <2>5, SortedAppend
  <2> QED
    BY <2>1, <2>2, <2>3, <2>4, <2>6
<1>6. \A id \in DOMAIN arrived : Tracked(id) <=> id \in Ran(state[arrived[id].client].pending) \/ id = pkt
  BY <1>1, <1>3 DEF Tracked, ClientOf
<1>7. Ran(<<>>) = {}
  BY DEF Ran
<1>8. mine \in table => state[mine].phase = "pending"
  BY <1>0, <1>1, <1>2 DEF InHandPhase
(* The datagram, and with an orphan what it held, is dropped.                 *)
<1>9. ASSUME loop' = AtRest, NEW X \in SUBSET DOMAIN arrived, pkt \in X,
             Disposed' = Disposed \cup X,
             table' \subseteq table, table \ {mine} \subseteq table',
             \A c \in Clients \ {mine} : state'[c] = state[c],
             \/ X = {pkt} /\ state'[mine] = state[mine] /\ mine \in table'
             \/ /\ X = {pkt} \cup Ran(state[mine].pending)
                /\ state'[mine].pending = <<>> /\ state'[mine].phase = "pending"
      PROVE  OrderInv'
  <2>1. loop'.at = "read"
    BY <1>9 DEF AtRest
  <2>2. \A id \in DOMAIN arrived : Tracked(id)' <=> id \in Ran(state'[arrived[id].client].pending)
    BY <1>1, <2>1 DEF Tracked, ClientOf
  <2>3. ASSUME NEW id \in DOMAIN arrived PROVE Tracked(id)' <=> Tracked(id) /\ id \notin X
    <3>1. CASE arrived[id].client = mine
      BY <1>4, <1>5, <1>6, <1>7, <1>9, <2>2, <3>1
    <3>2. CASE arrived[id].client # mine
      <4>1. id # pkt /\ id \notin Ran(state[mine].pending)
        BY <1>0, <1>4, <3>2
      <4> QED
        BY <1>0, <1>6, <1>9, <2>2, <3>2, <4>1
    <3> QED
      BY <3>1, <3>2
  <2>4. Fates' /\ Open'
    BY <1>0, <1>1, <1>9, <2>3, OpenKept
  <2>5. \A c \in Clients : Sorted(state'[c].pending)
    BY <1>0, <1>9 DEF Lines, Sorted
  <2>6. Lines' /\ InHandPhase'
    BY <2>1, <2>5 DEF Lines, InHandPhase
  <2>7. Holders'
    <3>1. \A c \in Clients \ {mine} : ~InHand(c)
      BY <1>2 DEF InHand
    <3> QED
      BY <1>0, <1>9, <3>1 DEF Holders
  <2> QED
    BY <2>4, <2>6, <2>7 DEF OrderInv
<1>10. CASE ForgetEmptyPending
  <2>1. /\ loop' = AtRest /\ table' \subseteq table /\ table \ {mine} \subseteq table'
        /\ state' = (IF mine \in table' THEN state ELSE [state EXCEPT ![mine] = EmptyState])
    BY <1>2, <1>10 DEF ForgetEmptyPending
  <2>2. /\ \A c \in Clients \ {mine} : state'[c] = state[c]
        /\ mine \in table' => state'[mine] = state[mine]
        /\ mine \notin table' => state'[mine].pending = <<>> /\ state'[mine].phase = "pending"
    BY <1>0, <2>1 DEF TypeOK, EmptyState
  <2>3. CASE mine \in table
    <3>1. Disposed' = Disposed \cup {pkt}
      <4>1. lost' = (lost \cup {<<pkt, "noninitial">>}) \cup Marked({}, "closed")
        BY <1>2, <1>3, <1>10, <2>3 DEF ForgetEmptyPending, Marked
      <4>2. Names(lost \cup {<<pkt, "noninitial">>}) = Names(lost) \cup {pkt}
        BY NamesGrow
      <4>3. Names(lost') = Names(lost \cup {<<pkt, "noninitial">>}) \cup {}
        BY <4>1, NamesGrow
      <4> QED
        BY <1>1, <4>2, <4>3 DEF Disposed
    <3>2. mine \notin table' => state[mine].pending = <<>>
      BY <1>2, <1>10, <2>3 DEF ForgetEmptyPending
    <3>3. CASE mine \in table'
      BY <1>4, <1>9, <2>1, <2>2, <3>1, <3>3
    <3>4. CASE mine \notin table'
      <4>1. {pkt} = {pkt} \cup Ran(state[mine].pending)
        BY <1>7, <3>2, <3>4
      <4> QED
        BY <1>4, <1>9, <2>1, <2>2, <3>1, <3>4, <4>1
    <3> QED
      BY <3>3, <3>4
  <2>4. CASE mine \notin table
    <3>1. PICK X : X = {pkt} \cup Ran(state[mine].pending)
      OBVIOUS
    <3>2. Disposed' = Disposed \cup X
      <4>1. lost' = (lost \cup {<<pkt, "noninitial">>})
                      \cup Marked(Ran(state[mine].pending), "closed")
        BY <1>2, <1>3, <1>5, <1>10, <2>4 DEF ForgetEmptyPending, Marked
      <4>2. Names(lost \cup {<<pkt, "noninitial">>}) = Names(lost) \cup {pkt}
        BY NamesGrow
      <4>3. Names(lost') = Names(lost \cup {<<pkt, "noninitial">>}) \cup Ran(state[mine].pending)
        BY <4>1, NamesGrow
      <4> QED
        BY <1>1, <3>1, <4>2, <4>3 DEF Disposed
    <3>3. X \in SUBSET DOMAIN arrived /\ pkt \in X /\ mine \notin table'
      BY <1>0, <1>4, <2>1, <2>4, <3>1
    <3> QED
      BY <1>9, <2>1, <2>2, <3>1, <3>2, <3>3
  <2> QED
    BY <2>3, <2>4
<1>11. CASE Hold /\ mine \notin table
  <2>1. /\ loop' = AtRest /\ table' = table /\ state' = [state EXCEPT ![mine] = EmptyState]
        /\ lost' = lost \cup Marked(Ran(state[mine].pending) \cup {pkt}, "closed")
    BY <1>2, <1>3, <1>5, <1>11 DEF Hold, Marked
  <2>2. /\ \A c \in Clients \ {mine} : state'[c] = state[c]
        /\ state'[mine].pending = <<>> /\ state'[mine].phase = "pending"
    BY <1>0, <2>1 DEF TypeOK, EmptyState
  <2>3. PICK X : X = Ran(state[mine].pending) \cup {pkt}
    OBVIOUS
  <2>4. Disposed' = Disposed \cup X
    <3>1. Names(lost') = Names(lost) \cup X
      BY <2>1, <2>3, NamesGrow
    <3> QED
      BY <1>1, <3>1 DEF Disposed
  <2>5. X \in SUBSET DOMAIN arrived /\ pkt \in X /\ X = {pkt} \cup Ran(state[mine].pending)
    BY <1>0, <1>4, <2>3
  <2> QED
    BY <1>9, <2>1, <2>2, <2>4, <2>5
<1>12. CASE Hold /\ mine \in table
  <2>1. /\ loop'.at = "read" /\ UNCHANGED <<table, lost>>
        /\ state' = [state EXCEPT ![mine].pending = Append(@, pkt),
                                  ![mine].bytes = @ + Packet.size, ![mine].crypto = Stream]
    BY <1>2, <1>3, <1>12 DEF Hold, AtRest
  <2>2. /\ \A c \in Clients \ {mine} : state'[c] = state[c]
        /\ state'[mine].pending = Append(state[mine].pending, pkt)
        /\ state'[mine].phase = state[mine].phase
    BY <1>0, <2>1 DEF TypeOK, States
  <2>3. /\ Ran(state'[mine].pending) = Ran(state[mine].pending) \cup {pkt}
        /\ Sorted(state'[mine].pending)
    BY <1>5, <2>2
  <2>4. Disposed' = Disposed
    BY <1>1, <2>1 DEF Disposed
  <2>5. ASSUME NEW id \in DOMAIN arrived PROVE Tracked(id)' <=> Tracked(id)
    <3>1. Tracked(id)' <=> id \in Ran(state'[arrived[id].client].pending)
      BY <1>1, <2>1 DEF Tracked, ClientOf
    <3> QED
      BY <1>0, <1>4, <1>6, <2>2, <2>3, <3>1
  <2>6. Fates' /\ Open'
    BY <1>0, <1>1, <2>4, <2>5 DEF Fates, Open
  <2>7. Lines' /\ InHandPhase'
    BY <1>0, <2>1, <2>2, <2>3 DEF Lines, InHandPhase
  <2>8. Holders'
    <3>1. \A c \in Clients \ {mine} : ~InHand(c)
      BY <1>2 DEF InHand
    <3> QED
      BY <1>0, <1>8, <1>12, <2>1, <2>2, <3>1 DEF Holders
  <2> QED
    BY <2>6, <2>7, <2>8 DEF OrderInv
<1>13. CASE Decide
  <2>1. /\ Verdict \in {"auth", "relay"} /\ UNCHANGED <<table, lost>>
        /\ state' = [state EXCEPT ![mine].phase = Verdict, ![mine].pending = <<>>,
                                  ![mine].bytes = 0, ![mine].crypto = {}]
        /\ loop' = [loop EXCEPT !.at = "flush", !.to = Verdict,
                                !.flush = Append(state[mine].pending, pkt)]
    BY <1>2, <1>3, <1>13 DEF Decide
  <2>2. /\ \A c \in Clients \ {mine} : state'[c] = state[c]
        /\ state'[mine].pending = <<>> /\ state'[mine].phase = Verdict
    BY <1>0, <2>1 DEF TypeOK, States
  <2>3. /\ loop'.at = "flush" /\ loop'.pkt = pkt /\ loop'.to = Verdict
        /\ loop'.flush = Append(state[mine].pending, pkt)
    BY <1>0, <1>3, <2>1 DEF TypeOK, LoopStates
  <2>4. Ran(loop'.flush) = Ran(state[mine].pending) \cup {pkt} /\ Sorted(loop'.flush)
    BY <1>5, <2>3
  <2>5. Disposed' = Disposed /\ Current' = mine
    BY <1>1, <1>4, <2>1, <2>3 DEF Disposed, Current, ClientOf
  <2>6. ASSUME NEW id \in DOMAIN arrived PROVE Tracked(id)' <=> Tracked(id)
    <3>1. Tracked(id)' <=> id \in Ran(state'[arrived[id].client].pending)
                           \/ id \in Ran(state[mine].pending) \cup {pkt}
      BY <1>1, <2>3, <2>4 DEF Tracked, ClientOf
    <3>2. CASE arrived[id].client = mine
      BY <1>6, <1>7, <2>2, <3>1, <3>2
    <3>3. CASE arrived[id].client # mine
      BY <1>0, <1>4, <1>6, <2>2, <3>1, <3>3
    <3> QED
      BY <3>2, <3>3
  <2>7. Fates' /\ Open'
    BY <1>0, <1>1, <2>5, <2>6 DEF Fates, Open
  <2>8. Lines' /\ InHandPhase'
    BY <1>0, <2>2, <2>3, <2>4, <2>5, SortedEmpty DEF Lines, InHandPhase
  <2>9. Holders'
    <3>1. \A c \in Clients \ {mine} : ~InHand(c)
      BY <1>2 DEF InHand
    <3> QED
      BY <1>0, <2>1, <2>2, <3>1 DEF Holders
  <2> QED
    BY <2>7, <2>8, <2>9 DEF OrderInv
<1> QED
  BY <1>10, <1>11, <1>12, <1>13 DEF DecidePending

(* The first datagram in hand goes to the queue, to the relay, or is lost.    *)
LEMMA FlushOrder ==
  ASSUME GateInv, Flush
  PROVE  OrderInv'
<1>0. /\ TypeOK /\ LoopOK /\ TableInv /\ Fates /\ Open /\ Lines /\ Holders /\ InHandPhase
      /\ DOMAIN arrived \subseteq Ids /\ Ids \subseteq Nat
      /\ \A id \in DOMAIN arrived : arrived[id].client \in Clients
  BY GateFacts
<1>1. /\ loop.at = "flush" /\ FlushNext /\ UNCHANGED <<table, arrived, served>>
  BY DEF Flush, Enqueue, HandToRelay, FlushNext
<1>2. PICK s \in Seq(Ids) : s = loop.flush
  BY <1>1, FlushFacts
<1>3. PICK mine \in Clients : mine = Current
  BY <1>1, FlushFacts
<1>4. /\ s # <<>> /\ Sorted(s) /\ state[mine].pending = <<>>
      /\ \A id \in Ran(s) : id \in DOMAIN arrived /\ arrived[id].client = mine
  BY <1>1, <1>2, <1>3, FlushFacts
<1>5. PICK h : h = Head(s)
  OBVIOUS
<1>6. /\ Ran(s) = {h} \cup Ran(Tail(s)) /\ h \in Ids /\ Tail(s) \in Seq(Ids)
      /\ Sorted(Tail(s)) /\ \A y \in Ran(Tail(s)) : h < y
      /\ Len(s) = 1 => Tail(s) = <<>>
  BY <1>4, <1>5, RanTail
<1>7. h \notin Ran(Tail(s)) /\ Ran(<<>>) = {}
  BY <1>0, <1>6 DEF Ran
<1>8. Disposed' = Disposed \cup {h}
  <2>1. CASE HandToRelay
    <3>1. relayed \in Seq(Ids) /\ relayed' = Append(relayed, h) /\ UNCHANGED <<queue, lost>>
      BY <1>0, <1>2, <1>5, <2>1 DEF HandToRelay, TypeOK
    <3>2. Ran(relayed') = Ran(relayed) \cup {h}
      <4>1. /\ DOMAIN relayed' = DOMAIN relayed \cup {Len(relayed) + 1} /\ relayed'[Len(relayed) + 1] = h
            /\ \A i \in DOMAIN relayed : relayed'[i] = relayed[i]
        BY <1>6, <3>1, AppendProperties, LenProperties
      <4> QED
        BY <4>1 DEF Ran
    <3> QED
      BY <1>1, <3>1, <3>2 DEF Disposed
  <2>2. CASE Enqueue /\ queue' = Append(queue, h) /\ lost' = lost
    <3>1. queue \in Seq(Ids) /\ UNCHANGED relayed
      BY <1>0, <2>2 DEF Enqueue, TypeOK
    <3>2. Ran(queue') = Ran(queue) \cup {h}
      <4>1. /\ DOMAIN queue' = DOMAIN queue \cup {Len(queue) + 1} /\ queue'[Len(queue) + 1] = h
            /\ \A i \in DOMAIN queue : queue'[i] = queue[i]
        BY <1>6, <2>2, <3>1, AppendProperties, LenProperties
      <4> QED
        BY <4>1 DEF Ran
    <3> QED
      BY <1>1, <2>2, <3>1, <3>2 DEF Disposed
  <2>3. ASSUME NEW why, Enqueue, queue' = queue, lost' = lost \cup {<<h, why>>}
        PROVE  Disposed' = Disposed \cup {h}
    <3>1. UNCHANGED relayed
      BY <2>3 DEF Enqueue
    <3>2. Names(lost') = Names(lost) \cup {h}
      BY <2>3, NamesGrow
    <3> QED
      BY <1>1, <2>3, <3>1, <3>2 DEF Disposed
  <2> QED
    BY <1>2, <1>5, <2>1, <2>2, <2>3 DEF Flush, Enqueue
<1>9. \A c \in Clients : /\ state'[c].pending = state[c].pending
                         /\ state'[c].phase = state[c].phase \/ (state[c].pending = <<>> /\ c = mine)
                         /\ c \in table => state'[c].phase = state[c].phase
  BY <1>0, <1>1, <1>3, <1>4 DEF FlushNext, EmptyState, TypeOK
<1>10. CASE Len(s) = 1
  <2>1. loop'.at = "read"
    BY <1>1, <1>2, <1>10 DEF FlushNext, AtRest
  <2>2. ASSUME NEW id \in DOMAIN arrived PROVE Tracked(id)' <=> Tracked(id) /\ id \notin {h}
    <3>1. Tracked(id)' <=> id \in Ran(state[arrived[id].client].pending)
      BY <1>0, <1>1, <1>9, <2>1 DEF Tracked, ClientOf
    <3>2. Tracked(id) <=> id \in Ran(state[arrived[id].client].pending) \/ id = h
      BY <1>1, <1>2, <1>6, <1>7, <1>10 DEF Tracked, ClientOf
    <3>3. h \notin Ran(state[arrived[h].client].pending)
      BY <1>4, <1>6, <1>7
    <3> QED
      BY <3>1, <3>2, <3>3
  <2>3. Fates' /\ Open'
    <3>1. {h} \in SUBSET DOMAIN arrived
      BY <1>4, <1>6
    <3> QED
      BY <1>0, <1>1, <1>8, <2>2, <3>1, OpenKept
  <2>4. Lines' /\ InHandPhase'
    BY <1>0, <1>9, <2>1 DEF Lines, InHandPhase
  <2>5. Holders'
    <3>1. \A c \in Clients \ {mine} : ~InHand(c)
      BY <1>3 DEF InHand
    <3> QED
      BY <1>0, <1>1, <1>4, <1>9, <3>1 DEF Holders
  <2> QED
    BY <2>3, <2>4, <2>5 DEF OrderInv
<1>11. CASE Len(s) # 1
  <2>1. /\ loop'.at = "flush" /\ loop'.flush = Tail(s) /\ loop'.pkt = loop.pkt /\ loop'.to = loop.to
        /\ state' = state
    BY <1>0, <1>1, <1>2, <1>11 DEF FlushNext, TypeOK, LoopStates
  <2>2. Current' = mine
    BY <1>1, <1>3, <2>1 DEF Current, ClientOf
  <2>3. ASSUME NEW id \in DOMAIN arrived PROVE Tracked(id)' <=> Tracked(id) /\ id \notin {h}
    <3>1. Tracked(id)' <=> id \in Ran(state[arrived[id].client].pending) \/ id \in Ran(Tail(s))
      BY <1>1, <2>1 DEF Tracked, ClientOf
    <3>2. Tracked(id) <=> id \in Ran(state[arrived[id].client].pending) \/ id \in Ran(s)
      BY <1>1, <1>2 DEF Tracked, ClientOf
    <3>3. h \notin Ran(state[arrived[h].client].pending)
      BY <1>4, <1>6, <1>7
    <3> QED
      BY <1>6, <1>7, <3>1, <3>2, <3>3
  <2>4. Fates' /\ Open'
    <3>1. {h} \in SUBSET DOMAIN arrived
      BY <1>4, <1>6
    <3> QED
      BY <1>0, <1>1, <1>8, <2>3, <3>1, OpenKept
  <2>5. Lines' /\ InHandPhase'
    BY <1>0, <1>1, <1>3, <1>4, <1>6, <2>1, <2>2 DEF Lines, InHandPhase
  <2>6. Holders'
    BY <1>0, <1>1, <1>3, <2>1, <2>2 DEF Holders, InHand
  <2> QED
    BY <2>4, <2>5, <2>6 DEF OrderInv
<1> QED
  BY <1>10, <1>11

(* States leave the table; the one in hand keeps what it holds.               *)
LEMMA RemoveOrder ==
  ASSUME GateInv, UNCHANGED <<arrived, queue, served, relayed, loop>>,
         NEW gone \in SUBSET table, NEW why, Remove(gone, why)
  PROVE  OrderInv'
<1>0. /\ TypeOK /\ LoopOK /\ TableInv /\ Fates /\ Open /\ Lines /\ Holders /\ InHandPhase
      /\ \A c \in Clients :
              /\ state[c] \in States /\ state[c].pending \in Seq(Ids)
              /\ \A id \in Ran(state[c].pending) : id \in DOMAIN arrived /\ arrived[id].client = c
      /\ \A id \in DOMAIN arrived : arrived[id].client \in Clients
      /\ gone \subseteq Clients
  BY GateFacts DEF TypeOK
<1>1. PICK out : out = {c \in gone : ~InHand(c)}
  OBVIOUS
<1>2. PICK X : X = UNION {Ran(state[c].pending) : c \in out}
  OBVIOUS
<1>3. \A c \in Clients : state'[c] = IF c \in out THEN EmptyState ELSE state[c]
  BY <1>1 DEF Remove
<1>4. EmptyState.pending = <<>> /\ EmptyState.phase = "pending" /\ Ran(<<>>) = {}
  BY DEF EmptyState, Ran
<1>5. Disposed' = Disposed \cup X
  <2>1. lost' = lost \cup Marked(X, why)
    BY <1>1, <1>2 DEF Remove, Marked, Held, Ran
  <2>2. Names(lost') = Names(lost) \cup X
    BY <2>1, NamesGrow
  <2> QED
    BY <2>2 DEF Disposed
<1>6. /\ X \in SUBSET DOMAIN arrived
      /\ \A id \in DOMAIN arrived :
           id \in X <=> arrived[id].client \in out /\ id \in Ran(state[arrived[id].client].pending)
  BY <1>0, <1>1, <1>2
<1>7. ASSUME loop.at \in {"decide", "flush"}
      PROVE  /\ loop.pkt \in DOMAIN arrived /\ Current \in Clients /\ Current \notin out
             /\ Current' = Current /\ arrived[loop.pkt].client = Current
             /\ loop.at = "flush" => \A id \in Ran(loop.flush) : arrived[id].client = Current
  BY <1>0, <1>1, <1>7, CurrentIsClient, FlushFacts DEF LoopOK, InHand, Current, ClientOf
<1>8. ASSUME NEW id \in DOMAIN arrived PROVE Tracked(id)' <=> Tracked(id) /\ id \notin X
  <2>1. CASE arrived[id].client \in out
    <3>1. ~Tracked(id)'
      BY <1>0, <1>3, <1>4, <1>7, <2>1 DEF Tracked, ClientOf
    <3>2. Tracked(id) => id \in X
      BY <1>6, <1>7, <2>1 DEF Tracked, ClientOf
    <3> QED
      BY <3>1, <3>2
  <2>2. CASE arrived[id].client \notin out
    BY <1>0, <1>3, <1>6, <2>2 DEF Tracked, ClientOf
  <2> QED
    BY <2>1, <2>2
<1>9. Fates' /\ Open'
  BY <1>0, <1>5, <1>6, <1>8, OpenKept
<1>10. Lines'
  BY <1>0, <1>3, <1>4, <1>7, SortedEmpty DEF Lines
<1>11. table' = table \ gone /\ \A c : InHand(c)' <=> InHand(c)
  BY <1>7 DEF Remove, InHand
<1>12. Holders'
  BY <1>0, <1>1, <1>3, <1>4, <1>11 DEF Holders
<1>13. InHandPhase'
  BY <1>0, <1>3, <1>7, <1>11 DEF InHandPhase
<1> QED
  BY <1>9, <1>10, <1>12, <1>13 DEF OrderInv

(* quic-go's reader moves a datagram from one to the other.                   *)
LEMMA QuicReadsOrder ==
  ASSUME TypeOK, QuicReads
  PROVE  ToQuic' = ToQuic /\ Disposed' = Disposed
<1>1. PICK s \in Seq(Ids) : s = served
  BY DEF TypeOK
<1>2. PICK q \in Seq(Ids) : q = queue
  BY DEF TypeOK
<1>3. q # <<>> /\ served' = Append(s, Head(q)) /\ queue' = Tail(q)
  BY <1>1, <1>2 DEF QuicReads
<1>4. /\ Len(q) \in Nat \ {0} /\ DOMAIN q = 1..Len(q) /\ Head(q) = q[1] /\ Head(q) \in Ids
      /\ Tail(q) \in Seq(Ids) /\ Len(Tail(q)) = Len(q) - 1
      /\ \A i \in 1..(Len(q) - 1) : Tail(q)[i] = q[i + 1]
      /\ Len(s) \in Nat
  BY <1>3, HeadTailProperties, LenProperties, EmptySeq, ElementOfSeq
<1>5. PICK a \in Seq(Ids) : a = Append(s, Head(q))
  BY <1>4, AppendProperties
<1>6. PICK t \in Seq(Ids) : t = Tail(q)
  BY <1>4
<1>7. /\ a \in Seq(Ids) /\ Len(a) = Len(s) + 1 /\ a[Len(s) + 1] = q[1]
      /\ \A i \in 1..Len(s) : a[i] = s[i]
  BY <1>4, <1>5, AppendProperties
<1>8. /\ t \in Seq(Ids) /\ Len(t) = Len(q) - 1 /\ \A i \in 1..(Len(q) - 1) : t[i] = q[i + 1]
  BY <1>4, <1>6
<1>9. a \o t = s \o q
  <2>1. /\ s \o q \in Seq(Ids) /\ Len(s \o q) = Len(s) + Len(q)
        /\ \A i \in 1..Len(s) : (s \o q)[i] = s[i]
        /\ \A i \in 1..Len(q) : (s \o q)[Len(s) + i] = q[i]
    BY ConcatProperties
  <2>2. /\ a \o t \in Seq(Ids) /\ Len(a \o t) = Len(a) + Len(t)
        /\ \A i \in 1..Len(a) : (a \o t)[i] = a[i]
        /\ \A i \in 1..Len(t) : (a \o t)[Len(a) + i] = t[i]
    BY ConcatProperties
  <2>3. Len(a \o t) = Len(s \o q)
    BY <1>4, <1>7, <1>8, <2>1, <2>2
  <2>4. ASSUME NEW i \in 1..Len(s \o q) PROVE (a \o t)[i] = (s \o q)[i]
    <3>1. CASE i <= Len(s)
      <4>1. i \in 1..Len(s) /\ i \in 1..Len(a)
        BY <1>4, <1>7, <3>1
      <4> QED
        BY <1>7, <2>1, <2>2, <4>1
    <3>2. CASE i = Len(s) + 1
      <4>1. i \in 1..Len(a) /\ 1 \in 1..Len(q)
        BY <1>4, <1>7, <3>2
      <4> QED
        BY <1>7, <2>1, <2>2, <3>2, <4>1
    <3>3. CASE i > Len(s) + 1
      <4>1. PICK k \in 1..Len(t) : i = Len(a) + k
        <5>1. i - Len(a) \in 1..Len(t) /\ i = Len(a) + (i - Len(a))
          BY <1>4, <1>7, <1>8, <2>1, <3>3
        <5> QED
          BY <5>1
      <4>2. k \in 1..(Len(q) - 1) /\ k + 1 \in 1..Len(q) /\ i = Len(s) + (k + 1)
        BY <1>4, <1>7, <1>8, <4>1
      <4>3. (a \o t)[i] = t[k] /\ t[k] = q[k + 1] /\ (s \o q)[i] = q[k + 1]
        BY <1>8, <2>1, <2>2, <4>1, <4>2
      <4> QED
        BY <4>3
    <3>4. i \in Nat /\ Len(s) \in Nat
      BY <1>4, <2>1
    <3>5. i <= Len(s) \/ i = Len(s) + 1 \/ i > Len(s) + 1
      BY <3>4
    <3> QED
      BY <3>1, <3>2, <3>3, <3>5
  <2> QED
    BY <2>1, <2>2, <2>3, <2>4, SeqEqual
<1>10. ToQuic' = ToQuic
  BY <1>1, <1>2, <1>3, <1>5, <1>6, <1>9 DEF ToQuic
<1>11. /\ Ran(s \o q) = Ran(s) \cup Ran(q) /\ Ran(a \o t) = Ran(a) \cup Ran(t)
  BY <1>7, <1>8, RanOf
<1> QED
  BY <1>1, <1>2, <1>3, <1>5, <1>6, <1>9, <1>10, <1>11 DEF Disposed, QuicReads

LEMMA GateStart == Init => GateInv /\ Gate!Init
<1> SUFFICES ASSUME Init PROVE GateInv /\ Gate!Init
  OBVIOUS
<1>1. AdmitInv
  BY AdmitInit
<1>2. Ran(<<>>) = {} /\ Names({}) = {} /\ <<>> \o <<>> = <<>> /\ DOMAIN <<>> = {}
  BY DEF Ran, Names
<1>3. Fates /\ Open
  BY <1>2 DEF Init, Fates, Open, Disposed
<1>4. Lines /\ Holders /\ InHandPhase
  BY SortedEmpty DEF Init, Lines, Holders, InHandPhase, AtRest, EmptyState
<1>5. Gate!Init
  BY <1>2 DEF Init, Gate!Init, Waiting, ToQuic
<1> QED
  BY <1>1, <1>3, <1>4, <1>5 DEF GateInv, OrderInv

(* Steps that leave the order alone.                                          *)
LEMMA RestOrder ==
  ASSUME GateInv,
         \/ ReadFails \/ QuicReads \/ QuicSeesClosed \/ ReaperExits
         \/ CloseBegins \/ CloseSocket \/ Tick \/ UNCHANGED vars
  PROVE  OrderInv'
<1>0. TypeOK /\ \A c \in Clients : state[c] \in States
  BY GateFacts
<1>1. UNCHANGED <<table, arrived>> /\ Disposed' = Disposed
  <2>1. CASE QuicReads
    BY <1>0, <2>1, QuicReadsOrder DEF QuicReads
  <2>2. CASE UNCHANGED <<table, arrived, queue, served, relayed, lost>>
    BY <2>2 DEF Disposed
  <2> QED
    BY <2>1, <2>2 DEF ReadFails, QuicSeesClosed, ReaperExits, CloseBegins, CloseSocket, Tick, Age, vars
<1>2. ASSUME NEW c \in Clients
      PROVE  state'[c].pending = state[c].pending /\ state'[c].phase = state[c].phase
  <2>1. CASE Tick
    BY <1>0, <2>1 DEF Tick, Age, States
  <2> QED
    BY <2>1 DEF ReadFails, QuicReads, QuicSeesClosed, ReaperExits, CloseBegins, CloseSocket, vars
<1>3. loop' = loop \/ (loop.at = "read" /\ loop'.at = "exit")
  BY DEF ReadFails, QuicReads, QuicSeesClosed, ReaperExits, CloseBegins, CloseSocket, Tick, Age,
         AtRest, vars
<1> QED
  BY <1>1, <1>2, <1>3, QuietOrder

LEMMA GateInvStep ==
  ASSUME GateInv, [Next]_vars
  PROVE  GateInv'
<1>1. AdmitInv'
  BY AdmitStep DEF GateInv
<1>2. CASE Reap
  <2>1. Remove({c \in table : state[c].age > Timeout}, "idle")
        /\ UNCHANGED <<arrived, queue, served, relayed, loop>>
    BY <1>2 DEF Reap
  <2>2. PICK gone \in SUBSET table : gone = {c \in table : state[c].age > Timeout}
    OBVIOUS
  <2>3. Remove(gone, "idle")
    BY <2>1, <2>2 DEF Remove
  <2> QED
    BY <1>1, <2>1, <2>3, RemoveOrder DEF GateInv
<1>3. CASE CloseResets
  <2>1. Remove(table, "closed") /\ UNCHANGED <<arrived, queue, served, relayed, loop>>
    BY <1>3 DEF CloseResets
  <2>2. PICK gone \in SUBSET table : gone = table
    OBVIOUS
  <2>3. Remove(gone, "closed")
    BY <2>1, <2>2 DEF Remove
  <2> QED
    BY <1>1, <2>1, <2>3, RemoveOrder DEF GateInv
<1> QED
  BY <1>1, <1>2, <1>3, HandlePacketOrder, DecidePendingOrder, FlushOrder, RestOrder
     DEF GateInv, Next

(* Whatever becomes lost, FlowGate drops.                                     *)
LEMMA OnlyDrops ==
  ASSUME lost \subseteq lost', UNCHANGED <<arrived, queue, served, relayed>>
  PROVE  [Gate!Next]_Gate!gateVars
<1>1. /\ Waiting' \subseteq Waiting /\ ToQuic' = ToQuic
  BY DEF Waiting, ToQuic, Ran
<1>2. PICK ids \in SUBSET Waiting : ids = Waiting \ Waiting'
  BY <1>1
<1>3. Waiting' = Waiting \ ids
  BY <1>1, <1>2
<1> QED
  BY <1>1, <1>2, <1>3 DEF Gate!Next, Gate!Drop

(* Nothing of its client waits before the datagram that is flushed.           *)
LEMMA FlushPasses ==
  ASSUME GateInv, TypeOK', Flush
  PROVE  [Gate!Next]_Gate!gateVars
<1>0. /\ TypeOK /\ Open /\ DOMAIN arrived \subseteq Ids /\ Ids \subseteq Nat
      /\ LoopAuth
  BY GateFacts DEF GateInv, AdmitInv, AuthInv
<1>1. /\ loop.at = "flush" /\ UNCHANGED <<arrived, served>>
  BY DEF Flush, Enqueue, HandToRelay, FlushNext
<1>2. PICK s \in Seq(Ids) : s = loop.flush
  BY <1>1, FlushFacts
<1>3. PICK mine \in Clients : mine = Current
  BY <1>1, FlushFacts
<1>4. /\ s # <<>> /\ Sorted(s) /\ state[mine].pending = <<>>
      /\ \A id \in Ran(s) : id \in DOMAIN arrived /\ arrived[id].client = mine
  BY <1>1, <1>2, <1>3, FlushFacts
<1>5. PICK h : h = Head(s)
  OBVIOUS
<1>6. /\ Ran(s) = {h} \cup Ran(Tail(s)) /\ h \in Ids /\ \A y \in Ran(Tail(s)) : h < y
  BY <1>4, <1>5, RanTail
<1>7. Waiting = DOMAIN arrived \ Disposed /\ Waiting' = DOMAIN arrived' \ Disposed'
  BY <1>0, WaitingIs, WaitingIsNext
<1>8. h \in Waiting
  BY <1>0, <1>1, <1>2, <1>4, <1>6, <1>7 DEF Open, Tracked
<1>9. ASSUME NEW j \in Waiting, arrived[j].client = arrived[h].client PROVE h <= j
  <2>1. arrived[j].client = mine /\ Ran(<<>>) = {}
    BY <1>4, <1>6, <1>9 DEF Ran
  <2>2. j \in Ran(s)
    <3>1. j \in DOMAIN arrived /\ j \notin Disposed
      BY <1>7, <1>9
    <3>2. Tracked(j)
      BY <1>0, <3>1 DEF Open
    <3>3. state[ClientOf(j)].pending = <<>>
      BY <1>4, <2>1 DEF ClientOf
    <3> QED
      BY <1>1, <1>2, <2>1, <3>2, <3>3 DEF Tracked
  <2>3. h \in Nat /\ j \in Nat /\ (j = h \/ h < j)
    BY <1>0, <1>4, <1>6, <2>2
  <2> QED
    BY <2>3
<1>10. Gate!First(h)
  BY <1>8, <1>9 DEF Gate!First
<1>11. CASE HandToRelay
  <2>1. relayed' = Append(relayed, h) /\ UNCHANGED <<queue, lost>> /\ ToQuic' = ToQuic
    BY <1>1, <1>2, <1>5, <1>11 DEF HandToRelay, ToQuic
  <2>2. Disposed' = Disposed \cup {h}
    <3>1. relayed \in Seq(Ids)
      BY <1>0 DEF TypeOK
    <3>2. /\ DOMAIN relayed' = DOMAIN relayed \cup {Len(relayed) + 1}
          /\ relayed'[Len(relayed) + 1] = h
          /\ \A i \in DOMAIN relayed : relayed'[i] = relayed[i]
      BY <1>6, <2>1, <3>1, AppendProperties, LenProperties
    <3>3. Ran(relayed') = Ran(relayed) \cup {h}
      BY <3>2 DEF Ran
    <3> QED
      BY <1>1, <2>1, <3>3 DEF Disposed
  <2>3. Waiting' = Waiting \ {h}
    BY <1>1, <1>7, <2>2
  <2> QED
    BY <1>1, <1>8, <1>10, <2>1, <2>3 DEF Gate!Next, Gate!Forward
<1>12. CASE Enqueue /\ queue' = Append(queue, h) /\ lost' = lost
  <2>1. UNCHANGED relayed /\ loop.to = "auth"
    BY <1>12 DEF Enqueue
  <2>2. queue \in Seq(Ids) /\ served \in Seq(Ids)
    BY <1>0 DEF TypeOK
  <2>3. ToQuic' = Append(ToQuic, h)
    BY <1>1, <1>6, <1>12, <2>2 DEF ToQuic
  <2>4. Disposed' = Disposed \cup {h}
    <3>1. /\ DOMAIN queue' = DOMAIN queue \cup {Len(queue) + 1} /\ queue'[Len(queue) + 1] = h
          /\ \A i \in DOMAIN queue : queue'[i] = queue[i]
      BY <1>6, <1>12, <2>2, AppendProperties, LenProperties
    <3>2. Ran(queue') = Ran(queue) \cup {h}
      BY <3>1 DEF Ran
    <3> QED
      BY <1>1, <1>12, <2>1, <3>2 DEF Disposed
  <2>5. Waiting' = Waiting \ {h}
    BY <1>1, <1>7, <2>4
  <2>6. Gate!Proved(arrived[h].client)
    <3>1. Proved(mine) /\ arrived[h].client = mine
      BY <1>0, <1>1, <1>3, <1>4, <1>6, <2>1 DEF LoopAuth, Proved, Sent
    <3> QED
      BY <3>1 DEF Proved, Sent, Gate!Proved, Gate!Sent
  <2> QED
    BY <1>1, <1>8, <1>10, <2>1, <2>3, <2>5, <2>6 DEF Gate!Next, Gate!Pass
<1>13. CASE Enqueue /\ queue' = queue /\ lost \subseteq lost'
  BY <1>1, <1>13, OnlyDrops DEF Enqueue
<1> QED
  BY <1>2, <1>5, <1>11, <1>12, <1>13 DEF Flush, Enqueue

LEMMA GateStep ==
  ASSUME GateInv, GateInv', [Next]_vars
  PROVE  [Gate!Next]_Gate!gateVars
<1>0. TypeOK /\ TypeOK'
  BY GateFacts DEF GateInv, AdmitInv, TableInv
<1>1. ASSUME NEW d \in Inputs, HandlePacket(d) PROVE [Gate!Next]_Gate!gateVars
  BY <1>1, HandlePacketOrder DEF Gate!Next
<1>2. CASE DecidePending \/ Reap \/ CloseResets
  BY <1>2, OnlyDrops DEF DecidePending, ForgetEmptyPending, Hold, Decide, Reap, CloseResets, Remove
<1>3. CASE Flush
  BY <1>0, <1>3, FlushPasses
<1>4. CASE QuicReads
  <2>1. ToQuic' = ToQuic /\ UNCHANGED <<arrived, relayed, lost>>
    BY <1>0, <1>4, QuicReadsOrder DEF QuicReads
  <2>2. Waiting' = Waiting
    BY <2>1 DEF Waiting
  <2> QED
    BY <2>1, <2>2 DEF Gate!gateVars
<1>5. CASE ReadFails \/ QuicSeesClosed \/ ReaperExits \/ CloseBegins \/ CloseSocket \/ Tick
           \/ UNCHANGED vars
  BY <1>5, OnlyDrops DEF ReadFails, QuicSeesClosed, ReaperExits, CloseBegins, CloseSocket, Tick, Age, vars
<1> QED
  BY <1>1, <1>2, <1>3, <1>4, <1>5 DEF Next

LEMMA GateInvariant == Spec => []GateInv
<1>1. Init => GateInv
  BY GateStart
<1>2. GateInv /\ [Next]_vars => GateInv'
  BY GateInvStep
<1> QED
  BY <1>1, <1>2, PTL DEF Spec

(* The precheck implements FlowGate: the read loop, the reaper, Close and      *)
(* quic-go's reader together dispose of every datagram once, pass on proved    *)
(* clients only, and let no datagram overtake an earlier one of its client.    *)
THEOREM GateImplemented == Spec => ImplementsGate
<1>1. Init => Gate!Init
  BY GateStart
<1>2. GateInv /\ GateInv' /\ [Next]_vars => [Gate!Next]_Gate!gateVars
  BY GateStep
<1> QED
  BY <1>1, <1>2, GateInvariant, PTL DEF Spec, ImplementsGate, Gate!Spec

-----------------------------------------------------------------------------
(* The path of a flow.                                                      *)
NoneSince(S, c) == \A id \in S : arrived[id].client = c => ~(id >= state[c].born)
Sticky == \A c \in table : /\ state[c].phase # "auth" => NoneSince(Ran(ToQuic), c)
                           /\ state[c].phase # "relay" => NoneSince(Ran(relayed), c)

LEMMA StickyIs == StickyPath <=> Sticky
BY DEF StickyPath, Sticky, NoneSince, Ran, ClientOf

LEMMA ToQuicRan ==
  /\ TypeOK => Ran(ToQuic) = Ran(served) \cup Ran(queue)
  /\ TypeOK' => Ran(ToQuic') = Ran(served') \cup Ran(queue')
BY RanOf DEF TypeOK, ToQuic

(* Steps in which nothing leaves and no state of the table is decided.        *)
LEMMA StickyKept ==
  ASSUME GateInv, Sticky, Ran(ToQuic') = Ran(ToQuic), relayed' = relayed,
         \A id \in DOMAIN arrived : arrived'[id] = arrived[id], table' \subseteq table,
         \A c \in table' : /\ state'[c].born = state[c].born
                           /\ state'[c].phase = state[c].phase \/ state[c].phase = "pending"
  PROVE  Sticky'
<1>1. Ran(ToQuic) \cup Ran(relayed) \subseteq DOMAIN arrived
  BY GateFacts, ToQuicRan DEF Fates, Disposed
<1>2. ASSUME NEW c \in table', NEW S \in SUBSET DOMAIN arrived, NoneSince(S, c)
      PROVE  \A id \in S : arrived'[id].client = c => ~(id >= state'[c].born)
  BY <1>2 DEF NoneSince
<1> QED
  BY <1>1, <1>2 DEF Sticky, NoneSince

LEMMA StickyStep ==
  ASSUME GateInv, GateInv', Sticky, [Next]_vars
  PROVE  Sticky'
<1>0. /\ TypeOK /\ TypeOK' /\ LoopOK /\ InHandPhase /\ Ids \subseteq Nat
      /\ DOMAIN arrived = 1..Len(arrived)
      /\ \A c \in Clients : state[c] \in States
      /\ Ran(ToQuic) \cup Ran(relayed) \subseteq DOMAIN arrived
      /\ Ran(ToQuic) = Ran(served) \cup Ran(queue) /\ Ran(ToQuic') = Ran(served') \cup Ran(queue')
      /\ table \subseteq Clients
  BY GateFacts, ToQuicRan DEF Fates, Disposed, GateInv, AdmitInv, TableInv, TypeOK
<1>1. ASSUME NEW d \in Inputs, HandlePacket(d) PROVE Sticky'
  <2>1. /\ Arrives(d) /\ UNCHANGED <<queue, served, relayed>> /\ d.client \in Clients
    BY <1>1, InputsAssumption
       DEF HandlePacket, DropObvious, DropAtLimit, RelayAtLimit, NewClient, KnownClient
  <2>2. ToQuic' = ToQuic /\ \A id \in DOMAIN arrived : arrived'[id] = arrived[id]
    BY <1>0, <2>1, ArrivesTyped DEF ToQuic
  <2>3. CASE NewClient(d)
    <3>1. table' = table \cup {d.client} /\ d.client \notin table
      BY <2>3 DEF NewClient
    <3>2. /\ \A c \in Clients \ {d.client} : state'[c] = state[c]
          /\ state'[d.client].born = Len(arrived) + 1
      BY <1>0, <2>1, <2>3 DEF NewClient, NewId, EmptyState, TypeOK
    <3>3. \A id \in DOMAIN arrived : ~(id >= Len(arrived) + 1)
      BY <1>0, LenProperties DEF TypeOK
    <3> QED
      BY <1>0, <2>1, <2>2, <3>1, <3>2, <3>3 DEF Sticky, NoneSince
  <2>4. CASE KnownClient(d)
    <3>1. /\ state' = [state EXCEPT ![d.client].age = 0] /\ UNCHANGED <<table, relayed>>
          /\ state \in [Clients -> States]
      BY <1>0, <2>4 DEF KnownClient, TypeOK
    <3>2. ASSUME NEW c \in Clients PROVE state'[c] = state[c] \/ state'[c] = [state[c] EXCEPT !.age = 0]
      BY <3>1
    <3>3. \A k \in States : LET m == [k EXCEPT !.age = 0] IN m.born = k.born /\ m.phase = k.phase
      BY DEF States
    <3>4. ASSUME NEW c \in Clients PROVE state'[c].born = state[c].born /\ state'[c].phase = state[c].phase
      BY <1>0, <3>2, <3>3
    <3> QED
      BY <1>0, <2>1, <2>2, <3>1, <3>4, StickyKept
  <2> QED
    BY <1>1, <2>1, <2>2, <2>3, <2>4, StickyKept DEF HandlePacket, DropObvious, DropAtLimit, RelayAtLimit
<1>2. CASE DecidePending
  <2>1. /\ Current \in Clients /\ ToQuic' = ToQuic /\ UNCHANGED <<relayed, arrived>>
        /\ Current \in table => state[Current].phase = "pending"
    BY <1>0, <1>2, CurrentIsClient
       DEF DecidePending, ForgetEmptyPending, Hold, Decide, ToQuic, InHandPhase
  <2>2. table' \subseteq table /\ \A c \in Clients \ {Current} : state'[c] = state[c]
    BY <1>0, <1>2, <2>1 DEF DecidePending, ForgetEmptyPending, Hold, Decide, TypeOK
  <2>3. Current \in table' => state'[Current].born = state[Current].born
    <3>1. CASE ForgetEmptyPending
      BY <3>1 DEF ForgetEmptyPending
    <3>2. CASE Hold
      BY <1>0, <2>1, <3>2 DEF Hold, TypeOK, States
    <3>3. CASE Decide
      BY <1>0, <2>1, <3>3 DEF Decide, TypeOK, States
    <3> QED
      BY <1>2, <3>1, <3>2, <3>3 DEF DecidePending
  <2> QED
    BY <1>0, <2>1, <2>2, <2>3, StickyKept
<1>3. CASE Flush
  <2>1. /\ loop.at = "flush" /\ UNCHANGED <<arrived, served, table>>
        /\ \A c \in table : state'[c] = state[c]
    BY <1>0, <1>3 DEF Flush, Enqueue, HandToRelay, FlushNext, TypeOK
  <2>2. PICK s \in Seq(Ids) : s = loop.flush
    BY <2>1, FlushFacts
  <2>3. PICK h : h = Head(s)
    OBVIOUS
  <2>4. h \in Ids /\ arrived[h].client = Current
    BY <2>1, <2>2, <2>3, FlushFacts, RanTail
  <2>5. Current \in table => state[Current].phase = loop.to
    BY <1>0, <2>1 DEF InHandPhase
  <2>6. CASE HandToRelay
    <3>1. relayed' = Append(relayed, h) /\ ToQuic' = ToQuic /\ loop.to = "relay"
          /\ relayed \in Seq(Ids)
      BY <1>0, <2>1, <2>2, <2>3, <2>6 DEF HandToRelay, ToQuic, TypeOK
    <3>2. Ran(relayed') = Ran(relayed) \cup {h}
      <4>1. /\ DOMAIN relayed' = DOMAIN relayed \cup {Len(relayed) + 1}
            /\ relayed'[Len(relayed) + 1] = h
            /\ \A i \in DOMAIN relayed : relayed'[i] = relayed[i]
        BY <2>4, <3>1, AppendProperties, LenProperties
      <4> QED
        BY <4>1 DEF Ran
    <3> QED
      BY <2>1, <2>4, <2>5, <3>1, <3>2 DEF Sticky, NoneSince
  <2>7. CASE Enqueue /\ queue' = Append(queue, h)
    <3>1. relayed' = relayed /\ loop.to = "auth" /\ queue \in Seq(Ids)
      BY <1>0, <2>7 DEF Enqueue, TypeOK
    <3>2. Ran(ToQuic') = Ran(ToQuic) \cup {h}
      <4>1. /\ DOMAIN queue' = DOMAIN queue \cup {Len(queue) + 1}
            /\ queue'[Len(queue) + 1] = h
            /\ \A i \in DOMAIN queue : queue'[i] = queue[i]
        BY <2>4, <2>7, <3>1, AppendProperties, LenProperties
      <4>2. Ran(queue') = Ran(queue) \cup {h}
        BY <4>1 DEF Ran
      <4> QED
        BY <1>0, <2>1, <4>2
    <3> QED
      BY <2>1, <2>4, <2>5, <3>1, <3>2 DEF Sticky, NoneSince
  <2>8. CASE Enqueue /\ queue' = queue
    BY <2>1, <2>8, StickyKept DEF Enqueue, ToQuic
  <2> QED
    BY <1>3, <2>2, <2>3, <2>6, <2>7, <2>8 DEF Flush, Enqueue
<1>4. CASE Reap \/ CloseResets
  <2>1. ToQuic' = ToQuic /\ UNCHANGED <<relayed, arrived>> /\ table' \subseteq table
        /\ \A c \in table' : c \in Clients /\ state'[c] = state[c]
    BY <1>0, <1>4 DEF Reap, CloseResets, Remove, ToQuic
  <2> QED
    BY <2>1, StickyKept
<1>5. CASE Tick
  <2>1. ToQuic' = ToQuic /\ UNCHANGED <<relayed, arrived, table>>
        /\ \A c \in Clients : state'[c].born = state[c].born /\ state'[c].phase = state[c].phase
    BY <1>0, <1>5 DEF Tick, Age, ToQuic, States
  <2> QED
    BY <1>0, <2>1, StickyKept
<1>6. CASE ReadFails \/ QuicReads \/ QuicSeesClosed \/ ReaperExits \/ CloseBegins \/ CloseSocket
           \/ UNCHANGED vars
  <2>1. UNCHANGED <<relayed, arrived, table, state>>
    BY <1>6 DEF ReadFails, QuicReads, QuicSeesClosed, ReaperExits, CloseBegins, CloseSocket, vars
  <2>2. ToQuic' = ToQuic
    BY <1>0, <1>6, QuicReadsOrder
       DEF ReadFails, QuicSeesClosed, ReaperExits, CloseBegins, CloseSocket, vars, ToQuic
  <2> QED
    BY <2>1, <2>2, StickyKept
<1> QED
  BY <1>1, <1>2, <1>3, <1>4, <1>5, <1>6 DEF Next

(* While a client's state lives its flow takes one path: handlePacket,         *)
(* decidePending and flushPending never send part of it to quic-go and part    *)
(* to the relay, and send nothing before the decision.                         *)
THEOREM StickyPathHolds == Spec => []StickyPath
<1>1. Init => Sticky
  BY DEF Init, Sticky
<1>2. GateInv /\ GateInv' /\ Sticky /\ [Next]_vars => Sticky'
  BY StickyStep
<1>3. Spec => []Sticky
  BY <1>1, <1>2, GateInvariant, PTL DEF Spec
<1> QED
  BY <1>3, StickyIs, PTL

-----------------------------------------------------------------------------
(* What the relay gets to see.                                             *)

(* The client has sent something shaped like an Initial.                     *)
Shaped(c) == \E i \in DOMAIN arrived :
                arrived[i].client = c /\ arrived[i].kind \notin {"short", "noninitial"}

(* Only such a client's flow is decided for the relay or flushed to it.      *)
ShapedInv == /\ \A c \in Clients : state[c].phase = "relay" => Shaped(c)
             /\ loop.at = "flush" /\ loop.to = "relay" => Shaped(Current)

LEMMA ShapedGrows ==
  ASSUME \A i \in DOMAIN arrived : i \in DOMAIN arrived' /\ arrived'[i] = arrived[i],
         NEW c, Shaped(c)
  PROVE  Shaped(c)'
BY DEF Shaped

LEMMA ArrivedGrows ==
  ASSUME TypeOK, [Next]_vars
  PROVE  \A i \in DOMAIN arrived : i \in DOMAIN arrived' /\ arrived'[i] = arrived[i]
<1>1. ASSUME NEW d \in Inputs, Arrives(d)
      PROVE  \A i \in DOMAIN arrived : i \in DOMAIN arrived' /\ arrived'[i] = arrived[i]
  BY <1>1 DEF Arrives, TypeOK
<1>2. CASE \E d \in Inputs : HandlePacket(d)
  BY <1>1, <1>2 DEF HandlePacket, DropObvious, DropAtLimit, RelayAtLimit, NewClient, KnownClient
<1>3. CASE arrived' = arrived
  BY <1>3
<1> QED
  BY <1>2, <1>3 DEF Next, DecidePending, ForgetEmptyPending, Hold, Decide, Flush, Enqueue,
     HandToRelay, FlushNext, ReadFails, QuicReads, QuicSeesClosed, Reap, ReaperExits,
     CloseBegins, CloseResets, CloseSocket, Tick, Age, vars

LEMMA ShapedStep ==
  ASSUME AdmitInv, ShapedInv, [Next]_vars
  PROVE  ShapedInv'
<1>0. /\ TypeOK /\ LoopOK /\ LoopAuth
      /\ state \in [Clients -> States] /\ \A c \in Clients : state[c] \in States
      /\ EmptyState.phase = "pending" /\ AtRest.at = "read"
  BY DEF AdmitInv, TableInv, AuthInv, TypeOK, EmptyState, AtRest
<1>1. ASSUME NEW d \in Inputs, HandlePacket(d) PROVE ShapedInv'
  <2>1. Arrives(d)
    BY <1>1 DEF HandlePacket, DropObvious, DropAtLimit, RelayAtLimit, NewClient, KnownClient
  <2>2. /\ d.client \in Clients /\ arrived'[NewId] = d /\ NewId \in DOMAIN arrived'
        /\ \A i \in DOMAIN arrived : i \in DOMAIN arrived' /\ arrived'[i] = arrived[i]
    BY <1>0, <2>1, ArrivesTyped
  <2>3. \A c \in Clients : Shaped(c) => Shaped(c)'
    BY <2>2, ShapedGrows
  <2>4. loop.at = "read"
    BY <2>1 DEF Arrives
  <2>5. CASE DropObvious(d) \/ DropAtLimit(d)
    BY <2>3, <2>4, <2>5 DEF ShapedInv, DropObvious, DropAtLimit
  <2>6. CASE RelayAtLimit(d)
    <3>1. /\ loop' = [at |-> "flush", pkt |-> NewId, flush |-> <<NewId>>, to |-> "relay"]
          /\ state' = state /\ d.kind \notin {"short", "noninitial"}
      BY <2>6 DEF RelayAtLimit
    <3>2. Current' = d.client
      BY <2>2, <3>1 DEF Current, ClientOf
    <3>3. Shaped(d.client)'
      BY <2>2, <3>1 DEF Shaped
    <3> QED
      BY <2>3, <3>1, <3>2, <3>3 DEF ShapedInv
  <2>7. CASE NewClient(d)
    <3>1. loop'.at = "decide"
      BY <2>7 DEF NewClient
    <3>2. \A c \in Clients : state'[c].phase = "relay" => state[c].phase = "relay"
      BY <1>0, <2>7 DEF NewClient, EmptyState
    <3> QED
      BY <2>3, <3>1, <3>2 DEF ShapedInv
  <2>8. CASE KnownClient(d)
    <3>1. /\ loop' = IF Undecided(d.client)
                     THEN [at |-> "decide", pkt |-> NewId, flush |-> <<>>, to |-> "none"]
                     ELSE [at |-> "flush", pkt |-> NewId, flush |-> <<NewId>>,
                           to |-> state[d.client].phase]
          /\ state' = [state EXCEPT ![d.client].age = 0]
      BY <2>8 DEF KnownClient
    <3>2. \A c \in Clients : state'[c].phase = state[c].phase
      BY <1>0, <3>1 DEF States
    <3>3. loop'.at = "flush" => Current' = d.client /\ loop'.to = state[d.client].phase
      BY <2>2, <3>1 DEF Current, ClientOf
    <3> QED
      BY <2>2, <2>3, <3>2, <3>3 DEF ShapedInv
  <2> QED
    BY <1>1, <2>5, <2>6, <2>7, <2>8 DEF HandlePacket
<1>2. ASSUME arrived' = arrived, \A c \in Clients : state'[c].phase \in {state[c].phase, "pending"},
             loop'.at = "flush" => /\ loop.at = "flush" /\ loop'.pkt = loop.pkt
                                   /\ loop'.to = loop.to
      PROVE  ShapedInv'
  <2>1. loop'.at = "flush" => Current' = Current
    BY <1>2 DEF Current, ClientOf
  <2> QED
    BY <1>2, <2>1 DEF ShapedInv, Shaped
<1>3. CASE DecidePending
  <2>1. /\ Current \in Clients /\ Packet.client = Current
        /\ Packet \in Inputs
    BY <1>0, <1>3, CurrentIsClient DEF DecidePending, ForgetEmptyPending, Hold, Decide
  <2>2. CASE ForgetEmptyPending
    <3>1. /\ arrived' = arrived /\ loop' = AtRest
          /\ state' = state \/ state' = [state EXCEPT ![Current] = EmptyState]
      BY <2>2 DEF ForgetEmptyPending
    <3> QED
      BY <1>0, <1>2, <3>1
  <2>3. CASE Hold
    <3>1. arrived' = arrived /\ loop' = AtRest
      BY <2>3 DEF Hold
    <3>2. CASE Current \in table
      <4>1. state' = [state EXCEPT ![Current].pending = Append(@, loop.pkt),
                                   ![Current].bytes = @ + Packet.size,
                                   ![Current].crypto = Stream]
        BY <2>3, <3>2 DEF Hold
      <4>2. \A c \in Clients : state'[c].phase = state[c].phase
        BY <1>0, <2>1, <4>1 DEF States
      <4> QED
        BY <1>0, <1>2, <3>1, <4>2
    <3>3. CASE Current \notin table
      <4>1. state' = [state EXCEPT ![Current] = EmptyState]
        BY <2>3, <3>3 DEF Hold
      <4>2. \A c \in Clients : state'[c].phase \in {state[c].phase, "pending"}
        BY <1>0, <2>1, <4>1
      <4> QED
        BY <1>0, <1>2, <3>1, <4>2
    <3> QED
      BY <3>2, <3>3
  <2>4. CASE Decide
    <3>1. /\ arrived' = arrived /\ loop.at = "decide" /\ Verdict \in {"auth", "relay"}
          /\ loop'.pkt = loop.pkt /\ loop'.to = Verdict
      BY <1>0, <2>4 DEF Decide, TypeOK, LoopStates
    <3>2. \A c \in Clients : state'[c].phase = IF c = Current THEN Verdict ELSE state[c].phase
      BY <1>0, <2>1, <2>4 DEF Decide, States
    <3>3. Verdict = "relay" => Packet.kind \notin {"short", "noninitial"}
      <4>1. Packet.kind # "noninitial"
        BY <3>1 DEF Verdict
      <4> QED
        BY <1>0, <3>1, <4>1 DEF LoopAuth
    <3>4. Verdict = "relay" => Shaped(Current)
      <4>1. loop.pkt \in DOMAIN arrived
        BY <1>0, <3>1 DEF LoopOK
      <4> QED
        BY <2>1, <3>3, <4>1 DEF Shaped, Packet
    <3>5. Current' = Current
      BY <3>1 DEF Current, ClientOf
    <3> QED
      BY <3>1, <3>2, <3>4, <3>5 DEF ShapedInv, Shaped
  <2> QED
    BY <1>3, <2>2, <2>3, <2>4 DEF DecidePending
<1>4. CASE Flush
  <2>1. FlushNext /\ loop.at = "flush"
    BY <1>4 DEF Flush, Enqueue, HandToRelay
  <2>2. loop' = AtRest \/ loop' = [loop EXCEPT !.flush = Tail(@)]
    BY <2>1 DEF FlushNext
  <2>3. loop'.at = "flush" => loop'.pkt = loop.pkt /\ loop'.to = loop.to
    BY <1>0, <2>2 DEF TypeOK, LoopStates
  <2>4. \A c \in Clients : state'[c].phase \in {state[c].phase, "pending"}
    BY <1>0, <2>1 DEF FlushNext
  <2> QED
    BY <1>2, <2>1, <2>3, <2>4 DEF FlushNext
<1>5. CASE Reap \/ CloseResets
  <2>1. UNCHANGED <<arrived, loop>>
    BY <1>5 DEF Reap, CloseResets
  <2>2. \A c \in Clients : state'[c].phase \in {state[c].phase, "pending"}
    BY <1>0, <1>5 DEF Reap, CloseResets, Remove
  <2> QED
    BY <1>2, <2>1, <2>2
<1>6. CASE Tick
  <2>1. UNCHANGED <<arrived, loop>>
    BY <1>6 DEF Tick, Age
  <2>2. \A c \in Clients : state'[c].phase \in {state[c].phase, "pending"}
    BY <1>0, <1>6 DEF Tick, Age, States
  <2> QED
    BY <1>2, <2>1, <2>2
<1>7. CASE ReadFails
  BY <1>2, <1>7 DEF ReadFails, AtRest
<1>8. CASE QuicReads \/ QuicSeesClosed \/ ReaperExits \/ CloseBegins \/ CloseSocket
           \/ UNCHANGED vars
  BY <1>2, <1>8 DEF QuicReads, QuicSeesClosed, ReaperExits, CloseBegins, CloseSocket, vars
<1> QED
  BY <1>1, <1>3, <1>4, <1>5, <1>6, <1>7, <1>8 DEF Next

LEMMA ShapedInvariant == Spec => [](AdmitInv /\ ShapedInv)
<1>1. Init => AdmitInv /\ ShapedInv
  BY AdmitInit DEF Init, ShapedInv, EmptyState, AtRest
<1>2. AdmitInv /\ ShapedInv /\ [Next]_vars => AdmitInv' /\ ShapedInv'
  BY AdmitStep, ShapedStep
<1> QED
  BY <1>1, <1>2, PTL DEF Spec

-----------------------------------------------------------------------------
(* The composed listener, where the relay runs beside the precheck.         *)

(* The listener's clock may run for the relay alone: then no state ages.     *)
LEMMA ListenerAges ==
  ASSUME TypeOK, Timely, Age PROVE Tick \/ UNCHANGED vars
<1>1. CASE Aging
  BY <1>1 DEF Tick
<1>2. CASE ~Aging
  <2>1. \A c \in table : ~(state[c].age <= Timeout) /\ ~(state[c].life <= Timeout)
    BY <1>2 DEF Aging
  <2>2. \A c \in Clients : /\ state[c] \in States
                           /\ state[c].age \in 0..(Timeout + 1)
                           /\ state[c].life \in 0..(Timeout + 1)
    BY DEF TypeOK, States
  <2>3. \A c \in table : state[c].age > Timeout /\ state[c].life > Timeout
    BY <2>1, <2>2, LimitAssumption DEF TypeOK
  <2>4. \A c \in table : [state[c] EXCEPT !.age = @, !.life = @] = state[c]
    BY <2>2 DEF TypeOK, States
  <2>5. \A c \in Clients : state'[c] = state[c]
    BY <2>3, <2>4 DEF Age
  <2>6. state' = state
    BY <2>5 DEF Age, TypeOK
  <2> QED
    BY <2>6 DEF Age, vars
<1> QED
  BY <1>1, <1>2

LEMMA ListenerStep ==
  ASSUME TypeOK, [ListenerNext]_listenerVars PROVE [Next]_vars
<1>1. CASE ReadLoopOutsideRelay
  BY <1>1 DEF ReadLoopOutsideRelay, Next, Flush
<1>2. CASE CallRelay
  BY <1>2 DEF CallRelay, Next, Flush
<1>3. CASE Quic \/ PrecheckReaper \/ CloseStarts \/ CloseGoesOn \/ CloseEnds
  BY <1>3 DEF Quic, PrecheckReaper, CloseStarts, CloseGoesOn, CloseEnds, Next
<1>4. CASE ClockTicks
  BY <1>4, ListenerAges DEF ClockTicks, Next
<1>5. CASE InsideRelay \/ RelayReaper \/ CloseRelay \/ Readers \/ UNCHANGED listenerVars
  BY <1>5 DEF InsideRelay, RelayReaper, CloseRelay, Readers, listenerVars, vars
<1> QED
  BY <1>1, <1>2, <1>3, <1>4, <1>5 DEF ListenerNext

(***************************************************************************)
(* PrecheckInListener: every behaviour of the whole packet conn, with the  *)
(* relay called from the read loop, closed from within Close and sharing   *)
(* the clock, is a behaviour of the precheck alone: all that is proved of  *)
(* the precheck holds where the code runs it.                              *)
(***************************************************************************)
THEOREM PrecheckInListener == ListenerSpec => Spec
<1>1. ListenerInit => Init
  BY DEF ListenerInit
<1>2. ListenerInit => TableInv
  BY <1>1, TableInit
<1>3. TableInv /\ [ListenerNext]_listenerVars => TableInv' /\ [Next]_vars
  BY ListenerStep, TableStep DEF TableInv
<1> QED
  BY <1>1, <1>2, <1>3, PTL DEF ListenerSpec, Spec

(***************************************************************************)
(* NoSocketForJunk: the relay gets an entry only for a client that sent    *)
(* something shaped like a QUIC v1 Initial.  The relay asks nothing of its *)
(* own: this rests on ShapedInv, which the precheck keeps whatever becomes *)
(* of the states behind its decisions.                                     *)
(***************************************************************************)
JunkInv == \A c \in flows : Shaped(c)

LEMMA JunkStep ==
  ASSUME AdmitInv, ShapedInv, JunkInv, [ListenerNext]_listenerVars
  PROVE  JunkInv'
<1>0. TypeOK /\ LoopOK
  BY DEF AdmitInv, TableInv
<1>1. [Next]_vars
  BY <1>0, ListenerStep
<1>2. \A i \in DOMAIN arrived : i \in DOMAIN arrived' /\ arrived'[i] = arrived[i]
  BY <1>0, <1>1, ArrivedGrows
<1>3. \A c : Shaped(c) => Shaped(c)'
  BY <1>2, ShapedGrows
<1>4. ASSUME flows' \subseteq flows PROVE JunkInv'
  BY <1>3, <1>4 DEF JunkInv
<1>5. CASE CallRelay
  <2>1. Shaped(Current)
    BY <1>5 DEF CallRelay, HandToRelay, ShapedInv
  <2>2. flows' \subseteq flows \cup {Current}
    BY <1>5 DEF CallRelay, R!RelayClientToDest, R!RelayKnown,
       R!RelayNew, R!RelayRefused
  <2> QED
    BY <1>3, <2>1, <2>2 DEF JunkInv
<1>6. CASE \/ ReadLoopOutsideRelay \/ Quic \/ PrecheckReaper \/ CloseStarts
           \/ CloseGoesOn \/ CloseEnds \/ UNCHANGED listenerVars
  <2>1. flows' = flows
    BY <1>6 DEF ReadLoopOutsideRelay, Quic, PrecheckReaper, CloseStarts,
       CloseGoesOn, CloseEnds, listenerVars, relayVars
  <2> QED
    BY <1>4, <2>1
<1>7. CASE InsideRelay \/ Readers \/ ClockTicks
  <2>1. flows' = flows
    BY <1>7 DEF InsideRelay, R!ReadLoopStep, R!WriteExhausted, R!DialFails, R!Dial,
       R!WriteSucceeds, R!WriteFails, Readers, R!IcmpArrives, R!ReaderStep,
       R!ReadRefused, R!ReadClosed, R!ReplyFails, ClockTicks, R!Age
  <2> QED
    BY <1>4, <2>1
<1>8. CASE RelayReaper \/ CloseRelay
  <2>1. flows' \subseteq flows
    BY <1>8 DEF RelayReaper, R!Reap, R!ReaperExits, CloseRelay, R!CloseBegins,
       R!CloseEntries, R!Remove
  <2> QED
    BY <1>4, <2>1
<1> QED
  BY <1>5, <1>6, <1>7, <1>8 DEF ListenerNext

THEOREM NoSocketForJunkHolds == ListenerSpec => []NoSocketForJunk
<1>1. ListenerInit => JunkInv
  BY DEF ListenerInit, R!Init, JunkInv
<1>2. AdmitInv /\ ShapedInv /\ JunkInv /\ [ListenerNext]_listenerVars => JunkInv'
  BY JunkStep
<1>3. JunkInv => NoSocketForJunk
  BY DEF JunkInv, Shaped, NoSocketForJunk
<1>4. ListenerSpec => []JunkInv
  BY <1>1, <1>2, PrecheckInListener, ShapedInvariant, PTL DEF ListenerSpec
<1> QED
  BY <1>3, <1>4, PTL

(***************************************************************************)
(* RelayInListener: the relay's own specification lets any client's        *)
(* datagram arrive at any time; the listener calls it for the client the   *)
(* read loop is flushing, and lets its clock run while only the precheck   *)
(* ages.  Both are behaviours of the relay alone.                          *)
(***************************************************************************)
EntriesOK == entry = [c \in Clients |-> entry[c]]

LEMMA RelayStep ==
  ASSUME TypeOK, LoopOK, EntriesOK, [ListenerNext]_listenerVars
  PROVE  EntriesOK' /\ [R!Next]_(R!vars)
<1>1. CASE \/ ReadLoopOutsideRelay \/ Quic \/ PrecheckReaper \/ CloseStarts
           \/ CloseGoesOn \/ CloseEnds \/ UNCHANGED listenerVars
  <2>1. UNCHANGED relayVars
    BY <1>1 DEF ReadLoopOutsideRelay, Quic, PrecheckReaper, CloseStarts,
       CloseGoesOn, CloseEnds, listenerVars
  <2> QED
    BY <2>1 DEF EntriesOK, relayVars, R!vars
<1>2. CASE CallRelay
  <2>1. loop.at = "flush" /\ R!RelayClientToDest(Current)
    BY <1>2 DEF CallRelay, HandToRelay
  <2>2. Current \in Clients
    BY <2>1, CurrentIsClient
  <2>3. EntriesOK'
    BY <2>1 DEF EntriesOK, R!RelayClientToDest, R!RelayKnown, R!RelayNew, R!RelayRefused
  <2> QED
    BY <2>1, <2>2, <2>3 DEF R!Next
<1>3. CASE InsideRelay
  <2>1. R!ReadLoopStep
    BY <1>3 DEF InsideRelay
  <2>2. EntriesOK'
    BY <2>1 DEF EntriesOK, R!ReadLoopStep, R!WriteExhausted, R!DialFails, R!Dial,
       R!WriteSucceeds, R!WriteFails
  <2> QED
    BY <2>1, <2>2 DEF R!Next
<1>4. CASE Readers
  <2>1. EntriesOK'
    BY <1>4 DEF Readers, EntriesOK, R!IcmpArrives, R!ReaderStep, R!ReadRefused,
       R!ReadClosed, R!ReplyFails
  <2> QED
    BY <1>4, <2>1 DEF Readers, R!Next
<1>5. CASE RelayReaper \/ CloseRelay
  <2>1. R!Reap \/ R!ReaperExits \/ R!CloseBegins \/ R!CloseEntries
    BY <1>5 DEF RelayReaper, CloseRelay
  <2>2. EntriesOK'
    BY <2>1 DEF EntriesOK, R!Reap, R!ReaperExits, R!CloseBegins, R!CloseEntries,
       R!Remove
  <2> QED
    BY <2>1, <2>2 DEF R!Next
<1>6. CASE ClockTicks
  <2>1. ~panicked /\ R!Timely /\ R!Age
    BY <1>6 DEF ClockTicks
  <2>2. EntriesOK'
    BY <2>1 DEF EntriesOK, R!Age
  <2>3. CASE R!Aging
    BY <2>1, <2>2, <2>3 DEF R!Tick, R!Next
  <2>4. CASE ~R!Aging
    <3>1. entry' = entry
      BY <2>1, <2>4 DEF EntriesOK, R!Age, R!Aging
    <3> QED
      BY <2>1, <2>2, <3>1 DEF R!Age, R!vars
  <2> QED
    BY <2>3, <2>4
<1> QED
  BY <1>1, <1>2, <1>3, <1>4, <1>5, <1>6 DEF ListenerNext

THEOREM RelayInListener == ListenerSpec => R!Spec
<1>1. ListenerInit => R!Init /\ EntriesOK
  BY DEF ListenerInit, R!Init, EntriesOK
<1>2. AdmitInv /\ EntriesOK /\ [ListenerNext]_listenerVars => EntriesOK' /\ [R!Next]_(R!vars)
  BY RelayStep DEF AdmitInv, TableInv
<1> QED
  BY <1>1, <1>2, PrecheckInListener, ShapedInvariant, PTL DEF ListenerSpec, R!Spec

(* What is promised of the precheck alone is kept by the packet conn as a     *)
(* whole (realityPrecheckPacketConn), with the relay called from the middle of *)
(* flushPending and closed from the middle of Close.                           *)
THEOREM ListenerKeepsGate ==
  ListenerSpec => /\ ImplementsGate
                  /\ [](AdmittedProved /\ HoldBounded /\ StickyPath)
                  /\ [](TypeOK /\ PerIPCounts /\ WithinLimits)
BY PrecheckInListener, GateImplemented, AdmittedProvedHolds, HoldBoundedHolds, StickyPathHolds,
   TypeCorrect, CountsCorrect, PTL

-----------------------------------------------------------------------------
(* The reassembler: the list of ranges add keeps stands for a partial function *)
(* from positions to bytes, and add takes lists that stand for something to   *)
(* lists that stand for it together with the fragment.  The list is            *)
(* determined by the function, so it is the canonical one.                    *)

(* A range of the list add keeps: an offset and its bytes; and the positions *)
(* it holds.                                                                 *)
ByteRanges == [off : Nat, data : Seq(CryptoBytes)]
Holds(r, p) == r.off <= p /\ p < End(r)

(* A list of ranges stands for a partial function: sorted, with a gap after *)
(* each range, and every byte in its place.                                  *)
Represents(rs, f) ==
  /\ rs \in Seq(ByteRanges)
  /\ \A i \in DOMAIN rs : rs[i].data # <<>>
  /\ \A i, j \in DOMAIN rs : i < j => End(rs[i]) < rs[j].off
  /\ DOMAIN f = {p \in Nat : \E i \in DOMAIN rs : Holds(rs[i], p)}
  /\ \A i \in DOMAIN rs : \A p \in Nat : Holds(rs[i], p) => f[p] = ByteAt(rs[i], p)

(* Every set of numbers has a least element, and a bounded one a greatest. *)
LEMMA LeastNumber ==
  ASSUME NEW T \in SUBSET Nat, T # {}
  PROVE  \E n \in T : \A k \in T : n <= k
<1>1. PICK n \in T : \A k \in T : ~(<<k, n>> \in OpToRel(<, Nat))
  BY NatLessThanWellFounded, WFMin
<1>2. ASSUME NEW k \in T PROVE n <= k
  <2>1. k \in Nat /\ n \in Nat /\ <<k, n>> \in Nat \X Nat
    OBVIOUS
  <2>2. OpToRel(<, Nat) = {ss \in Nat \X Nat : ss[1] < ss[2]}
    BY DEF OpToRel
  <2>3. <<k, n>> \in {ss \in Nat \X Nat : ss[1] < ss[2]} <=> k < n
    BY <2>1
  <2>4. ~(k < n)
    BY <1>1, <2>2, <2>3
  <2> QED
    BY <2>1, <2>4
<1> QED
  BY <1>2

LEMMA GreatestNumber ==
  ASSUME NEW T \in SUBSET Nat, T # {}, NEW b \in Nat, \A k \in T : k <= b
  PROVE  \E n \in T : \A k \in T : k <= n
<1> DEFINE U == {u \in Nat : \A k \in T : k <= u}
<1>1. PICK u \in U : \A v \in U : u <= v
  <2>1. U \in SUBSET Nat /\ b \in U
    OBVIOUS
  <2> HIDE DEF U
  <2> QED
    BY <2>1, LeastNumber
<1>2. u \in Nat /\ \A k \in T : k <= u
  OBVIOUS
<1>3. SUFFICES ASSUME u \notin T PROVE FALSE
  BY <1>2
<1>4. \A k \in T : k <= u - 1
  BY <1>2, <1>3
<1>5. u - 1 \in Nat
  <2>1. PICK k \in T : TRUE
    OBVIOUS
  <2>2. k \in Nat /\ k <= u - 1
    BY <1>4, <2>1
  <2> QED
    BY <1>2, <2>2
<1>6. u - 1 \in U
  BY <1>4, <1>5
<1> QED
  BY <1>1, <1>2, <1>6

(* Min and Max, of which add computes several, are what they are called. *)
LEMMA MinIs ==
  ASSUME NEW S \in SUBSET Int, NEW m \in S, \A y \in S : m <= y
  PROVE  Min(S) = m
<1>1. Min(S) \in S /\ \A y \in S : Min(S) <= y
  BY DEF Min
<1>2. Min(S) \in Int /\ Min(S) <= m /\ m <= Min(S)
  BY <1>1
<1> QED
  BY <1>2

LEMMA MaxIs ==
  ASSUME NEW S \in SUBSET Int, NEW m \in S, \A y \in S : y <= m
  PROVE  Max(S) = m
<1>1. Max(S) \in S /\ \A y \in S : Max(S) >= y
  <2>1. \A y \in S : m >= y
    OBVIOUS
  <2> QED
    BY <2>1 DEF Max
<1>2. Max(S) \in Int /\ Max(S) <= m /\ m <= Max(S)
  BY <1>1
<1> QED
  BY <1>2

(* A range is an interval of positions with a byte at each. *)
LEMMA RangeFacts ==
  ASSUME NEW r \in ByteRanges
  PROVE  /\ r.off \in Nat /\ Len(r.data) \in Nat /\ End(r) \in Nat /\ End(r) = r.off + Len(r.data)
         /\ r.data \in Seq(CryptoBytes) /\ DOMAIN r.data = 1..Len(r.data)
         /\ r.data # <<>> <=> Len(r.data) > 0
         /\ r.data # <<>> <=> r.off < End(r)
         /\ \A p \in Nat : Holds(r, p) =>
              p - r.off + 1 \in DOMAIN r.data /\ ByteAt(r, p) \in CryptoBytes
<1>1. r.off \in Nat /\ r.data \in Seq(CryptoBytes)
  BY DEF ByteRanges
<1>2. Len(r.data) \in Nat /\ DOMAIN r.data = 1..Len(r.data) /\ (r.data = <<>> <=> Len(r.data) = 0)
  BY <1>1, LenProperties, EmptySeq
<1>3. End(r) \in Nat /\ End(r) = r.off + Len(r.data)
  BY <1>1, <1>2 DEF End
<1>4. ASSUME NEW p \in Nat, Holds(r, p)
      PROVE p - r.off + 1 \in DOMAIN r.data /\ ByteAt(r, p) \in CryptoBytes
  <2>1. p - r.off + 1 \in DOMAIN r.data
    BY <1>1, <1>2, <1>3, <1>4 DEF Holds
  <2> QED
    BY <1>1, <1>2, <2>1, ElementOfSeq DEF ByteAt
<1> QED
  BY <1>1, <1>2, <1>3, <1>4

(* What a list that stands for f looks like, range by range.                 *)
LEMMA ListFacts ==
  ASSUME NEW rs, NEW f, Represents(rs, f)
  PROVE  /\ rs \in Seq(ByteRanges) /\ Len(rs) \in Nat /\ DOMAIN rs = 1..Len(rs)
         /\ DOMAIN f \subseteq Nat
         /\ \A i \in DOMAIN rs : /\ rs[i] \in ByteRanges /\ i \in Nat
                                 /\ rs[i].off \in Nat /\ End(rs[i]) \in Nat /\ rs[i].off < End(rs[i])
                                 /\ rs[i].off \in DOMAIN f /\ End(rs[i]) - 1 \in DOMAIN f
                                 /\ \A p \in rs[i].off..End(rs[i]) - 1 : p \in DOMAIN f /\ p \in Nat
                                 /\ End(rs[i]) \notin DOMAIN f
                                 /\ rs[i].off - 1 \notin DOMAIN f
         /\ \A i, j \in DOMAIN rs : i < j => End(rs[i]) < rs[j].off
         /\ \A p \in DOMAIN f : \E i \in DOMAIN rs : Holds(rs[i], p)
         /\ \A i \in DOMAIN rs : \A p \in Nat :
              Holds(rs[i], p) => p \in DOMAIN f /\ f[p] = ByteAt(rs[i], p)
<1>1. rs \in Seq(ByteRanges) /\ Len(rs) \in Nat /\ DOMAIN rs = 1..Len(rs)
  BY LenProperties DEF Represents
<1>2. ASSUME NEW i \in DOMAIN rs
      PROVE  /\ rs[i] \in ByteRanges /\ i \in Nat
             /\ rs[i].off \in Nat /\ End(rs[i]) \in Nat /\ rs[i].off < End(rs[i])
  <2>1. rs[i] \in ByteRanges /\ i \in Nat
    BY <1>1, ElementOfSeq
  <2>2. rs[i].data # <<>>
    BY DEF Represents
  <2> QED
    BY <2>1, <2>2, RangeFacts
<1>3. /\ DOMAIN f \subseteq Nat
      /\ \A i, j \in DOMAIN rs : i < j => End(rs[i]) < rs[j].off
      /\ \A p \in DOMAIN f : \E i \in DOMAIN rs : Holds(rs[i], p)
      /\ \A i \in DOMAIN rs : \A p \in Nat :
           Holds(rs[i], p) => p \in DOMAIN f /\ f[p] = ByteAt(rs[i], p)
  BY DEF Represents
<1>4. ASSUME NEW i \in DOMAIN rs, NEW p \in rs[i].off..End(rs[i]) - 1
      PROVE  p \in DOMAIN f /\ p \in Nat
  <2>1. p \in Nat /\ Holds(rs[i], p)
    BY <1>2 DEF Holds
  <2> QED
    BY <1>3, <2>1
<1>5. ASSUME NEW i \in DOMAIN rs
      PROVE  rs[i].off \in DOMAIN f /\ End(rs[i]) - 1 \in DOMAIN f
  <2>1. rs[i].off \in rs[i].off..End(rs[i]) - 1 /\ End(rs[i]) - 1 \in rs[i].off..End(rs[i]) - 1
    BY <1>2
  <2> QED
    BY <1>4, <2>1
<1>6. ASSUME NEW i \in DOMAIN rs, NEW p \in {End(rs[i]), rs[i].off - 1}
      PROVE  p \notin DOMAIN f
  <2>1. SUFFICES ASSUME p \in DOMAIN f PROVE FALSE
    OBVIOUS
  <2>2. PICK j \in DOMAIN rs : Holds(rs[j], p)
    BY <1>3, <2>1
  <2>3. /\ rs[i].off \in Nat /\ End(rs[i]) \in Nat /\ rs[i].off < End(rs[i])
        /\ rs[j].off \in Nat /\ End(rs[j]) \in Nat /\ rs[j].off <= p /\ p < End(rs[j])
        /\ i \in Nat /\ j \in Nat
    BY <1>2, <2>2 DEF Holds
  <2>4. (i < j => End(rs[i]) < rs[j].off) /\ (j < i => End(rs[j]) < rs[i].off)
    BY <1>3
  <2> QED
    BY <2>3, <2>4
<1> QED
  BY <1>1, <1>2, <1>3, <1>4, <1>5, <1>6

(* The elements of S below p, and their number as the rank of p.              *)
Below(S, p) == {y \in S : y < p}

(* The rank grows with the position, and every rank below the number of      *)
(* elements is taken.                                                        *)
LEMMA RankOrder ==
  ASSUME NEW S, \A y \in S : y \in Nat, IsFiniteSet(S), NEW p \in Nat, NEW q \in Nat
  PROVE  /\ IsFiniteSet(Below(S, p)) /\ Cardinality(Below(S, p)) \in Nat
         /\ p <= q => Cardinality(Below(S, p)) <= Cardinality(Below(S, q))
         /\ p \in S /\ p < q => Cardinality(Below(S, p)) < Cardinality(Below(S, q))
<1>1. Below(S, p) \subseteq S /\ Below(S, q) \subseteq S
  BY DEF Below
<1>2. /\ IsFiniteSet(Below(S, p)) /\ Cardinality(Below(S, p)) \in Nat
      /\ IsFiniteSet(Below(S, q)) /\ Cardinality(Below(S, q)) \in Nat
  BY <1>1, FS_Subset, FS_CardinalityType
<1>3. ASSUME p <= q PROVE Cardinality(Below(S, p)) <= Cardinality(Below(S, q))
  <2>1. Below(S, p) \subseteq Below(S, q)
    BY <1>3 DEF Below
  <2> QED
    BY <1>2, <2>1, FS_Subset
<1>4. ASSUME p \in S, p < q PROVE Cardinality(Below(S, p)) < Cardinality(Below(S, q))
  <2>0. p <= q
    BY <1>4
  <2>1. Below(S, p) \subseteq Below(S, q)
    BY <2>0 DEF Below
  <2>2. p \in Below(S, q) /\ p \notin Below(S, p)
    BY <1>4 DEF Below
  <2>3. Below(S, p) \cup {p} \subseteq Below(S, q)
    BY <2>1, <2>2
  <2>4. Cardinality(Below(S, p) \cup {p}) = Cardinality(Below(S, p)) + 1
    BY <1>2, <2>2, FS_AddElement
  <2>5. Cardinality(Below(S, p) \cup {p}) <= Cardinality(Below(S, q))
    BY <1>2, <2>3, FS_Subset
  <2> QED
    BY <1>2, <2>4, <2>5
<1> QED
  BY <1>2, <1>3, <1>4

LEMMA RankExists ==
  ASSUME NEW S, \A y \in S : y \in Nat, IsFiniteSet(S), NEW b \in Nat, \A q \in S : q < b,
         NEW k \in 1..Cardinality(S)
  PROVE  \E p \in S : Cardinality(Below(S, p)) = k - 1
<1>0. Cardinality(S) \in Nat /\ k \in Nat /\ k >= 1 /\ k <= Cardinality(S)
  BY FS_CardinalityType
<1> DEFINE T == {x \in Nat : Cardinality(Below(S, x)) >= k}
<1>1. PICK x \in T : \A y \in T : x <= y
  <2>1. Below(S, b) = S
    BY DEF Below
  <2>2. T \in SUBSET Nat /\ b \in T
    BY <1>0, <2>1
  <2> HIDE DEF T
  <2> QED
    BY <2>2, LeastNumber
<1>2. x \in Nat /\ Cardinality(Below(S, x)) >= k
  OBVIOUS
<1>3. x # 0
  <2>1. Below(S, 0) = {}
    BY DEF Below
  <2> QED
    BY <1>0, <1>2, <2>1, FS_EmptySet
<1>4. x - 1 \in Nat /\ x - 1 < x
  BY <1>2, <1>3
<1>5. Cardinality(Below(S, x - 1)) < k /\ Cardinality(Below(S, x - 1)) \in Nat
  <2>1. x - 1 \notin T
    BY <1>1, <1>2, <1>4
  <2>2. Cardinality(Below(S, x - 1)) \in Nat
    BY <1>4, RankOrder
  <2> QED
    BY <1>0, <1>4, <2>1, <2>2
<1>6. Cardinality(Below(S, x)) \in Nat /\ IsFiniteSet(Below(S, x - 1))
  BY <1>2, <1>4, RankOrder
<1>7. CASE x - 1 \in S
  <2>1. Below(S, x) = Below(S, x - 1) \cup {x - 1} /\ x - 1 \notin Below(S, x - 1)
    BY <1>2, <1>4, <1>7 DEF Below
  <2>2. Cardinality(Below(S, x)) = Cardinality(Below(S, x - 1)) + 1
    BY <1>6, <2>1, FS_AddElement
  <2>3. Cardinality(Below(S, x - 1)) = k - 1
    BY <1>0, <1>2, <1>5, <1>6, <2>2
  <2> QED
    BY <1>7, <2>3
<1>8. CASE x - 1 \notin S
  <2>1. Below(S, x) = Below(S, x - 1)
    BY <1>2, <1>4, <1>8 DEF Below
  <2> QED
    BY <1>0, <1>2, <1>5, <2>1
<1> QED
  BY <1>7, <1>8

(* The limits are numbers (precheckMaxCryptoBytes, precheckMaxCryptoRanges). *)
LEMMA Limits ==
  /\ MaxCryptoBytes \in Nat /\ MaxCryptoRanges \in Nat /\ HeaderLen \in Nat /\ HeaderLen > 1
  /\ \A b \in CryptoBytes : b \in Nat
BY ReassemblerAssumption

(* A content has finitely many bytes, all below the limit. *)
LEMMA ContentsFacts ==
  ASSUME NEW f \in Contents
  PROVE  /\ f = [p \in DOMAIN f |-> f[p]]
         /\ \A p \in DOMAIN f : p \in Nat /\ p < MaxCryptoBytes /\ f[p] \in CryptoBytes
         /\ \A p \in Starts(f) : p \in Nat /\ p < MaxCryptoBytes /\ p \in DOMAIN f /\ p - 1 \notin DOMAIN f
         /\ IsFiniteSet(Starts(f)) /\ Cardinality(Starts(f)) \in Nat
<1>1. PICK D \in SUBSET (0 .. MaxCryptoBytes - 1) : f \in [D -> CryptoBytes]
  BY DEF Contents, Partial
<1>2. DOMAIN f = D /\ f = [p \in DOMAIN f |-> f[p]]
  BY <1>1
<1>3. \A p \in DOMAIN f : p \in Nat /\ p < MaxCryptoBytes /\ f[p] \in CryptoBytes
  BY <1>1, <1>2, Limits
<1>4. \A p \in Starts(f) : p \in Nat /\ p < MaxCryptoBytes /\ p \in DOMAIN f /\ p - 1 \notin DOMAIN f
  BY <1>3 DEF Starts
<1>5. Starts(f) \subseteq 0 .. MaxCryptoBytes - 1
  BY <1>4, Limits
<1>6. IsFiniteSet(Starts(f)) /\ Cardinality(Starts(f)) \in Nat
  <2>1. 0 \in Int /\ MaxCryptoBytes - 1 \in Int
    BY Limits
  <2>2. IsFiniteSet(0 .. MaxCryptoBytes - 1)
    BY <2>1, FS_Interval
  <2>3. IsFiniteSet(Starts(f))
    BY <1>5, <2>2, FS_Subset
  <2> QED
    BY <2>3, FS_CardinalityType
<1> QED
  BY <1>2, <1>3, <1>4, <1>6

(* A function on 1 .. n is a list of length n (make and copy in add). *)
LEMMA FunctionIsList ==
  ASSUME NEW S, NEW n \in Nat, NEW u \in [1 .. n -> S]
  PROVE  u \in Seq(S) /\ Len(u) = n
<1>1. u \in Seq(S)
  OBVIOUS
<1>2. DOMAIN u = 1 .. n /\ Len(u) \in Nat /\ DOMAIN u = 1 .. Len(u)
  BY <1>1, LenProperties
<1> QED
  BY <1>1, <1>2

(* A run ends where the next byte is missing.                                *)
EndsAt(f, p, e) == e \in Nat /\ p < e /\ e \notin DOMAIN f /\ \A q \in p .. e - 1 : q \in DOMAIN f

(* The run from p is the bytes up to that end, as one range. *)
LEMMA RunIs ==
  ASSUME NEW f \in Contents, NEW p \in Nat, NEW e, EndsAt(f, p, e)
  PROVE  /\ Run(f, p) = [off |-> p, data |-> [i \in 1 .. e - p |-> f[p + i - 1]]]
         /\ e <= MaxCryptoBytes
<1>1. e \in Nat /\ p < e /\ e \notin DOMAIN f /\ \A q \in p .. e - 1 : q \in DOMAIN f
  BY DEF EndsAt
<1>2. e - 1 \in DOMAIN f
  BY <1>1
<1>3. e <= MaxCryptoBytes
  BY <1>1, <1>2, ContentsFacts, Limits
<1> DEFINE P(q) == q \notin DOMAIN f /\ p .. q - 1 \subseteq DOMAIN f
<1>4. e \in p .. MaxCryptoBytes /\ P(e)
  BY <1>1, <1>3, Limits
<1>5. ASSUME NEW q \in p .. MaxCryptoBytes, P(q) PROVE q = e
  <2>1. q \in Nat /\ p <= q
    BY Limits
  <2>2. ~(q < e)
    BY <1>1, <1>5, <2>1
  <2>3. ~(e < q)
    <3>1. SUFFICES ASSUME e < q PROVE FALSE
      OBVIOUS
    <3>2. e \in p .. q - 1
      BY <1>1, <2>1, <3>1
    <3> QED
      BY <1>1, <1>5, <3>2
  <2> QED
    BY <1>1, <2>1, <2>2, <2>3
<1>6. (CHOOSE q \in p .. MaxCryptoBytes : P(q)) = e
  BY <1>4, <1>5
<1> QED
  BY <1>3, <1>6 DEF Run

LEMMA RunFacts ==
  ASSUME NEW f \in Contents, NEW p \in Nat, NEW e, EndsAt(f, p, e)
  PROVE  LET r == Run(f, p) IN
         /\ r \in ByteRanges /\ r.off = p /\ End(r) = e /\ r.data # <<>>
         /\ \A q \in Nat : Holds(r, q) => q \in DOMAIN f /\ ByteAt(r, q) = f[q]
<1>1. e \in Nat /\ p < e /\ e \notin DOMAIN f /\ \A q \in p .. e - 1 : q \in DOMAIN f
  BY DEF EndsAt
<1> DEFINE d == [i \in 1 .. e - p |-> f[p + i - 1]]
<1>2. PICK r : r = Run(f, p) /\ r = [off |-> p, data |-> d]
  BY RunIs
<1>3. \A i \in 1 .. e - p : p + i - 1 \in DOMAIN f /\ f[p + i - 1] \in CryptoBytes
  <2>1. \A i \in 1 .. e - p : p + i - 1 \in p .. e - 1
    BY <1>1
  <2> QED
    BY <1>1, <2>1, ContentsFacts
<1>4. e - p \in Nat /\ d \in [1 .. e - p -> CryptoBytes]
  BY <1>1, <1>3
<1>5. d \in Seq(CryptoBytes) /\ Len(d) = e - p
  <2> HIDE DEF d
  <2> QED
    BY <1>4, FunctionIsList
<1>6. \A i \in 1 .. e - p : d[i] = f[p + i - 1]
  OBVIOUS
<1> HIDE DEF d
<1>7. r.off = p /\ r.data = d /\ r \in ByteRanges /\ End(r) = e /\ r.data # <<>>
  <2>1. r.off = p /\ r.data = d /\ r \in ByteRanges
    BY <1>2, <1>5 DEF ByteRanges
  <2>2. End(r) = p + Len(d) /\ Len(d) = e - p /\ Len(d) > 0
    BY <1>1, <1>5, <2>1 DEF End
  <2> QED
    BY <1>1, <1>5, <2>1, <2>2, EmptySeq
<1>8. ASSUME NEW q \in Nat, Holds(r, q) PROVE q \in DOMAIN f /\ ByteAt(r, q) = f[q]
  <2>1. p <= q /\ q < e
    BY <1>7, <1>8 DEF Holds
  <2>2. q - p + 1 \in 1 .. e - p /\ p + (q - p + 1) - 1 = q /\ q \in p .. e - 1
    BY <1>1, <2>1
  <2>3. ByteAt(r, q) = d[q - p + 1]
    BY <1>7 DEF ByteAt
  <2> QED
    BY <1>1, <1>6, <2>2, <2>3
<1> QED
  BY <1>2, <1>7, <1>8

(* Every byte that arrived belongs to a run that ends. *)
LEMMA RunEnds ==
  ASSUME NEW f \in Contents, NEW p \in DOMAIN f
  PROVE  \E e : EndsAt(f, p, e)
<1>1. p \in Nat /\ p < MaxCryptoBytes /\ MaxCryptoBytes \notin DOMAIN f
  BY ContentsFacts, Limits
<1> DEFINE T == {q \in Nat : p < q /\ q \notin DOMAIN f}
<1>2. PICK e \in T : \A q \in T : e <= q
  <2>1. T \in SUBSET Nat /\ MaxCryptoBytes \in T
    BY <1>1, Limits
  <2> HIDE DEF T
  <2> QED
    BY <2>1, LeastNumber
<1>3. e \in Nat /\ p < e /\ e \notin DOMAIN f
  OBVIOUS
<1>4. ASSUME NEW q \in p .. e - 1 PROVE q \in DOMAIN f
  <2>1. q \in Nat /\ q < e /\ (q = p \/ p < q)
    BY <1>1, <1>3
  <2>2. q \notin T
    BY <1>2, <1>3, <2>1
  <2> QED
    BY <2>1, <2>2
<1> QED
  BY <1>3, <1>4 DEF EndsAt

(* Increasing numbers are as many as their indices.                           *)
LEMMA IncreasingCount ==
  ASSUME NEW n \in Nat, NEW g \in [1 .. n -> Nat], \A i, j \in 1 .. n : i < j => g[i] < g[j],
         NEW S, \A y \in S : \E i \in 1 .. n : g[i] = y, \A i \in 1 .. n : g[i] \in S
  PROVE  IsFiniteSet(S) /\ Cardinality(S) = n
<1>1. g \in [1 .. n -> S]
  OBVIOUS
<1>2. \A i, j \in 1 .. n : g[i] = g[j] => i = j
  <2>1. SUFFICES ASSUME NEW i \in 1 .. n, NEW j \in 1 .. n, g[i] = g[j], i # j PROVE FALSE
    OBVIOUS
  <2>2. g[i] \in Nat /\ (i < j \/ j < i)
    BY <2>1
  <2> QED
    BY <2>1, <2>2
<1>3. g \in Bijection(1 .. n, S)
  BY <1>1, <1>2, Fun_IsBij
<1>4. ExistsBijection(1 .. n, S)
  BY <1>3, Fun_ExistsBij
<1>5. IsFiniteSet(1 .. n) /\ Cardinality(1 .. n) = n
  BY FS_Interval
<1> QED
  BY <1>4, <1>5, FS_Bijection

(* The ranges begin where the runs do, in the same order.                     *)
LEMMA StartsAre ==
  ASSUME NEW f \in Contents, NEW rs, Represents(rs, f)
  PROVE  /\ \A i \in DOMAIN rs : rs[i].off \in Starts(f) /\ EndsAt(f, rs[i].off, End(rs[i]))
         /\ \A p \in Starts(f) : \E i \in DOMAIN rs : rs[i].off = p
         /\ \A i, j \in DOMAIN rs : i < j <=> rs[i].off < rs[j].off
<1>1. ASSUME NEW i \in DOMAIN rs
      PROVE  rs[i].off \in Starts(f) /\ EndsAt(f, rs[i].off, End(rs[i]))
  BY ListFacts DEF Starts, EndsAt
<1>2. ASSUME NEW p \in Starts(f) PROVE \E i \in DOMAIN rs : rs[i].off = p
  <2>1. p \in DOMAIN f /\ p - 1 \notin DOMAIN f /\ p \in Nat
    BY ContentsFacts
  <2>2. PICK i \in DOMAIN rs : Holds(rs[i], p)
    BY <2>1, ListFacts
  <2>3. rs[i].off \in Nat /\ End(rs[i]) \in Nat /\ rs[i].off <= p /\ p < End(rs[i])
    BY <2>2, ListFacts DEF Holds
  <2>4. ~(rs[i].off < p)
    <3>1. SUFFICES ASSUME rs[i].off < p PROVE FALSE
      OBVIOUS
    <3>2. p - 1 \in rs[i].off .. End(rs[i]) - 1
      BY <2>1, <2>3, <3>1
    <3>3. p - 1 \in DOMAIN f
      BY <3>2, ListFacts
    <3> QED
      BY <2>1, <3>3
  <2> QED
    BY <2>1, <2>3, <2>4
<1>3. ASSUME NEW i \in DOMAIN rs, NEW j \in DOMAIN rs
      PROVE  i < j <=> rs[i].off < rs[j].off
  <2>1. /\ i \in Nat /\ j \in Nat /\ rs[i].off \in Nat /\ End(rs[i]) \in Nat /\ rs[i].off < End(rs[i])
        /\ rs[j].off \in Nat /\ End(rs[j]) \in Nat /\ rs[j].off < End(rs[j])
    BY ListFacts
  <2>2. (i < j => End(rs[i]) < rs[j].off) /\ (j < i => End(rs[j]) < rs[i].off)
    BY ListFacts
  <2> QED
    BY <2>1, <2>2
<1> QED
  BY <1>1, <1>2, <1>3

(* There are as many ranges as runs, and the k-th range is the k-th run. *)
LEMMA RankOfRange ==
  ASSUME NEW f \in Contents, NEW rs, Represents(rs, f)
  PROVE  /\ Cardinality(Starts(f)) = Len(rs)
         /\ \A k \in DOMAIN rs : Cardinality(Below(Starts(f), rs[k].off)) = k - 1
<1> DEFINE g(n) == [i \in 1 .. n |-> rs[i].off]
<1>1. /\ Len(rs) \in Nat /\ DOMAIN rs = 1 .. Len(rs)
      /\ \A i \in DOMAIN rs : rs[i].off \in Nat
  BY ListFacts
<1>2. ASSUME NEW n \in 0 .. Len(rs)
      PROVE  n \in Nat /\ g(n) \in [1 .. n -> Nat] /\ \A i, j \in 1 .. n : i < j => g(n)[i] < g(n)[j]
  <2>1. n \in Nat /\ \A i \in 1 .. n : i \in DOMAIN rs
    BY <1>1
  <2> QED
    BY <1>1, <2>1, StartsAre
<1>3. ASSUME NEW n \in 0 .. Len(rs), NEW S, \A i \in 1 .. n : rs[i].off \in S,
             \A y \in S : \E i \in 1 .. n : rs[i].off = y
      PROVE  Cardinality(S) = n
  <2>1. \A i \in 1 .. n : g(n)[i] = rs[i].off
    OBVIOUS
  <2>2. (\A y \in S : \E i \in 1 .. n : g(n)[i] = y) /\ \A i \in 1 .. n : g(n)[i] \in S
    BY <1>3, <2>1
  <2>3. n \in Nat /\ g(n) \in [1 .. n -> Nat] /\ \A i, j \in 1 .. n : i < j => g(n)[i] < g(n)[j]
    BY <1>2
  <2> HIDE DEF g
  <2> QED
    BY <2>2, <2>3, IncreasingCount
<1>4. Cardinality(Starts(f)) = Len(rs)
  <2>1. Len(rs) \in 0 .. Len(rs)
    BY <1>1
  <2>2. /\ \A i \in 1 .. Len(rs) : rs[i].off \in Starts(f)
        /\ \A y \in Starts(f) : \E i \in 1 .. Len(rs) : rs[i].off = y
    BY <1>1, StartsAre
  <2> QED
    BY <1>3, <2>1, <2>2
<1>5. ASSUME NEW k \in DOMAIN rs PROVE Cardinality(Below(Starts(f), rs[k].off)) = k - 1
  <2>1. k \in Nat /\ k - 1 \in 0 .. Len(rs) /\ \A i \in 1 .. k - 1 : i \in DOMAIN rs /\ i < k
    BY <1>1
  <2>2. \A i \in 1 .. k - 1 : rs[i].off \in Below(Starts(f), rs[k].off)
    BY <2>1, StartsAre DEF Below
  <2>3. ASSUME NEW y \in Below(Starts(f), rs[k].off)
        PROVE  \E i \in 1 .. k - 1 : rs[i].off = y
    <3>1. y \in Starts(f) /\ y < rs[k].off
      BY DEF Below
    <3>2. PICK i \in DOMAIN rs : rs[i].off = y
      BY <3>1, StartsAre
    <3>3. i < k
      BY <3>1, <3>2, StartsAre
    <3>4. i \in 1 .. k - 1
      BY <1>1, <2>1, <3>2, <3>3
    <3> QED
      BY <3>2, <3>4
  <2> QED
    BY <1>3, <2>1, <2>2, <2>3
<1> QED
  BY <1>4, <1>5

(* A list that stands for a partial function is its canonical list.           *)
LEMMA CanonicalIs ==
  ASSUME NEW f \in Contents, NEW rs, Represents(rs, f)
  PROVE  Canonical(f) = rs
<1>1. /\ rs \in Seq(ByteRanges) /\ Len(rs) \in Nat /\ DOMAIN rs = 1 .. Len(rs)
      /\ Cardinality(Starts(f)) = Len(rs)
      /\ \A k \in DOMAIN rs : Cardinality(Below(Starts(f), rs[k].off)) = k - 1
  BY ListFacts, RankOfRange
<1>2. \A p : {q \in Starts(f) : q < p} = Below(Starts(f), p)
  BY DEF Below
<1>3. ASSUME NEW k \in DOMAIN rs
      PROVE  (CHOOSE p \in Starts(f) : Cardinality({q \in Starts(f) : q < p}) = k - 1) = rs[k].off
  <2>1. rs[k].off \in Starts(f) /\ Cardinality(Below(Starts(f), rs[k].off)) = k - 1
    BY <1>1, StartsAre
  <2>2. ASSUME NEW p \in Starts(f), Cardinality(Below(Starts(f), p)) = k - 1
        PROVE  p = rs[k].off
    <3>1. PICK i \in DOMAIN rs : rs[i].off = p
      BY StartsAre
    <3>2. i - 1 = k - 1 /\ i \in Nat /\ k \in Nat
      BY <1>1, <2>2, <3>1
    <3> QED
      BY <3>1, <3>2
  <2> QED
    BY <1>2, <2>1, <2>2
<1>4. ASSUME NEW k \in DOMAIN rs PROVE Run(f, rs[k].off) = rs[k]
  <2>1. /\ rs[k] \in ByteRanges /\ rs[k].off \in Nat /\ EndsAt(f, rs[k].off, End(rs[k]))
        /\ rs[k].data \in Seq(CryptoBytes) /\ DOMAIN rs[k].data = 1 .. Len(rs[k].data)
        /\ Len(rs[k].data) \in Nat /\ End(rs[k]) = rs[k].off + Len(rs[k].data)
    BY ListFacts, StartsAre, RangeFacts
  <2>2. Run(f, rs[k].off) = [off |-> rs[k].off,
                             data |-> [i \in 1 .. End(rs[k]) - rs[k].off |-> f[rs[k].off + i - 1]]]
    BY <2>1, RunIs
  <2>3. End(rs[k]) - rs[k].off = Len(rs[k].data)
    BY <2>1
  <2>4. ASSUME NEW i \in 1 .. Len(rs[k].data) PROVE f[rs[k].off + i - 1] = rs[k].data[i]
    <3>1. PICK p \in Nat : p = rs[k].off + i - 1
      BY <2>1
    <3>2. p - rs[k].off + 1 = i /\ Holds(rs[k], p)
      BY <2>1, <3>1 DEF Holds
    <3>3. f[p] = ByteAt(rs[k], p)
      BY <3>2, ListFacts
    <3> QED
      BY <3>1, <3>2, <3>3 DEF ByteAt
  <2>5. [i \in 1 .. Len(rs[k].data) |-> f[rs[k].off + i - 1]] = rs[k].data
    <3>1. rs[k].data = [i \in 1 .. Len(rs[k].data) |-> rs[k].data[i]]
      BY <2>1
    <3> QED
      BY <2>4, <3>1
  <2>6. rs[k] = [off |-> rs[k].off, data |-> rs[k].data]
    BY <2>1 DEF ByteRanges
  <2> QED
    BY <2>2, <2>3, <2>5, <2>6
<1>5. ASSUME NEW k \in 1 .. Len(rs)
      PROVE  Run(f, CHOOSE p \in Starts(f) : Cardinality({q \in Starts(f) : q < p}) = k - 1) = rs[k]
  BY <1>1, <1>3, <1>4
<1>6. Canonical(f) = [k \in 1 .. Len(rs) |-> rs[k]]
  BY <1>1, <1>5 DEF Canonical
<1>7. rs = [k \in 1 .. Len(rs) |-> rs[k]]
  BY <1>1
<1> QED
  BY <1>6, <1>7

(* Every partial function has such a list.                                    *)
LEMMA CanonicalRepresents ==
  ASSUME NEW f \in Contents
  PROVE  Represents(Canonical(f), f)
<1> DEFINE n == Cardinality(Starts(f))
           StartOf(k) == CHOOSE p \in Starts(f) : Cardinality({q \in Starts(f) : q < p}) = k - 1
<1> DEFINE rs == [k \in 1 .. n |-> Run(f, StartOf(k))]
<1>1. Canonical(f) = rs
  BY DEF Canonical
<1>2. n \in Nat /\ IsFiniteSet(Starts(f))
  BY ContentsFacts
<1>3. /\ \A p \in Starts(f) : p \in Nat /\ p \in DOMAIN f /\ p - 1 \notin DOMAIN f /\ p < MaxCryptoBytes
      /\ \A y \in Starts(f) : y \in Nat
  BY ContentsFacts
<1>4. ASSUME NEW k \in 1 .. n
      PROVE  StartOf(k) \in Starts(f) /\ Cardinality(Below(Starts(f), StartOf(k))) = k - 1
  <2>1. \E p \in Starts(f) : Cardinality(Below(Starts(f), p)) = k - 1
    BY <1>2, <1>3, Limits, RankExists
  <2>2. \A p : {q \in Starts(f) : q < p} = Below(Starts(f), p)
    BY DEF Below
  <2> QED
    BY <2>1, <2>2
<1>5. ASSUME NEW p \in Starts(f) PROVE \E k \in 1 .. n : StartOf(k) = p
  <2> DEFINE b == Cardinality(Below(Starts(f), p))
             k == b + 1
  <2>1. b \in Nat /\ b + 1 <= n
    <3>1. Below(Starts(f), p) \cup {p} \subseteq Starts(f) /\ p \notin Below(Starts(f), p)
      BY <1>3 DEF Below
    <3>2. IsFiniteSet(Below(Starts(f), p)) /\ Cardinality(Below(Starts(f), p)) \in Nat
      BY <1>2, <1>3, RankOrder
    <3>3. Cardinality(Below(Starts(f), p) \cup {p}) = Cardinality(Below(Starts(f), p)) + 1
      BY <3>1, <3>2, FS_AddElement
    <3>4. Cardinality(Below(Starts(f), p) \cup {p}) <= n
      BY <1>2, <3>1, FS_Subset
    <3> QED
      BY <1>2, <3>2, <3>3, <3>4
  <2>2. k \in 1 .. n /\ k - 1 = Cardinality(Below(Starts(f), p))
    <3> HIDE DEF n
    <3>1. k \in 1 .. n /\ k - 1 = b
      <4> HIDE DEF b
      <4> QED
        BY <1>2, <2>1
    <3> QED
      BY <3>1
  <2>3. /\ StartOf(k) \in Starts(f)
        /\ Cardinality(Below(Starts(f), StartOf(k))) = Cardinality(Below(Starts(f), p))
    BY <1>4, <2>2
  <2>4. StartOf(k) = p
    <3> DEFINE s == StartOf(k)
    <3>1. /\ s \in Starts(f) /\ s \in Nat /\ p \in Nat
          /\ Cardinality(Below(Starts(f), s)) = Cardinality(Below(Starts(f), p))
      BY <1>3, <2>3
    <3> HIDE DEF s
    <3>2. /\ Cardinality(Below(Starts(f), s)) \in Nat /\ Cardinality(Below(Starts(f), p)) \in Nat
          /\ s < p => Cardinality(Below(Starts(f), s)) < Cardinality(Below(Starts(f), p))
          /\ p < s => Cardinality(Below(Starts(f), p)) < Cardinality(Below(Starts(f), s))
      BY <1>2, <1>3, <3>1, RankOrder
    <3>3. s = p
      BY <3>1, <3>2
    <3> QED
      BY <3>3 DEF s
  <2> QED
    BY <2>2, <2>4
<1>6. \A k \in 1 .. n : \E e : EndsAt(f, StartOf(k), e)
  BY <1>3, <1>4, RunEnds
<1> HIDE DEF StartOf
<1>7. ASSUME NEW k \in 1 .. n
      PROVE  /\ rs[k] = Run(f, StartOf(k)) /\ StartOf(k) \in Nat
             /\ EndsAt(f, StartOf(k), End(rs[k]))
             /\ rs[k] \in ByteRanges /\ rs[k].off = StartOf(k) /\ rs[k].data # <<>>
             /\ \A q \in Nat : Holds(rs[k], q) => q \in DOMAIN f /\ ByteAt(rs[k], q) = f[q]
  <2>1. StartOf(k) \in Nat /\ rs[k] = Run(f, StartOf(k))
    BY <1>3, <1>4
  <2>2. PICK e : EndsAt(f, StartOf(k), e)
    BY <1>6
  <2> QED
    BY <2>1, <2>2, RunFacts
<1>8. rs \in Seq(ByteRanges) /\ DOMAIN rs = 1 .. n
  <2>1. rs \in [1 .. n -> ByteRanges]
    BY <1>7
  <2> HIDE DEF rs
  <2> QED
    BY <1>2, <2>1, FunctionIsList
<1> HIDE DEF rs, n
<1>9. ASSUME NEW i \in 1 .. n, NEW j \in 1 .. n, i < j PROVE End(rs[i]) < rs[j].off
  <2>1. /\ StartOf(i) \in Nat /\ StartOf(j) \in Nat /\ StartOf(j) \in Starts(f)
        /\ Cardinality(Below(Starts(f), StartOf(i))) = i - 1
        /\ Cardinality(Below(Starts(f), StartOf(j))) = j - 1
    BY <1>4, <1>7
  <2>2. StartOf(j) <= StartOf(i) => j - 1 <= i - 1
    BY <1>2, <1>3, <2>1, RankOrder
  <2>3. StartOf(i) < StartOf(j)
    BY <1>2, <1>9, <2>1, <2>2
  <2>4. EndsAt(f, StartOf(i), End(rs[i])) /\ StartOf(j) \in DOMAIN f /\ StartOf(j) - 1 \notin DOMAIN f
    BY <1>3, <1>7, <2>1
  <2>5. /\ End(rs[i]) \in Nat /\ End(rs[i]) \notin DOMAIN f /\ StartOf(i) < End(rs[i])
        /\ \A q \in StartOf(i) .. End(rs[i]) - 1 : q \in DOMAIN f
    BY <2>4 DEF EndsAt
  <2>6. ~(StartOf(j) < End(rs[i]))
    <3>1. SUFFICES ASSUME StartOf(j) < End(rs[i]) PROVE FALSE
      OBVIOUS
    <3>2. StartOf(j) - 1 \in StartOf(i) .. End(rs[i]) - 1
      BY <2>1, <2>3, <2>5, <3>1
    <3> QED
      BY <2>4, <2>5, <3>2
  <2>7. StartOf(j) # End(rs[i])
    BY <2>4, <2>5
  <2> QED
    BY <1>7, <2>1, <2>5, <2>6, <2>7
<1>10. ASSUME NEW p \in DOMAIN f PROVE p \in Nat /\ \E i \in 1 .. n : Holds(rs[i], p)
  <2>1. p \in Nat
    BY ContentsFacts
  <2> DEFINE T == {s \in Nat : s <= p /\ \A q \in s .. p : q \in DOMAIN f}
  <2>2. PICK s \in T : \A t \in T : s <= t
    <3>1. T \in SUBSET Nat /\ p \in T
      BY <2>1
    <3> HIDE DEF T
    <3> QED
      BY <3>1, LeastNumber
  <2>3. s \in Nat /\ s <= p /\ \A q \in s .. p : q \in DOMAIN f
    OBVIOUS
  <2>4. s - 1 \notin DOMAIN f
    <3>1. SUFFICES ASSUME s - 1 \in DOMAIN f PROVE FALSE
      OBVIOUS
    <3>2. s - 1 \in Nat
      BY <3>1, ContentsFacts
    <3>3. \A q \in s - 1 .. p : q \in DOMAIN f
      BY <2>1, <2>3, <3>1, <3>2
    <3>4. s - 1 \in T
      <4>1. s - 1 <= p
        BY <2>1, <2>3
      <4> QED
        BY <3>2, <3>3, <4>1
    <3> QED
      BY <2>2, <2>3, <3>2, <3>4
  <2>5. s \in Starts(f)
    BY <2>1, <2>3, <2>4 DEF Starts
  <2>6. PICK i \in 1 .. n : StartOf(i) = s
    BY <1>5, <2>5
  <2>7. EndsAt(f, s, End(rs[i])) /\ rs[i].off = s
    BY <1>7, <2>6
  <2>8. p < End(rs[i])
    <3>1. End(rs[i]) \in Nat /\ End(rs[i]) \notin DOMAIN f /\ s < End(rs[i])
      BY <2>7 DEF EndsAt
    <3>2. SUFFICES ASSUME End(rs[i]) <= p PROVE FALSE
      BY <2>1, <3>1
    <3>3. End(rs[i]) \in s .. p
      BY <2>1, <2>3, <3>1, <3>2
    <3> QED
      BY <2>3, <3>1, <3>3
  <2> QED
    BY <2>1, <2>3, <2>7, <2>8 DEF Holds
<1>11. DOMAIN f = {p \in Nat : \E i \in DOMAIN rs : Holds(rs[i], p)}
  BY <1>7, <1>8, <1>10
<1> QED
  BY <1>1, <1>7, <1>8, <1>9, <1>11 DEF Represents

(* The least and the greatest of a set of offsets are in it. *)
LEMMA MinFacts ==
  ASSUME NEW T \in SUBSET Nat, T # {}
  PROVE  Min(T) \in T /\ \A y \in T : Min(T) <= y
BY LeastNumber DEF Min

LEMMA MaxFacts ==
  ASSUME NEW T \in SUBSET Nat, T # {}, NEW b \in Nat, \A y \in T : y <= b
  PROVE  Max(T) \in T /\ \A y \in T : y <= Max(T)
<1>1. PICK m \in T : \A y \in T : y <= m
  BY GreatestNumber
<1>2. Max(T) = m
  <2>1. T \in SUBSET Int
    OBVIOUS
  <2> QED
    BY <1>1, <2>1, MaxIs
<1> QED
  BY <1>1, <1>2

(* The ranges from FirstTouched on are those that end at the fragment or      *)
(* after its beginning, and of them those up to LastTouched begin at its end  *)
(* or before: the ranges already passed cannot reach a later one.             *)
LEMMA FirstIs ==
  ASSUME NEW f \in Contents, NEW rs, Represents(rs, f), NEW frag \in ByteRanges
  PROVE  /\ FirstTouched(rs, frag) \in 1 .. Len(rs) + 1
         /\ \A i \in DOMAIN rs : i < FirstTouched(rs, frag) <=> End(rs[i]) < frag.off
<1>1. /\ Len(rs) \in Nat /\ DOMAIN rs = 1 .. Len(rs) /\ frag.off \in Nat
      /\ \A i \in DOMAIN rs : i \in Nat /\ rs[i].off \in Nat /\ End(rs[i]) \in Nat /\ rs[i].off < End(rs[i])
      /\ \A i, j \in DOMAIN rs : i < j => End(rs[i]) < rs[j].off
  BY ListFacts, RangeFacts
<1> DEFINE T == {Len(rs) + 1} \cup {i \in DOMAIN rs : End(rs[i]) >= frag.off}
           first == FirstTouched(rs, frag)
<1>2. first \in T /\ \A y \in T : first <= y
  <2>1. T \in SUBSET Nat /\ T # {} /\ first = Min(T)
    BY <1>1 DEF FirstTouched
  <2> HIDE DEF T, first
  <2> QED
    BY <2>1, MinFacts
<1>3. first \in 1 .. Len(rs) + 1
  BY <1>1, <1>2
<1>4. ASSUME NEW i \in DOMAIN rs PROVE i < first <=> End(rs[i]) < frag.off
  <2>1. CASE i < first
    <3>1. i \notin T
      BY <1>1, <1>2, <1>3, <2>1
    <3> QED
      BY <1>1, <2>1, <3>1
  <2>2. CASE ~(i < first)
    <3>1. first \in DOMAIN rs /\ End(rs[first]) >= frag.off /\ first <= i
      <4>1. first # Len(rs) + 1
        BY <1>1, <1>3, <2>2
      <4> QED
        BY <1>1, <1>2, <1>3, <2>2, <4>1
    <3>2. End(rs[first]) <= End(rs[i])
      <4>1. CASE first = i
        BY <1>1, <4>1
      <4>2. CASE first < i
        BY <1>1, <3>1, <4>2
      <4> QED
        BY <1>1, <1>3, <3>1, <4>1, <4>2
    <3> QED
      BY <1>1, <2>2, <3>1, <3>2
  <2> QED
    BY <2>1, <2>2
<1> QED
  BY <1>3, <1>4

LEMMA LastIs ==
  ASSUME NEW f \in Contents, NEW rs, Represents(rs, f),
         NEW frag \in ByteRanges, End(frag) <= MaxCryptoBytes
  PROVE  /\ LastTouched(rs, frag) \in FirstTouched(rs, frag) - 1 .. Len(rs)
         /\ \A i \in DOMAIN rs : i >= FirstTouched(rs, frag) =>
              (i <= LastTouched(rs, frag) <=> rs[i].off <= End(frag))
<1>1. /\ Len(rs) \in Nat /\ DOMAIN rs = 1 .. Len(rs) /\ frag.off \in Nat /\ End(frag) \in Nat
      /\ \A i \in DOMAIN rs : i \in Nat /\ rs[i].off \in Nat /\ End(rs[i]) \in Nat /\ rs[i].off < End(rs[i])
      /\ \A i, j \in DOMAIN rs : i < j => End(rs[i]) < rs[j].off
      /\ MaxCryptoBytes \in Nat
  BY ListFacts, RangeFacts, Limits
<1>2. \A i \in DOMAIN rs : End(rs[i]) <= MaxCryptoBytes
  <2>1. \A i \in DOMAIN rs : End(rs[i]) - 1 \in DOMAIN f
    BY ListFacts
  <2>2. \A i \in DOMAIN rs : End(rs[i]) - 1 < MaxCryptoBytes
    BY <2>1, ContentsFacts
  <2> QED
    BY <1>1, <2>2
<1>3. PICK first : first = FirstTouched(rs, frag) /\ first \in 1 .. Len(rs) + 1
  BY FirstIs
<1> DEFINE unionEnd(n) == Max({End(frag)} \cup {End(rs[i]) : i \in first .. n})
           T == {n \in first - 1 .. Len(rs) : \A i \in first .. n : Touches(rs[i], unionEnd(i - 1))}
           last == LastTouched(rs, frag)
<1>4. ASSUME NEW i \in first .. Len(rs)
      PROVE  Touches(rs[i], unionEnd(i - 1)) <=> rs[i].off <= End(frag)
  <2> DEFINE E == {End(frag)} \cup {End(rs[j]) : j \in first .. i - 1}
  <2>1. i \in DOMAIN rs /\ \A j \in first .. i - 1 : j \in DOMAIN rs /\ j < i
    BY <1>1, <1>3
  <2>2. \A y \in E : y \in Nat /\ y <= MaxCryptoBytes
    BY <1>1, <1>2, <2>1
  <2>3. E \in SUBSET Nat /\ E # {}
    BY <2>2
  <2>4. Max(E) \in E /\ \A y \in E : y <= Max(E)
    <3> HIDE DEF E
    <3> QED
      BY <1>1, <2>2, <2>3, MaxFacts
  <2>5. Max(E) \in Nat /\ End(frag) <= Max(E)
    BY <2>2, <2>4
  <2>6. Max(E) = End(frag) \/ \E j \in first .. i - 1 : Max(E) = End(rs[j])
    BY <2>4
  <2>7. Max(E) = End(frag) \/ Max(E) < rs[i].off
    BY <1>1, <2>1, <2>6
  <2>8. Touches(rs[i], unionEnd(i - 1)) <=> rs[i].off <= Max(E)
    BY DEF Touches
  <2> HIDE DEF E, unionEnd
  <2> QED
    BY <1>1, <2>1, <2>5, <2>7, <2>8
<1>5. T = {n \in first - 1 .. Len(rs) : \A i \in first .. n : rs[i].off <= End(frag)}
  <2>1. \A n \in first - 1 .. Len(rs) : \A i \in first .. n : i \in first .. Len(rs)
    BY <1>1, <1>3
  <2> HIDE DEF unionEnd
  <2> QED
    BY <1>4, <2>1
<1>6. last = Max(T)
  BY <1>3 DEF LastTouched
<1>7. last \in T /\ \A y \in T : y <= last
  <2>1. T \in SUBSET Nat /\ \A y \in T : y <= Len(rs)
    BY <1>1, <1>3, <1>5
  <2>2. first - 1 \in T
    BY <1>1, <1>3, <1>5
  <2>3. T # {}
    BY <2>2
  <2> HIDE DEF T, last
  <2> QED
    BY <1>1, <1>6, <2>1, <2>3, MaxFacts
<1> HIDE DEF T, last
<1>8. last \in first - 1 .. Len(rs) /\ \A i \in first .. last : rs[i].off <= End(frag)
  BY <1>5, <1>7
<1>9. ASSUME NEW i \in DOMAIN rs, i >= first, last < i PROVE End(frag) < rs[i].off
  <2>1. last \in Int /\ first \in Int /\ last + 1 \in first .. Len(rs) /\ last + 1 \in DOMAIN rs
    BY <1>1, <1>3, <1>8, <1>9
  <2>2. last + 1 \notin T
    BY <1>7, <2>1
  <2>3. last + 1 \in first - 1 .. Len(rs) /\ \A j \in first .. last + 1 : j \in first .. last \/ j = last + 1
    BY <1>1, <1>3, <2>1
  <2>4. ~(rs[last + 1].off <= End(frag))
    BY <1>5, <1>8, <2>2, <2>3
  <2>5. CASE last + 1 = i
    BY <1>1, <2>4, <2>5
  <2>6. CASE last + 1 < i
    BY <1>1, <2>1, <2>4, <2>6
  <2> QED
    BY <1>1, <1>9, <2>1, <2>5, <2>6
<1>10. ASSUME NEW i \in DOMAIN rs, i >= first PROVE i <= last <=> rs[i].off <= End(frag)
  <2>1. i <= last => i \in first .. last
    BY <1>1, <1>3, <1>8, <1>10
  <2>2. i \in Int /\ last \in Int /\ rs[i].off \in Nat
    BY <1>1, <1>3, <1>8
  <2>3. last < i => End(frag) < rs[i].off
    BY <1>9, <1>10
  <2> QED
    BY <1>1, <1>8, <2>1, <2>2, <2>3
<1> QED
  BY <1>3, <1>8, <1>10 DEF last

(* The overlap of two ranges is what both hold (min and max in add). *)
LEMMA MinOfTwo ==
  ASSUME NEW x \in Int, NEW y \in Int
  PROVE  Min({x, y}) = (IF x <= y THEN x ELSE y) /\ Max({x, y}) = (IF x <= y THEN y ELSE x)
<1>1. {x, y} \in SUBSET Int /\ x \in {x, y} /\ y \in {x, y}
  OBVIOUS
<1>2. CASE x <= y
  <2>1. \A z \in {x, y} : x <= z /\ z <= y
    BY <1>2
  <2> QED
    BY <1>1, <1>2, <2>1, MinIs, MaxIs
<1>3. CASE ~(x <= y)
  <2>1. \A z \in {x, y} : y <= z /\ z <= x
    BY <1>3
  <2> QED
    BY <1>1, <1>3, <2>1, MinIs, MaxIs
<1> QED
  BY <1>2, <1>3

(* The ranges a fragment touches, and what it finds in them.                  *)
LEMMA OverlapIs ==
  ASSUME NEW r \in ByteRanges, NEW s \in ByteRanges
  PROVE  \A p : p \in Overlap(r, s) <=> p \in Nat /\ Holds(r, p) /\ Holds(s, p)
<1>1. r.off \in Nat /\ s.off \in Nat /\ End(r) \in Nat /\ End(s) \in Nat
  BY RangeFacts
<1>2. \A x, y \in Int : /\ Min({x, y}) = (IF x <= y THEN x ELSE y)
                        /\ Max({x, y}) = (IF x <= y THEN y ELSE x)
  BY MinOfTwo
<1>3. r.off \in Int /\ s.off \in Int /\ End(r) \in Int /\ End(s) \in Int
  BY <1>1
<1>4. /\ Max({r.off, s.off}) = (IF r.off <= s.off THEN s.off ELSE r.off)
      /\ Min({End(r), End(s)}) = (IF End(r) <= End(s) THEN End(r) ELSE End(s))
  BY <1>2, <1>3, Zenon
<1> QED
  BY <1>1, <1>4 DEF Overlap, Holds

(* The bytes of a fragment, as a partial function. *)
LEMMA BytesFacts ==
  ASSUME NEW frag \in ByteRanges
  PROVE  /\ \A p : p \in DOMAIN Bytes(frag) <=> p \in Nat /\ Holds(frag, p)
         /\ \A p \in DOMAIN Bytes(frag) :
              Bytes(frag)[p] = ByteAt(frag, p) /\ ByteAt(frag, p) \in CryptoBytes
<1>1. frag.off \in Nat /\ End(frag) \in Nat
  BY RangeFacts
<1>2. DOMAIN Bytes(frag) = frag.off .. End(frag) - 1
  BY DEF Bytes
<1>3. \A p : p \in DOMAIN Bytes(frag) <=> p \in Nat /\ Holds(frag, p)
  BY <1>1, <1>2 DEF Holds
<1>4. \A p \in DOMAIN Bytes(frag) : Bytes(frag)[p] = ByteAt(frag, p)
  BY DEF Bytes
<1> QED
  BY <1>3, <1>4, RangeFacts

(* add compares the fragment with the touched ranges only: it finds a         *)
(* contradiction exactly when some earlier byte is different.                 *)
LEMMA ContradictionIs ==
  ASSUME NEW f \in Contents, NEW rs, Represents(rs, f),
         NEW frag \in ByteRanges, End(frag) <= MaxCryptoBytes
  PROVE  (\E i \in FirstTouched(rs, frag) .. LastTouched(rs, frag) : Contradicts(rs[i], frag))
           <=> ~Agree(f, Bytes(frag))
<1>1. /\ Len(rs) \in Nat /\ DOMAIN rs = 1 .. Len(rs) /\ frag.off \in Nat /\ End(frag) \in Nat
      /\ \A i \in DOMAIN rs : /\ i \in Nat /\ rs[i] \in ByteRanges
                              /\ rs[i].off \in Nat /\ End(rs[i]) \in Nat
  BY ListFacts, RangeFacts
<1>2. PICK first, last : /\ first = FirstTouched(rs, frag) /\ first \in 1 .. Len(rs) + 1
                         /\ last = LastTouched(rs, frag) /\ last \in first - 1 .. Len(rs)
  BY FirstIs, LastIs
<1>3. ASSUME NEW i \in first .. last, Contradicts(rs[i], frag) PROVE ~Agree(f, Bytes(frag))
  <2>1. i \in DOMAIN rs
    BY <1>1, <1>2
  <2>2. PICK p \in Overlap(rs[i], frag) : ByteAt(rs[i], p) # ByteAt(frag, p)
    BY <1>3 DEF Contradicts
  <2>3. p \in Nat /\ Holds(rs[i], p) /\ Holds(frag, p)
    BY <1>1, <2>1, OverlapIs
  <2>4. p \in DOMAIN f /\ f[p] = ByteAt(rs[i], p)
    BY <2>1, <2>3, ListFacts
  <2>5. p \in DOMAIN Bytes(frag) /\ Bytes(frag)[p] = ByteAt(frag, p)
    BY <2>3, BytesFacts
  <2> QED
    BY <2>2, <2>4, <2>5 DEF Agree
<1>4. ASSUME ~Agree(f, Bytes(frag)) PROVE \E i \in first .. last : Contradicts(rs[i], frag)
  <2>1. PICK p \in DOMAIN f \cap DOMAIN Bytes(frag) : f[p] # Bytes(frag)[p]
    BY <1>4 DEF Agree
  <2>2. p \in Nat /\ Holds(frag, p) /\ Bytes(frag)[p] = ByteAt(frag, p)
    BY BytesFacts
  <2>3. PICK i \in DOMAIN rs : Holds(rs[i], p)
    BY ListFacts
  <2>4. f[p] = ByteAt(rs[i], p)
    BY <2>2, <2>3, ListFacts
  <2>5. rs[i].off <= p /\ p < End(rs[i]) /\ frag.off <= p /\ p < End(frag)
    BY <2>2, <2>3 DEF Holds
  <2>6. i >= first
    <3>1. ~(End(rs[i]) < frag.off)
      BY <1>1, <2>2, <2>5
    <3>2. ~(i < first)
      BY <1>2, <3>1, FirstIs
    <3> QED
      BY <1>1, <1>2, <3>2
  <2>7. i <= last
    <3>1. rs[i].off <= End(frag)
      BY <1>1, <2>2, <2>5
    <3> QED
      BY <1>2, <2>6, <3>1, LastIs
  <2>8. i \in first .. last
    BY <1>1, <1>2, <2>6, <2>7
  <2>9. p \in Overlap(rs[i], frag)
    BY <1>1, <2>2, <2>3, OverlapIs
  <2>10. Contradicts(rs[i], frag)
    BY <2>1, <2>2, <2>4, <2>9 DEF Contradicts
  <2> QED
    BY <2>8, <2>10
<1> QED
  BY <1>2, <1>3, <1>4

(* One range of what a fragment touches: it holds the bytes of all of them.   *)
TouchedBy(touched, frag, f) ==
  \A r \in touched : /\ r \in ByteRanges
              /\ frag.off <= End(r) /\ r.off <= End(frag) /\ End(r) <= MaxCryptoBytes
              /\ \A p \in Nat : Holds(r, p) => f[p] = ByteAt(r, p)

MergeOf(m, touched, frag, f) ==
  /\ m \in ByteRanges /\ m.data # <<>>
  /\ \A p \in Nat : Holds(m, p) <=> Holds(frag, p) \/ \E r \in touched : Holds(r, p)
  /\ \A p \in Nat : Holds(m, p) =>
       ByteAt(m, p) = IF Holds(frag, p) THEN ByteAt(frag, p) ELSE f[p]
  /\ m.off = frag.off \/ \E r \in touched : m.off = r.off
  /\ End(m) = End(frag) \/ \E r \in touched : End(m) = End(r)

LEMMA MergeIs ==
  ASSUME NEW touched, NEW frag \in ByteRanges, frag.data # <<>>, End(frag) <= MaxCryptoBytes,
         NEW f, TouchedBy(touched, frag, f)
  PROVE  MergeOf(Merge(touched, frag), touched, frag, f)
<1> DEFINE all == touched \cup {frag}
           start == Min({r.off : r \in all})
           end == Max({End(r) : r \in all})
           byte(p) == IF p \in frag.off .. End(frag) - 1 THEN ByteAt(frag, p)
                      ELSE ByteAt(CHOOSE r \in touched : p \in r.off .. End(r) - 1, p)
           d == [i \in 1 .. end - start |-> byte(start + i - 1)]
<1> DEFINE B == MaxCryptoBytes
<1>0. /\ \A r \in touched : /\ r \in ByteRanges
                      /\ frag.off <= End(r) /\ r.off <= End(frag) /\ End(r) <= B
                      /\ \A p \in Nat : Holds(r, p) => f[p] = ByteAt(r, p)
      /\ End(frag) <= B /\ B \in Nat
  BY Limits DEF TouchedBy
<1> HIDE DEF B
<1>1. /\ \A r \in all : r \in ByteRanges /\ r.off \in Nat /\ End(r) \in Nat /\ End(r) <= B
      /\ frag.off \in Nat /\ End(frag) \in Nat /\ frag.off < End(frag)
  BY <1>0, RangeFacts
<1>2. PICK a : a = start /\ a \in {r.off : r \in all} /\ \A y \in {r.off : r \in all} : a <= y
  <2> DEFINE T == {r.off : r \in all}
  <2>1. T \in SUBSET Nat /\ frag.off \in T
    BY <1>1
  <2>2. T # {}
    BY <2>1
  <2>3. Min(T) \in T /\ \A y \in T : Min(T) <= y
    <3> HIDE DEF T
    <3> QED
      BY <2>1, <2>2, MinFacts
  <2> QED
    BY <2>3
<1>3. PICK b : b = end /\ b \in {End(r) : r \in all} /\ \A y \in {End(r) : r \in all} : y <= b
  <2> DEFINE T == {End(r) : r \in all}
  <2>1. T \in SUBSET Nat /\ End(frag) \in T /\ \A y \in T : y <= B
    BY <1>1
  <2>2. T # {}
    BY <2>1
  <2>3. Max(T) \in T /\ \A y \in T : y <= Max(T)
    <3> HIDE DEF T
    <3> QED
      BY <1>0, <2>1, <2>2, MaxFacts
  <2> QED
    BY <2>3
<1>4. PICK ra \in all : a = ra.off
  BY <1>2
<1>5. PICK rb \in all : b = End(rb)
  BY <1>3
<1>6. a \in Nat /\ b \in Nat /\ \A r \in all : a <= r.off /\ End(r) <= b
  BY <1>1, <1>2, <1>3, <1>4, <1>5
<1>7. PICK m : m = Merge(touched, frag) /\ m = [off |-> a, data |-> d]
  <2>1. Merge(touched, frag) = [off |-> start, data |-> d]
    BY DEF Merge
  <2> QED
    BY <1>2, <2>1
<1> DEFINE Somewhere(p) == Holds(frag, p) \/ \E r \in touched : Holds(r, p)
<1>8. ASSUME NEW p \in Nat PROVE (a <= p /\ p < b) <=> Somewhere(p)
  <2>1. ASSUME Somewhere(p) PROVE a <= p /\ p < b
    <3>1. PICK r \in all : Holds(r, p)
      BY <2>1
    <3> QED
      BY <1>1, <1>6, <3>1 DEF Holds
  <2>2. ASSUME a <= p, p < b PROVE Somewhere(p)
    <3>1. CASE p < frag.off
      <4>1. ra # frag
        BY <1>1, <1>4, <2>2, <3>1
      <4>2. ra \in touched /\ frag.off <= End(ra)
        BY <1>0, <4>1
      <4>3. Holds(ra, p)
        BY <1>1, <1>4, <2>2, <3>1, <4>2 DEF Holds
      <4> QED
        BY <4>2, <4>3
    <3>2. CASE End(frag) <= p
      <4>1. rb # frag
        BY <1>1, <1>5, <2>2, <3>2
      <4>2. rb \in touched /\ rb.off <= End(frag)
        BY <1>0, <4>1
      <4>3. Holds(rb, p)
        BY <1>1, <1>5, <2>2, <3>2, <4>2 DEF Holds
      <4> QED
        BY <4>2, <4>3
    <3>3. CASE frag.off <= p /\ p < End(frag)
      BY <3>3 DEF Holds
    <3> QED
      BY <1>1, <3>1, <3>2, <3>3
  <2> QED
    BY <2>1, <2>2
<1>9. ASSUME NEW p \in Nat, a <= p, p < b
      PROVE  /\ byte(p) = IF Holds(frag, p) THEN ByteAt(frag, p) ELSE f[p]
             /\ byte(p) \in CryptoBytes
  <2>1. CASE Holds(frag, p)
    <3>1. p \in frag.off .. End(frag) - 1
      BY <1>1, <2>1 DEF Holds
    <3> QED
      BY <1>9, <2>1, <3>1, RangeFacts
  <2>2. CASE ~Holds(frag, p)
    <3> DEFINE P(r) == p \in r.off .. End(r) - 1
               c == CHOOSE r \in touched : P(r)
    <3>1. p \notin frag.off .. End(frag) - 1
      BY <1>1, <2>2 DEF Holds
    <3>2. \A r \in touched : P(r) <=> Holds(r, p)
      BY <1>1 DEF Holds
    <3>3. \E r \in touched : P(r)
      BY <1>8, <1>9, <2>2, <3>2
    <3>4. c \in touched /\ P(c)
      BY <3>3
    <3>5. c \in touched /\ Holds(c, p)
      BY <3>2, <3>4
    <3>6. byte(p) = ByteAt(c, p)
      BY <3>1
    <3> HIDE DEF c, byte
    <3>7. ByteAt(c, p) \in CryptoBytes /\ f[p] = ByteAt(c, p)
      BY <1>0, <1>9, <3>5, RangeFacts
    <3> QED
      BY <2>2, <3>6, <3>7
  <2> QED
    BY <2>1, <2>2
<1> HIDE DEF byte
<1>10. a < b /\ b - a \in Nat
  BY <1>1, <1>6
<1>11. d = [i \in 1 .. b - a |-> byte(a + i - 1)]
  BY <1>2, <1>3
<1>12. d \in [1 .. b - a -> CryptoBytes]
  <2>1. ASSUME NEW i \in 1 .. b - a PROVE byte(a + i - 1) \in CryptoBytes
    <3>1. PICK p \in Nat : p = a + i - 1
      BY <1>6
    <3>2. a <= p /\ p < b
      BY <1>6, <3>1
    <3> QED
      BY <1>9, <3>1, <3>2
  <2> QED
    BY <1>11, <2>1
<1>13. \A i \in 1 .. b - a : d[i] = byte(a + i - 1)
  BY <1>11
<1> HIDE DEF d
<1>14. d \in Seq(CryptoBytes) /\ Len(d) = b - a
  BY <1>10, <1>12, FunctionIsList
<1>15. m \in ByteRanges /\ m.off = a /\ m.data = d /\ End(m) = b /\ m.data # <<>>
  <2>1. m.off = a /\ m.data = d /\ m \in ByteRanges
    BY <1>6, <1>7, <1>14 DEF ByteRanges
  <2>2. End(m) = b
    BY <1>6, <1>14, <2>1 DEF End
  <2> QED
    BY <1>10, <1>6, <2>1, <2>2, RangeFacts
<1>16. \A p \in Nat : Holds(m, p) <=> a <= p /\ p < b
  BY <1>15 DEF Holds
<1>17. ASSUME NEW p \in Nat, Holds(m, p) PROVE ByteAt(m, p) = byte(p)
  <2>1. a <= p /\ p < b
    BY <1>16, <1>17
  <2>2. PICK i \in 1 .. b - a : i = p - a + 1
    BY <1>6, <2>1
  <2>3. a + i - 1 = p
    BY <1>6, <2>2
  <2> QED
    BY <1>13, <1>15, <2>2, <2>3 DEF ByteAt
<1>18. m.off = frag.off \/ \E r \in touched : m.off = r.off
  BY <1>4, <1>15
<1>19. End(m) = End(frag) \/ \E r \in touched : End(m) = End(r)
  BY <1>5, <1>15
<1> QED
  BY <1>7, <1>8, <1>9, <1>15, <1>16, <1>17, <1>18, <1>19 DEF MergeOf

(* Replacing the elements first .. last of a list by one.                     *)
Spliced(sq, S, rs, m, first, last) ==
  /\ sq \in Seq(S) /\ Len(sq) = first + Len(rs) - last
  /\ \A i \in 1 .. first - 1 : sq[i] = rs[i]
  /\ sq[first] = m
  /\ \A i \in last + 1 .. Len(rs) : sq[i - last + first] = rs[i]

LEMMA SplicedIs ==
  ASSUME NEW S, NEW rs \in Seq(S), NEW m \in S,
         NEW first \in 1 .. Len(rs) + 1, NEW last \in first - 1 .. Len(rs)
  PROVE  Spliced(SubSeq(rs, 1, first - 1) \o <<m>> \o SubSeq(rs, last + 1, Len(rs)),
                 S, rs, m, first, last)
<1>1. Len(rs) \in Nat /\ first \in Nat /\ last \in Nat /\ first - 1 <= last /\ last <= Len(rs)
  BY LenProperties
<1>2. \A i \in 1 .. Len(rs) : rs[i] \in S
  BY ElementOfSeq
<1>3. PICK u : u = SubSeq(rs, 1, first - 1)
  OBVIOUS
<1>4. /\ u \in Seq(S) /\ Len(u) = first - 1
      /\ \A i \in 1 .. first - 1 : u[i] = rs[i]
  <2>1. 1 \in Int /\ first - 1 \in Int /\ \A i \in 1 .. first - 1 : rs[i] \in S
    BY <1>1, <1>2
  <2>2. /\ u \in Seq(S) /\ Len(u) = (IF 1 <= first - 1 THEN first - 1 - 1 + 1 ELSE 0)
        /\ \A i \in 1 .. first - 1 - 1 + 1 : u[i] = rs[1 + i - 1]
    BY <1>3, <2>1, SubSeqProperties
  <2> QED
    BY <1>1, <2>2
<1>5. PICK v : v = SubSeq(rs, last + 1, Len(rs))
  OBVIOUS
<1>6. /\ v \in Seq(S) /\ Len(v) = Len(rs) - last
      /\ \A i \in 1 .. Len(rs) - last : v[i] = rs[last + i]
  <2>1. last + 1 \in Int /\ Len(rs) \in Int /\ \A i \in last + 1 .. Len(rs) : rs[i] \in S
    BY <1>1, <1>2
  <2>2. /\ v \in Seq(S) /\ Len(v) = (IF last + 1 <= Len(rs) THEN Len(rs) - (last + 1) + 1 ELSE 0)
        /\ \A i \in 1 .. Len(rs) - (last + 1) + 1 : v[i] = rs[last + 1 + i - 1]
    BY <1>5, <2>1, SubSeqProperties
  <2> QED
    BY <1>1, <2>2
<1>7. PICK w : w = u \o <<m>>
  OBVIOUS
<1>8. /\ w \in Seq(S) /\ Len(w) = first /\ w[first] = m
      /\ \A i \in 1 .. first - 1 : w[i] = rs[i]
  <2>1. PICK one : one = <<m>> /\ one \in Seq(S) /\ Len(one) = 1 /\ one[1] = m
    <3>1. <<m>> \in Seq(S) /\ Len(<<m>>) = 1 /\ <<m>>[1] = m
      OBVIOUS
    <3> QED
      BY <3>1, Zenon
  <2>2. /\ w \in Seq(S) /\ Len(w) = Len(u) + Len(one)
        /\ \A i \in 1 .. Len(u) + Len(one) :
             w[i] = IF i <= Len(u) THEN u[i] ELSE one[i - Len(u)]
    <3>1. u \in Seq(S) /\ one \in Seq(S) /\ w = u \o one
      BY <1>4, <1>7, <2>1
    <3> QED
      BY <3>1, ConcatProperties
  <2>3. Len(u) = first - 1 /\ Len(u) + Len(one) = first
    BY <1>1, <1>4, <2>1
  <2>4. first \in 1 .. first /\ first - (first - 1) = 1 /\ ~(first <= first - 1)
    BY <1>1
  <2>5. w[first] = m
    BY <2>1, <2>2, <2>3, <2>4
  <2>6. \A i \in 1 .. first - 1 : i \in 1 .. first /\ i <= first - 1
    BY <1>1
  <2>7. \A i \in 1 .. first - 1 : w[i] = rs[i]
    BY <1>4, <2>2, <2>3, <2>6
  <2> QED
    BY <2>2, <2>3, <2>5, <2>7
<1>9. PICK sq : sq = w \o v
  OBVIOUS
<1>10. /\ sq \in Seq(S) /\ Len(sq) = first + (Len(rs) - last)
       /\ \A i \in 1 .. first + (Len(rs) - last) : sq[i] = IF i <= first THEN w[i] ELSE v[i - first]
  <2>1. /\ sq \in Seq(S) /\ Len(sq) = Len(w) + Len(v)
        /\ \A i \in 1 .. Len(w) + Len(v) : sq[i] = IF i <= Len(w) THEN w[i] ELSE v[i - Len(w)]
    <3>1. w \in Seq(S) /\ v \in Seq(S)
      BY <1>6, <1>8
    <3> QED
      BY <1>9, <3>1, ConcatProperties
  <2>2. Len(w) = first /\ Len(v) = Len(rs) - last
    BY <1>6, <1>8
  <2> QED
    BY <2>1, <2>2
<1>11. \A i \in 1 .. first - 1 : sq[i] = rs[i]
  BY <1>1, <1>8, <1>10
<1>12. sq[first] = m
  BY <1>1, <1>8, <1>10
<1>13. ASSUME NEW i \in last + 1 .. Len(rs) PROVE sq[i - last + first] = rs[i]
  <2>1. i \in Nat /\ last < i /\ i <= Len(rs)
    BY <1>1
  <2>2. PICK j \in 1 .. Len(rs) - last : j = i - last
    BY <1>1, <2>1
  <2>3. PICK k \in 1 .. first + (Len(rs) - last) : k = j + first
    BY <1>1, <2>2
  <2>4. k - first = j /\ ~(k <= first) /\ last + j = i
    BY <1>1, <2>1, <2>2, <2>3
  <2>5. sq[k] = v[j]
    BY <1>10, <2>4
  <2>6. v[j] = rs[i]
    BY <1>6, <2>4
  <2> QED
    BY <2>2, <2>3, <2>5, <2>6
<1>14. first + (Len(rs) - last) = first + Len(rs) - last
  BY <1>1
<1> QED
  BY <1>3, <1>5, <1>7, <1>9, <1>10, <1>11, <1>12, <1>13, <1>14 DEF Spliced

(* What has arrived after a fragment that contradicts nothing. *)
LEMMA JoinFacts ==
  ASSUME NEW f \in Contents, NEW frag \in ByteRanges, End(frag) <= MaxCryptoBytes,
         Agree(f, Bytes(frag))
  PROVE  LET all == Join(f, Bytes(frag)) IN
         /\ all \in Contents
         /\ \A p : p \in DOMAIN all <=> p \in DOMAIN f \/ (p \in Nat /\ Holds(frag, p))
         /\ \A p \in DOMAIN all : all[p] = IF Holds(frag, p) THEN ByteAt(frag, p) ELSE f[p]
<1> DEFINE D == DOMAIN f \cup DOMAIN Bytes(frag)
           all == Join(f, Bytes(frag))
<1>1. /\ \A p \in DOMAIN f : p \in Nat /\ p < MaxCryptoBytes /\ f[p] \in CryptoBytes
      /\ frag.off \in Nat /\ End(frag) \in Nat /\ MaxCryptoBytes \in Nat
  BY ContentsFacts, RangeFacts, Limits
<1>2. DOMAIN all = D /\ \A p \in D : all[p] = IF p \in DOMAIN f THEN f[p] ELSE Bytes(frag)[p]
  BY DEF Join
<1>3. \A p : p \in D <=> p \in DOMAIN f \/ (p \in Nat /\ Holds(frag, p))
  BY BytesFacts
<1>4. ASSUME NEW p \in D
      PROVE  all[p] = (IF Holds(frag, p) THEN ByteAt(frag, p) ELSE f[p]) /\ all[p] \in CryptoBytes
  <2>1. p \in Nat
    BY <1>1, <1>3
  <2>2. CASE p \in DOMAIN f /\ Holds(frag, p)
    <3>1. p \in DOMAIN Bytes(frag) /\ Bytes(frag)[p] = ByteAt(frag, p)
      BY <2>1, <2>2, BytesFacts
    <3>2. f[p] = Bytes(frag)[p]
      BY <2>2, <3>1 DEF Agree
    <3> QED
      BY <1>1, <1>2, <2>2, <3>1, <3>2
  <2>3. CASE p \in DOMAIN f /\ ~Holds(frag, p)
    BY <1>1, <1>2, <2>3
  <2>4. CASE p \notin DOMAIN f
    BY <1>2, <1>3, <2>4, BytesFacts
  <2> QED
    BY <2>2, <2>3, <2>4
<1>5. all \in Contents
  <2>1. \A p \in D : p \in 0 .. MaxCryptoBytes - 1
    BY <1>1, <1>3 DEF Holds
  <2>2. D \in SUBSET (0 .. MaxCryptoBytes - 1)
    BY <2>1
  <2>3. all \in [D -> CryptoBytes]
    <3>1. all = [p \in D |-> all[p]]
      BY DEF Join
    <3> HIDE DEF all, D
    <3> QED
      BY <1>4, <3>1
  <2> HIDE DEF all, D
  <2> QED
    BY <2>2, <2>3 DEF Contents, Partial
<1> QED
  BY <1>2, <1>3, <1>4, <1>5

(* add's list stands for everything that arrived.                             *)
MergedList(rs, frag) ==
  LET first == FirstTouched(rs, frag)
      last  == LastTouched(rs, frag)
  IN  SubSeq(rs, 1, first - 1)
      \o <<Merge({rs[i] : i \in first .. last}, frag)>>
      \o SubSeq(rs, last + 1, Len(rs))

LEMMA MergedRepresents ==
  ASSUME NEW f \in Contents, NEW rs, Represents(rs, f),
         NEW frag \in ByteRanges, frag.data # <<>>, End(frag) <= MaxCryptoBytes,
         Agree(f, Bytes(frag))
  PROVE  Represents(MergedList(rs, frag), Join(f, Bytes(frag)))
<1>1. /\ rs \in Seq(ByteRanges) /\ Len(rs) \in Nat /\ DOMAIN rs = 1 .. Len(rs)
      /\ \A i \in DOMAIN rs : /\ rs[i] \in ByteRanges /\ i \in Nat
                              /\ rs[i].off \in Nat /\ End(rs[i]) \in Nat /\ rs[i].off < End(rs[i])
      /\ \A i, j \in DOMAIN rs : i < j => End(rs[i]) < rs[j].off
      /\ \A p \in DOMAIN f : \E i \in DOMAIN rs : Holds(rs[i], p)
      /\ \A i \in DOMAIN rs : \A p \in Nat :
           Holds(rs[i], p) => p \in DOMAIN f /\ f[p] = ByteAt(rs[i], p)
  BY ListFacts
<1>2. frag.off \in Nat /\ End(frag) \in Nat /\ frag.off < End(frag) /\ MaxCryptoBytes \in Nat
  BY RangeFacts, Limits
<1>3. PICK first, last :
        /\ first = FirstTouched(rs, frag) /\ last = LastTouched(rs, frag)
        /\ first \in 1 .. Len(rs) + 1 /\ last \in first - 1 .. Len(rs)
        /\ \A i \in DOMAIN rs : i < first <=> End(rs[i]) < frag.off
        /\ \A i \in DOMAIN rs : i >= first => (i <= last <=> rs[i].off <= End(frag))
  BY FirstIs, LastIs
<1>4. /\ first \in Nat /\ last \in Nat /\ Len(rs) \in Nat /\ DOMAIN rs = 1 .. Len(rs)
      /\ first >= 1 /\ first - 1 <= last /\ last <= Len(rs)
  BY <1>1, <1>3
<1> DEFINE touched == {rs[i] : i \in first .. last}
<1>5. \A i \in first .. last : i \in DOMAIN rs /\ i >= first /\ i <= last
  BY <1>1, <1>3
<1>6. \A i \in DOMAIN rs : End(rs[i]) <= MaxCryptoBytes
  <2>1. \A i \in DOMAIN rs : End(rs[i]) - 1 \in DOMAIN f
    BY ListFacts
  <2>2. \A i \in DOMAIN rs : End(rs[i]) - 1 < MaxCryptoBytes
    BY <2>1, ContentsFacts
  <2> QED
    BY <1>1, <1>2, <2>2
<1>7. \A r \in touched : /\ r \in ByteRanges
                   /\ frag.off <= End(r) /\ r.off <= End(frag) /\ End(r) <= MaxCryptoBytes
                   /\ \A p \in Nat : Holds(r, p) => f[p] = ByteAt(r, p)
  <2>1. ASSUME NEW i \in first .. last
        PROVE  /\ rs[i] \in ByteRanges
               /\ frag.off <= End(rs[i]) /\ rs[i].off <= End(frag) /\ End(rs[i]) <= MaxCryptoBytes
               /\ \A p \in Nat : Holds(rs[i], p) => f[p] = ByteAt(rs[i], p)
    <3>1. i \in DOMAIN rs /\ i >= first /\ i <= last
      BY <1>5
    <3>2. ~(i < first)
      BY <1>1, <1>4, <3>1
    <3>3. ~(End(rs[i]) < frag.off) /\ rs[i].off <= End(frag)
      BY <1>3, <3>1, <3>2
    <3> QED
      BY <1>1, <1>2, <1>6, <3>1, <3>3
  <2> QED
    BY <2>1
<1>8. PICK m :
        /\ m = Merge(touched, frag)
        /\ m \in ByteRanges /\ m.data # <<>>
        /\ \A p \in Nat : Holds(m, p) <=> Holds(frag, p) \/ \E r \in touched : Holds(r, p)
        /\ \A p \in Nat : Holds(m, p) =>
             ByteAt(m, p) = IF Holds(frag, p) THEN ByteAt(frag, p) ELSE f[p]
        /\ m.off = frag.off \/ \E r \in touched : m.off = r.off
        /\ End(m) = End(frag) \/ \E r \in touched : End(m) = End(r)
  <2>1. TouchedBy(touched, frag, f)
    BY <1>7 DEF TouchedBy
  <2> HIDE DEF touched
  <2>2. MergeOf(Merge(touched, frag), touched, frag, f)
    BY <2>1, MergeIs
  <2> QED
    BY <2>2 DEF MergeOf
<1>9. /\ \A p \in Nat : Holds(m, p) <=> Holds(frag, p) \/ \E i \in first .. last : Holds(rs[i], p)
      /\ m.off = frag.off \/ \E i \in first .. last : m.off = rs[i].off
      /\ End(m) = End(frag) \/ \E i \in first .. last : End(m) = End(rs[i])
  BY <1>8
<1>10. m.off \in Nat /\ End(m) \in Nat
  BY <1>8, RangeFacts
<1>11. PICK sq : sq = MergedList(rs, frag)
  OBVIOUS
<1>12. /\ sq \in Seq(ByteRanges) /\ Len(sq) = first + Len(rs) - last
       /\ \A i \in 1 .. first - 1 : sq[i] = rs[i]
       /\ sq[first] = m
       /\ \A i \in last + 1 .. Len(rs) : sq[i - last + first] = rs[i]
  <2>1. sq = SubSeq(rs, 1, first - 1) \o <<m>> \o SubSeq(rs, last + 1, Len(rs))
    BY <1>3, <1>8, <1>11 DEF MergedList
  <2>2. Spliced(sq, ByteRanges, rs, m, first, last)
    BY <1>1, <1>3, <1>8, <2>1, SplicedIs
  <2> QED
    BY <2>2 DEF Spliced
<1>13. DOMAIN sq = 1 .. first + Len(rs) - last
  BY <1>12, LenProperties
(* Every index is one before, the merged range's, or one after.             *)
<1>14. ASSUME NEW k \in DOMAIN sq
       PROVE  \/ k < first /\ k \in DOMAIN rs /\ sq[k] = rs[k]
              \/ k = first /\ sq[k] = m
              \/ /\ k > first /\ k + last - first \in DOMAIN rs /\ k + last - first > last
                 /\ sq[k] = rs[k + last - first]
  <2>1. k \in Nat /\ k >= 1 /\ k <= first + Len(rs) - last
    BY <1>1, <1>3, <1>4, <1>13
  <2>2. CASE k < first
    <3>1. k \in 1 .. first - 1 /\ k \in DOMAIN rs
      BY <1>1, <1>3, <1>4, <2>1, <2>2
    <3> QED
      BY <1>12, <2>2, <3>1
  <2>3. CASE k > first
    <3>1. PICK i \in last + 1 .. Len(rs) : i = k + last - first
      BY <1>4, <2>1, <2>3
    <3>2. i - last + first = k /\ i > last /\ i \in DOMAIN rs
      BY <1>4, <2>1, <3>1
    <3>3. sq[i - last + first] = rs[i]
      BY <1>12
    <3> QED
      BY <2>3, <3>1, <3>2, <3>3
  <2> QED
    BY <1>4, <1>12, <2>1, <2>2, <2>3
<1>15. ASSUME NEW i \in DOMAIN rs, i < first PROVE End(rs[i]) < m.off
  <2>1. End(rs[i]) < frag.off
    BY <1>3, <1>15
  <2>2. \A j \in first .. last : j \in DOMAIN rs /\ i < j
    BY <1>1, <1>4, <1>5, <1>15
  <2>3. \A j \in first .. last : End(rs[i]) < rs[j].off
    BY <1>1, <2>2
  <2> QED
    BY <1>9, <2>1, <2>3
<1>16. ASSUME NEW i \in DOMAIN rs, i > last PROVE End(m) < rs[i].off
  <2>1. i >= first /\ ~(i <= last)
    BY <1>1, <1>3, <1>4, <1>16
  <2>2. End(frag) < rs[i].off
    <3>1. ~(rs[i].off <= End(frag))
      BY <1>3, <2>1
    <3> QED
      BY <1>1, <1>2, <3>1
  <2>3. \A j \in first .. last : j \in DOMAIN rs /\ j < i
    BY <1>1, <1>4, <1>5, <1>16
  <2>4. \A j \in first .. last : End(rs[j]) < rs[i].off
    BY <1>1, <2>3
  <2> QED
    BY <1>9, <2>2, <2>4
<1>17. \A k \in DOMAIN sq : sq[k].data # <<>>
  <2>1. \A i \in DOMAIN rs : rs[i].data # <<>>
    BY DEF Represents
  <2> QED
    BY <1>8, <1>14, <2>1
<1>18. ASSUME NEW k \in DOMAIN sq, NEW l \in DOMAIN sq, k < l PROVE End(sq[k]) < sq[l].off
  <2>1. k \in Nat /\ l \in Nat
    BY <1>1, <1>3, <1>4, <1>13
  <2>2. CASE k < first /\ k \in DOMAIN rs /\ sq[k] = rs[k]
    <3>1. CASE l < first /\ l \in DOMAIN rs /\ sq[l] = rs[l]
      BY <1>1, <1>18, <2>2, <3>1
    <3>2. CASE l = first /\ sq[l] = m
      BY <1>15, <2>2, <3>2
    <3>3. CASE /\ l > first /\ l + last - first \in DOMAIN rs /\ l + last - first > last
               /\ sq[l] = rs[l + last - first]
      <4>1. k < l + last - first
        BY <1>3, <1>4, <2>1, <2>2, <3>3
      <4> QED
        BY <1>1, <2>2, <3>3, <4>1
    <3> QED
      BY <1>14, <3>1, <3>2, <3>3
  <2>3. CASE k = first /\ sq[k] = m
    <3>1. CASE /\ l > first /\ l + last - first \in DOMAIN rs /\ l + last - first > last
               /\ sq[l] = rs[l + last - first]
      BY <1>16, <2>3, <3>1
    <3>2. l > first
      BY <1>18, <2>3, <2>1, <1>4
    <3>3. ~(l < first) /\ ~(l = first)
      BY <3>2, <2>1, <1>4
    <3> QED
      BY <1>14, <3>1, <3>3
  <2>4. CASE /\ k > first /\ k + last - first \in DOMAIN rs /\ k + last - first > last
             /\ sq[k] = rs[k + last - first]
    <3>1. l > first /\ k + last - first < l + last - first
      BY <1>4, <1>18, <2>1, <2>4
    <3>2. ~(l < first) /\ ~(l = first)
      BY <3>1, <2>1, <1>4
    <3>3. l + last - first \in DOMAIN rs /\ sq[l] = rs[l + last - first]
      BY <1>14, <3>2
    <3> QED
      BY <1>1, <2>4, <3>1, <3>3
  <2> QED
    BY <1>14, <2>2, <2>3, <2>4
<1> DEFINE all == Join(f, Bytes(frag))
<1>19. /\ \A p : p \in DOMAIN all <=> p \in DOMAIN f \/ (p \in Nat /\ Holds(frag, p))
       /\ \A p \in DOMAIN all : all[p] = IF Holds(frag, p) THEN ByteAt(frag, p) ELSE f[p]
       /\ \A p \in DOMAIN f : p \in Nat
  BY JoinFacts, ContentsFacts
<1> HIDE DEF all
<1>20. ASSUME NEW i \in DOMAIN rs, ~(i \in first .. last)
       PROVE  \E k \in DOMAIN sq : sq[k] = rs[i]
  <2>1. i \in Nat /\ i >= 1 /\ i <= Len(rs) /\ (i < first \/ i > last)
    BY <1>1, <1>4, <1>20
  <2>2. CASE i < first
    <3>1. i \in 1 .. first - 1 /\ i \in DOMAIN sq
      BY <1>1, <1>3, <1>4, <1>13, <2>1, <2>2
    <3> QED
      BY <1>12, <3>1
  <2>3. CASE i > last
    <3>1. i \in last + 1 .. Len(rs)
      BY <1>1, <1>4, <2>1, <2>3
    <3>2. i - last + first \in DOMAIN sq
      BY <1>1, <1>3, <1>4, <1>13, <2>1, <2>3
    <3> QED
      BY <1>12, <3>1, <3>2
  <2> QED
    BY <2>1, <2>2, <2>3
<1>21. first \in DOMAIN sq
  BY <1>1, <1>3, <1>4, <1>13
<1>22. ASSUME NEW p \in DOMAIN all PROVE p \in Nat /\ \E k \in DOMAIN sq : Holds(sq[k], p)
  <2>1. p \in Nat
    BY <1>19
  <2>2. CASE Holds(frag, p)
    <3>1. Holds(m, p)
      BY <1>9, <2>1, <2>2
    <3> QED
      BY <1>12, <1>21, <2>1, <3>1
  <2>3. CASE ~Holds(frag, p)
    <3>1. PICK i \in DOMAIN rs : Holds(rs[i], p)
      BY <1>1, <1>19, <2>3
    <3>2. CASE i \in first .. last
      <4>1. Holds(m, p)
        BY <1>9, <2>1, <3>1, <3>2
      <4> QED
        BY <1>12, <1>21, <2>1, <4>1
    <3>3. CASE ~(i \in first .. last)
      BY <1>20, <2>1, <3>1, <3>3
    <3> QED
      BY <3>2, <3>3
  <2> QED
    BY <2>2, <2>3
<1>23. ASSUME NEW k \in DOMAIN sq, NEW p \in Nat, Holds(sq[k], p)
       PROVE  p \in DOMAIN all /\ all[p] = ByteAt(sq[k], p)
  <2>1. CASE sq[k] = m
    <3>1. Holds(frag, p) \/ p \in DOMAIN f
      BY <1>1, <1>5, <1>9, <1>23, <2>1
    <3>2. p \in DOMAIN all
      BY <1>19, <3>1
    <3> QED
      BY <1>8, <1>19, <1>23, <2>1, <3>2
  <2>2. ASSUME NEW i \in DOMAIN rs, sq[k] = rs[i], i < first \/ i > last
        PROVE  p \in DOMAIN all /\ all[p] = ByteAt(sq[k], p)
    <3>1. p \in DOMAIN f /\ f[p] = ByteAt(rs[i], p)
      BY <1>1, <1>23, <2>2
    <3>2. rs[i].off <= p /\ p < End(rs[i])
      BY <1>23, <2>2 DEF Holds
    <3>3. ~Holds(frag, p)
      <4>1. CASE i < first
        <5>1. End(rs[i]) < frag.off
          BY <1>3, <4>1
        <5> QED
          BY <1>1, <1>2, <3>2, <5>1 DEF Holds
      <4>2. CASE i > last
        <5>1. ~(rs[i].off <= End(frag))
          <6>1. i >= first /\ ~(i <= last)
            BY <1>1, <1>3, <1>4, <4>2
          <6> QED
            BY <1>3, <6>1
        <5> QED
          BY <1>1, <1>2, <3>2, <5>1 DEF Holds
      <4> QED
        BY <2>2, <4>1, <4>2
    <3> QED
      BY <1>19, <2>2, <3>1, <3>3
  <2> QED
    BY <1>14, <2>1, <2>2
<1>24. DOMAIN all = {p \in Nat : \E k \in DOMAIN sq : Holds(sq[k], p)}
  BY <1>22, <1>23
<1>25. Represents(sq, all)
  BY <1>12, <1>17, <1>18, <1>23, <1>24 DEF Represents
<1> QED
  BY <1>11, <1>25 DEF all

(* The lengths of the ranges never add up to more than the limit, so the last *)
(* error of add, too much CRYPTO data, is never returned: every pair of a     *)
(* range and an index in it is a different byte below the limit.              *)
THEOREM UniqueBytesBound ==
  ASSUME NEW f \in Contents, NEW rs, Represents(rs, f)
  PROVE  UniqueBytes(rs) <= MaxCryptoBytes
<1> DEFINE P == UNION {{i} \X DOMAIN rs[i].data : i \in DOMAIN rs}
           at == [x \in P |-> rs[x[1]].off + x[2] - 1]
<1>1. /\ DOMAIN rs = 1 .. Len(rs) /\ Len(rs) \in Nat
      /\ \A i \in DOMAIN rs : /\ rs[i] \in ByteRanges /\ i \in Nat
                              /\ rs[i].off \in Nat /\ End(rs[i]) \in Nat
      /\ \A i, j \in DOMAIN rs : i < j => End(rs[i]) < rs[j].off
  BY ListFacts
<1>2. \A i \in DOMAIN rs : /\ Len(rs[i].data) \in Nat /\ DOMAIN rs[i].data = 1 .. Len(rs[i].data)
                           /\ End(rs[i]) = rs[i].off + Len(rs[i].data)
  BY <1>1, RangeFacts
<1>3. ASSUME NEW x \in P
      PROVE  /\ x[1] \in DOMAIN rs /\ x[2] \in 1 .. Len(rs[x[1]].data)
             /\ x = <<x[1], x[2]>>
  <2>1. PICK i \in DOMAIN rs : x \in {i} \X DOMAIN rs[i].data
    OBVIOUS
  <2>2. x = <<x[1], x[2]>> /\ x[1] = i /\ x[2] \in DOMAIN rs[i].data
    BY <2>1
  <2> QED
    BY <1>2, <2>2
<1>4. ASSUME NEW i \in DOMAIN rs, NEW j \in 1 .. Len(rs[i].data)
      PROVE  /\ rs[i].off + j - 1 \in Nat
             /\ Holds(rs[i], rs[i].off + j - 1)
             /\ rs[i].off + j - 1 \in 0 .. MaxCryptoBytes - 1
  <2>1. PICK p \in Nat : p = rs[i].off + j - 1
    BY <1>1, <1>2
  <2>2. Holds(rs[i], p)
    BY <1>1, <1>2, <2>1 DEF Holds
  <2>3. p \in DOMAIN f
    BY <2>2, ListFacts
  <2>4. p \in 0 .. MaxCryptoBytes - 1
    BY <2>3, ContentsFacts, Limits
  <2> QED
    BY <2>1, <2>2, <2>4
<1>5. at \in [P -> 0 .. MaxCryptoBytes - 1]
  <2>1. \A x \in P : rs[x[1]].off + x[2] - 1 \in 0 .. MaxCryptoBytes - 1
    BY <1>3, <1>4
  <2> HIDE DEF P
  <2> QED
    BY <2>1
<1>6. ASSUME NEW x \in P, NEW y \in P, at[x] = at[y] PROVE x = y
  <2>1. PICK i, k : /\ i = x[1] /\ k = y[1] /\ i \in DOMAIN rs /\ k \in DOMAIN rs
                    /\ x[2] \in 1 .. Len(rs[i].data) /\ y[2] \in 1 .. Len(rs[k].data)
    BY <1>3
  <2>2. PICK p : p = rs[i].off + x[2] - 1 /\ p = rs[k].off + y[2] - 1
    <3>1. at[x] = rs[x[1]].off + x[2] - 1 /\ at[y] = rs[y[1]].off + y[2] - 1
      OBVIOUS
    <3> QED
      BY <1>6, <2>1, <3>1
  <2>3. p \in Nat /\ Holds(rs[i], p) /\ Holds(rs[k], p)
    BY <1>4, <2>1, <2>2
  <2>4. /\ rs[i].off <= p /\ p < End(rs[i]) /\ rs[k].off <= p /\ p < End(rs[k])
        /\ i \in Nat /\ k \in Nat /\ rs[i].off \in Nat /\ rs[k].off \in Nat
        /\ End(rs[i]) \in Nat /\ End(rs[k]) \in Nat
        /\ (i < k => End(rs[i]) < rs[k].off) /\ (k < i => End(rs[k]) < rs[i].off)
    BY <1>1, <2>1, <2>3 DEF Holds
  <2>5. i = k
    BY <2>3, <2>4
  <2>6. x[2] = y[2]
    BY <1>2, <2>1, <2>2, <2>4, <2>5
  <2> QED
    BY <1>3, <2>1, <2>5, <2>6
<1>7. at \in Injection(P, 0 .. MaxCryptoBytes - 1)
  <2> HIDE DEF P, at
  <2> QED
    BY <1>5, <1>6, Fun_IsInj
<1>8. /\ IsFiniteSet(0 .. MaxCryptoBytes - 1)
      /\ Cardinality(0 .. MaxCryptoBytes - 1) = MaxCryptoBytes
  <2>1. 0 \in Int /\ MaxCryptoBytes - 1 \in Int /\ MaxCryptoBytes \in Nat
    BY Limits
  <2>2. /\ IsFiniteSet(0 .. MaxCryptoBytes - 1)
        /\ Cardinality(0 .. MaxCryptoBytes - 1)
             = (IF 0 > MaxCryptoBytes - 1 THEN 0 ELSE MaxCryptoBytes - 1 - 0 + 1)
    BY <2>1, FS_Interval
  <2> QED
    BY <2>1, <2>2
<1>9. Cardinality(P) <= MaxCryptoBytes
  <2> HIDE DEF P, at
  <2> QED
    BY <1>7, <1>8, FS_Injection
<1> QED
  BY <1>9 DEF UniqueBytes

(* clientHello looks only at the first range: a hello is there exactly when   *)
(* its bytes are.                                                             *)
HasPrefix(f, m) == 0 .. m - 1 \subseteq DOMAIN f

LEMMA PrefixIs ==
  ASSUME NEW f \in Contents, NEW rs, Represents(rs, f), NEW m \in Nat, m > 0
  PROVE  HasPrefix(f, m)
           <=> (rs # <<>> /\ rs[1].off = 0 /\ m <= Len(rs[1].data))
<1>1. /\ rs \in Seq(ByteRanges) /\ Len(rs) \in Nat /\ DOMAIN rs = 1 .. Len(rs)
      /\ \A i \in DOMAIN rs : /\ rs[i] \in ByteRanges /\ i \in Nat
                              /\ rs[i].off \in Nat /\ End(rs[i]) \in Nat
                              /\ End(rs[i]) \notin DOMAIN f
                              /\ \A p \in rs[i].off .. End(rs[i]) - 1 : p \in DOMAIN f
      /\ \A i, j \in DOMAIN rs : i < j => End(rs[i]) < rs[j].off
      /\ \A p \in DOMAIN f : \E i \in DOMAIN rs : Holds(rs[i], p)
  BY ListFacts
<1>2. rs # <<>> <=> 1 \in DOMAIN rs
  BY <1>1, EmptySeq
<1>3. ASSUME 1 \in DOMAIN rs
      PROVE  /\ rs[1].off \in Nat /\ Len(rs[1].data) \in Nat /\ End(rs[1]) = rs[1].off + Len(rs[1].data)
  BY <1>1, <1>3, RangeFacts
<1>4. ASSUME 1 \in DOMAIN rs, rs[1].off = 0, m <= Len(rs[1].data)
      PROVE  0 .. m - 1 \subseteq DOMAIN f
  <2>1. \A p \in 0 .. m - 1 : p \in rs[1].off .. End(rs[1]) - 1
    BY <1>3, <1>4
  <2> QED
    BY <1>1, <1>4, <2>1
<1>5. ASSUME 0 .. m - 1 \subseteq DOMAIN f
      PROVE  1 \in DOMAIN rs /\ rs[1].off = 0 /\ m <= Len(rs[1].data)
  <2>1. 0 \in 0 .. m - 1
    OBVIOUS
  <2>2. PICK i \in DOMAIN rs : Holds(rs[i], 0)
    BY <1>1, <1>5, <2>1
  <2>3. rs[i].off = 0
    BY <1>1, <2>2 DEF Holds
  <2>4. 1 \in DOMAIN rs /\ i \in Nat /\ i >= 1
    BY <1>1
  <2>5. i = 1
    <3>1. 1 < i => End(rs[1]) < 0
      BY <1>1, <2>3, <2>4
    <3> QED
      BY <1>1, <2>4, <3>1
  <2>6. m <= End(rs[1])
    <3>1. SUFFICES ASSUME End(rs[1]) < m PROVE FALSE
      BY <1>1, <2>4
    <3>2. End(rs[1]) \in 0 .. m - 1
      BY <1>1, <2>4, <3>1
    <3> QED
      BY <1>1, <1>5, <2>4, <3>2
  <2> QED
    BY <1>3, <2>3, <2>4, <2>5, <2>6
<1> QED
  BY <1>2, <1>4, <1>5 DEF HasPrefix

(* clientHello reports a hello exactly when it is there. *)
LEMMA ClientHelloIs ==
  ASSUME NEW f \in Contents, NEW rs, Represents(rs, f)
  PROVE  ClientHello(rs) = "hello" <=> HelloIn(f)
<1>1. MaxCryptoBytes \in Nat /\ HeaderLen \in Nat /\ HeaderLen > 1 /\ \A b \in CryptoBytes : b \in Nat
  BY Limits
<1> DEFINE Header == rs # <<>> /\ rs[1].off = 0 /\ HeaderLen <= Len(rs[1].data)
<1>2. HasPrefix(f, HeaderLen) <=> Header
  BY <1>1, PrefixIs
<1>3. CASE ~Header
  <2>1. ~HelloIn(f)
    BY <1>2, <1>3 DEF HelloIn, HasPrefix
  <2>2. rs = <<>> \/ rs[1].off # 0 \/ Len(rs[1].data) < HeaderLen
    <3>1. rs = <<>> \/ Len(rs[1].data) \in Nat
      <4>1. rs \in Seq(ByteRanges) /\ Len(rs) \in Nat /\ DOMAIN rs = 1 .. Len(rs)
        BY ListFacts
      <4>2. rs # <<>> => 1 \in DOMAIN rs
        BY <4>1, EmptySeq
      <4> QED
        BY <4>2, ListFacts, RangeFacts
    <3> QED
      BY <1>1, <1>3, <3>1
  <2>3. ClientHello(rs) = "incomplete"
    BY <2>2 DEF ClientHello
  <2> QED
    BY <2>1, <2>3
<1>4. CASE Header
  <2>1. 1 \in DOMAIN rs
    <3>1. rs \in Seq(ByteRanges) /\ Len(rs) \in Nat /\ DOMAIN rs = 1 .. Len(rs)
      BY ListFacts
    <3> QED
      BY <1>4, <3>1, EmptySeq
  <2>2. /\ rs[1] \in ByteRanges /\ rs[1].data \in Seq(CryptoBytes) /\ Len(rs[1].data) \in Nat
        /\ End(rs[1]) = Len(rs[1].data) /\ rs[1].off = 0
    <3>1. rs[1] \in ByteRanges
      BY <2>1, ListFacts
    <3>2. /\ rs[1].data \in Seq(CryptoBytes) /\ Len(rs[1].data) \in Nat
          /\ End(rs[1]) = rs[1].off + Len(rs[1].data)
      BY <3>1, RangeFacts
    <3> QED
      BY <1>4, <3>1, <3>2
  <2>3. ASSUME NEW i \in 1 .. Len(rs[1].data)
        PROVE  f[i - 1] = rs[1].data[i] /\ rs[1].data[i] \in Nat
    <3>1. PICK p \in Nat : p = i - 1
      OBVIOUS
    <3>2. Holds(rs[1], p) /\ p - rs[1].off + 1 = i
      BY <2>2, <3>1 DEF Holds
    <3>3. f[p] = ByteAt(rs[1], p) /\ ByteAt(rs[1], p) = rs[1].data[i]
      <4>1. f[p] = ByteAt(rs[1], p)
        BY <2>1, <3>2, ListFacts
      <4>2. ByteAt(rs[1], p) = rs[1].data[i]
        BY <3>2 DEF ByteAt
      <4> QED
        BY <4>1, <4>2
    <3>4. rs[1].data[i] \in Nat
      BY <1>1, <2>2, ElementOfSeq
    <3> QED
      BY <3>1, <3>3, <3>4
  <2>4. PICK t, n : t = rs[1].data[1] /\ n = rs[1].data[HeaderLen]
    OBVIOUS
  <2>5. f[0] = t /\ f[HeaderLen - 1] = n /\ n \in Nat
    <3>1. 1 \in 1 .. Len(rs[1].data) /\ HeaderLen \in 1 .. Len(rs[1].data)
      BY <1>1, <1>4, <2>2
    <3>2. f[1 - 1] = t
      BY <2>3, <2>4, <3>1
    <3> QED
      BY <2>3, <2>4, <3>1, <3>2
  <2>6. ClientHello(rs) = "hello"
          <=> t = 1 /\ n > 0 /\ HeaderLen + n <= MaxCryptoBytes /\ HeaderLen + n <= Len(rs[1].data)
    <3>1. ~(rs = <<>> \/ rs[1].off # 0 \/ Len(rs[1].data) < HeaderLen)
      BY <1>1, <1>4, <2>2
    <3>2. ClientHello(rs) = IF t # 1 \/ n <= 0 \/ HeaderLen + n > MaxCryptoBytes THEN "error"
                            ELSE IF HeaderLen + n > Len(rs[1].data) THEN "incomplete" ELSE "hello"
      BY <2>4, <3>1 DEF ClientHello
    <3> QED
      BY <1>1, <2>2, <2>5, <3>2
  <2>7. n > 0 => (HasPrefix(f, HeaderLen + n) <=> HeaderLen + n <= Len(rs[1].data))
    <3>1. \A m \in Nat : m > 0 => (HasPrefix(f, m) <=> m <= Len(rs[1].data))
      BY <1>4, PrefixIs
    <3>2. n > 0 => HeaderLen + n \in Nat /\ HeaderLen + n > 0
      BY <1>1, <2>5
    <3> QED
      BY <3>1, <3>2
  <2>8. HelloIn(f) <=> /\ t = 1 /\ n \in 1 .. MaxCryptoBytes - HeaderLen
                       /\ HasPrefix(f, HeaderLen + n)
    <3>1. HasPrefix(f, HeaderLen) /\ f[0] = t /\ f[HeaderLen - 1] = n
      BY <1>2, <1>4, <2>5
    <3>2. HeaderLen + n - 1 = (HeaderLen + n) - 1
      BY <1>1, <2>5
    <3>3. HelloIn(f) <=> /\ t = 1 /\ n \in 1 .. MaxCryptoBytes - HeaderLen
                         /\ 0 .. HeaderLen + n - 1 \subseteq DOMAIN f
      BY <3>1, Zenon DEF HelloIn, HasPrefix
    <3> QED
      BY <3>2, <3>3, Zenon DEF HasPrefix
  <2>9. n \in 1 .. MaxCryptoBytes - HeaderLen <=> n > 0 /\ HeaderLen + n <= MaxCryptoBytes
    BY <1>1, <2>5
  <2> QED
    BY <2>6, <2>7, <2>8, <2>9
<1> QED
  BY <1>3, <1>4

(* add is right for every fragment, however long: on the list of any content  *)
(* f it fails exactly for a fragment beyond the limit, one that contradicts f, *)
(* and one that leaves too many ranges, and otherwise leaves the list of f    *)
(* and the fragment together.                                                 *)
THEOREM AddIs ==
  ASSUME NEW f \in Contents, Cardinality(Starts(f)) <= MaxCryptoRanges, NEW frag \in ByteRanges
  PROVE  LET new == AddFragment(Canonical(f), frag)
             all == Join(f, Bytes(frag))
         IN  /\ new.ok <=> /\ frag.off + Len(frag.data) <= MaxCryptoBytes
                           /\ Agree(f, Bytes(frag))
                           /\ Cardinality(Starts(all)) <= MaxCryptoRanges
             /\ new.ok => new.ranges = Canonical(all)
<1>1. PICK rs : rs = Canonical(f) /\ Represents(rs, f)
  BY CanonicalRepresents
<1>2. PICK all : all = Join(f, Bytes(frag))
  OBVIOUS
<1>3. PICK new : new = AddFragment(rs, frag)
  OBVIOUS
<1>4. /\ frag.off \in Nat /\ Len(frag.data) \in Nat /\ End(frag) = frag.off + Len(frag.data)
      /\ MaxCryptoBytes \in Nat /\ MaxCryptoRanges \in Nat
      /\ (frag.data # <<>> <=> Len(frag.data) > 0)
  BY RangeFacts, Limits
<1>5. TooFar(frag) <=> ~(frag.off + Len(frag.data) <= MaxCryptoBytes)
  BY <1>4 DEF TooFar
<1> DEFINE Right == /\ new.ok <=> /\ frag.off + Len(frag.data) <= MaxCryptoBytes
                                  /\ Agree(f, Bytes(frag))
                                  /\ Cardinality(Starts(all)) <= MaxCryptoRanges
                    /\ new.ok => new.ranges = Canonical(all)
<1> SUFFICES Right
  BY <1>1, <1>2, <1>3
<1>6. CASE TooFar(frag)
  <2>1. new = [ok |-> FALSE, ranges |-> rs]
    BY <1>3, <1>6 DEF AddFragment
  <2>2. new.ok = FALSE
    BY <2>1
  <2> QED
    BY <1>5, <1>6, <2>2
<1>7. CASE ~TooFar(frag) /\ frag.data = <<>>
  <2>1. new = [ok |-> TRUE, ranges |-> rs]
    BY <1>3, <1>7 DEF AddFragment
  <2>2. new.ok = TRUE /\ new.ranges = rs
    BY <2>1
  <2>3. \A p : p \notin DOMAIN Bytes(frag)
    BY <1>4, <1>7, BytesFacts DEF Holds
  <2>4. DOMAIN Bytes(frag) = {}
    BY <2>3
  <2>5. Agree(f, Bytes(frag))
    BY <2>4 DEF Agree
  <2>6. all = f
    <3>1. f = [p \in DOMAIN f |-> f[p]]
      BY ContentsFacts
    <3>2. DOMAIN f \cup DOMAIN Bytes(frag) = DOMAIN f
      BY <2>4
    <3>3. all = [p \in DOMAIN f |-> f[p]]
      BY <1>2, <3>2 DEF Join
    <3> QED
      BY <3>1, <3>3
  <2> QED
    BY <1>1, <1>5, <1>7, <2>2, <2>5, <2>6
<1>8. CASE ~TooFar(frag) /\ frag.data # <<>>
  <2>1. End(frag) <= MaxCryptoBytes
    BY <1>4, <1>5, <1>8
  <2>2. (\E i \in FirstTouched(rs, frag) .. LastTouched(rs, frag) : Contradicts(rs[i], frag))
          <=> ~Agree(f, Bytes(frag))
    BY <1>1, <2>1, ContradictionIs
  <2>3. CASE ~Agree(f, Bytes(frag))
    <3>1. new = [ok |-> FALSE, ranges |-> rs]
      BY <1>3, <1>8, <2>2, <2>3 DEF AddFragment
    <3>2. new.ok = FALSE
      BY <3>1
    <3> QED
      BY <2>3, <3>2
  <2>4. CASE Agree(f, Bytes(frag))
    <3>1. PICK merged : merged = MergedList(rs, frag)
      OBVIOUS
    <3>2. new = [ok |-> Len(merged) <= MaxCryptoRanges /\ UniqueBytes(merged) <= MaxCryptoBytes,
                 ranges |-> merged]
      BY <1>3, <1>8, <2>2, <2>4, <3>1 DEF AddFragment, MergedList
    <3>3. all \in Contents
      BY <1>2, <2>1, <2>4, JoinFacts
    <3>4. Represents(merged, all)
      BY <1>1, <1>2, <1>8, <2>1, <2>4, <3>1, MergedRepresents
    <3>5. /\ Canonical(all) = merged /\ Cardinality(Starts(all)) = Len(merged)
          /\ UniqueBytes(merged) <= MaxCryptoBytes
      BY <3>3, <3>4, CanonicalIs, RankOfRange, UniqueBytesBound
    <3>6. new.ok = (Len(merged) <= MaxCryptoRanges /\ UniqueBytes(merged) <= MaxCryptoBytes)
          /\ new.ranges = merged
      BY <3>2
    <3> QED
      BY <1>5, <1>8, <2>4, <3>5, <3>6
  <2> QED
    BY <2>3, <2>4
<1> QED
  BY <1>6, <1>7, <1>8

(* add and clientHello of the precheck's reassembler agree with the partial   *)
(* function of all bytes that arrived, for all values of the limits, contents *)
(* and fragments.                                                             *)
THEOREM AddMatchesHolds == AddMatches
<1> SUFFICES ASSUME NEW f \in Contents, Cardinality(Starts(f)) <= MaxCryptoRanges,
                    NEW frag \in CryptoFragments
             PROVE  LET new == AddFragment(Canonical(f), frag)
                        all == Join(f, Bytes(frag))
                    IN  /\ ClientHello(Canonical(f)) = "hello" <=> HelloIn(f)
                        /\ new.ok <=> /\ frag.off + Len(frag.data) <= MaxCryptoBytes
                                      /\ Agree(f, Bytes(frag))
                                      /\ Cardinality(Starts(all)) <= MaxCryptoRanges
                        /\ new.ok => new.ranges = Canonical(all)
  BY DEF AddMatches
<1>1. ClientHello(Canonical(f)) = "hello" <=> HelloIn(f)
  BY CanonicalRepresents, ClientHelloIs
<1>2. frag \in ByteRanges
  <2>1. PICK n \in 0 .. MaxCryptoBytes - 1 : frag.data \in [1 .. n -> CryptoBytes]
    BY DEF CryptoFragments
  <2>2. n \in Nat /\ frag.off \in Nat /\ frag = [off |-> frag.off, data |-> frag.data]
    BY Limits DEF CryptoFragments
  <2>3. frag.data \in Seq(CryptoBytes)
    BY <2>1, <2>2, FunctionIsList
  <2> QED
    BY <2>2, <2>3 DEF ByteRanges
<1> QED
  BY <1>1, <1>2, AddIs

(* So what the precheck takes for granted of its reassembler holds.           *)
THEOREM ReassemblesHolds == Spec => []Reassembles
<1>1. Reassembles
  BY AddMatchesHolds DEF Reassembles
<1> QED
  BY <1>1, PTL

=============================================================================
