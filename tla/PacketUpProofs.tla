--------------------------- MODULE PacketUpProofs ---------------------------
(***************************************************************************)
(* Proofs about the XMUX pool under the dials and the upload goroutine of  *)
(* PacketUp, for any number of dials, clients, limits and failures: no     *)
(* connection loses the transport it has registered with, and no retired   *)
(* client is forgotten.                                                    *)
(***************************************************************************)
EXTENDS PacketUp, AddressCounts

(* The dials between AddRunning and DoneRunning, and those of client c.      *)
Holding == {d \in Dials : dpc[d] \in {"added", "open"}}
Holders(c) == AtAddress(Holding, client, c)

(* Dials that are still to call maybeClose on their client.                  *)
Bound(d) == dpc[d] \in {"got", "added", "open", "released"}

DialTypes ==
  /\ dpc \in [Dials -> {"get", "pick", "got", "added", "open", "released", "closing",
                        "closed"}]
  /\ client \in [Dials -> Clients \cup {None}] /\ late \subseteq Dials
  /\ \A d \in Dials : dpc[d] \notin {"get", "pick"} => client[d] \in Clients

PoolTypes ==
  /\ pool \subseteq Clients /\ made \in 0 .. MaxClients
  /\ leftUse \in [Clients -> 0 .. Reuse] /\ leftReq \in [Clients -> 0 .. ReqTimes]
  /\ broken \subseteq Clients /\ expired \subseteq Clients /\ notUsed \subseteq Clients
  /\ getter \in Users \cup {Nobody}

(* Running counts the dials that hold a client.                              *)
RunningCounts == running = [c \in Clients |-> Cardinality(Holders(c))]

(* A client is in the pool, retired, or still to be made; what the holder of  *)
(* the lock has retired it has not closed yet.                                *)
PoolInv == /\ \A c \in pool \cup notUsed : c <= made
           /\ pool \cap notUsed = {}
           /\ retiring \subseteq notUsed /\ shut \subseteq notUsed
           /\ getter = Nobody => retiring = {}

(* From AddRunning to DoneRunning a dial that was in time keeps its client.   *)
HolderKeepsTransport == \A d \in Holding \ late : client[d] \notin shut

(* Every request of the upload has a client.                                  *)
UpTypes ==
  /\ dyn \in Clients \cup {None} /\ (upc # "off" => dyn \in Clients)
  /\ on \in [Posts -> Clients \cup {None}]
  /\ post \in [Posts -> {"none", "sending", "written", "ok", "failing", "failed"}]
  /\ \A k \in Posts : post[k] \in {"sending", "written"} => on[k] \in Clients

UseInv == DialTypes /\ UpTypes /\ PoolTypes /\ RunningCounts /\ PoolInv /\ HolderKeepsTransport
          /\ RetiredIsShut

-----------------------------------------------------------------------------
(* Counting.                                                               *)

(* A dial holds nothing but dials, so what it holds can be counted.           *)
LEMMA HoldingFinite == IsFiniteSet(Holding) /\ Cardinality(Holding) <= Cardinality(Users)
<1>1. IsFiniteSet(Dials) /\ Users = Dials \cup {Up}
  BY UpAssumption
<1>2. IsFiniteSet(Users)
  BY <1>1, FS_AddElement
<1>3. Holding \in SUBSET Dials /\ Holding \in SUBSET Users
  BY <1>1 DEF Holding
<1> QED
  BY <1>1, <1>2, <1>3, FS_Subset

(* Running is a natural number no larger than the number of goroutines.      *)
LEMMA RunningType ==
  ASSUME RunningCounts
  PROVE  running \in [Clients -> 0 .. Cardinality(Users)]
<1>1. IsFiniteSet(Users)
  BY UpAssumption, FS_AddElement
<1>2. Cardinality(Users) \in Nat
  BY <1>1, FS_CardinalityType
<1>3. ASSUME NEW c \in Clients PROVE Cardinality(Holders(c)) \in 0 .. Cardinality(Users)
  <2>1. /\ Cardinality(AtAddress(Holding, client, c)) \in Nat
        /\ Cardinality(AtAddress(Holding, client, c)) <= Cardinality(Holding)
    BY HoldingFinite, CountType
  <2>2. Cardinality(Holding) \in Nat
    BY HoldingFinite, FS_CardinalityType
  <2> QED
    BY <1>2, <2>1, <2>2, HoldingFinite DEF Holders
<1> QED
  BY <1>3 DEF RunningCounts

(* maybeClose finds a client idle exactly when no dial holds it.             *)
LEMMA IdleIsFree ==
  ASSUME RunningCounts, NEW c \in Clients
  PROVE  Idle(c) <=> \A d \in Holding : client[d] # c
<1>1. IsFiniteSet(Holders(c)) /\ Cardinality(Holders(c)) \in Nat
  BY HoldingFinite, CountType DEF Holders
<1>2. Cardinality(Holders(c)) = 0 <=> Holders(c) = {}
  BY <1>1, FS_EmptySet
<1>3. running[c] = Cardinality(Holders(c))
  BY DEF RunningCounts
<1>4. Holders(c) = {} <=> \A d \in Holding : client[d] # c
  BY DEF Holders, AtAddress
<1> QED
  BY <1>1, <1>2, <1>3, <1>4 DEF Idle

(* A step that leaves the holders and their clients alone leaves the counts. *)
LEMMA CountsStay ==
  ASSUME RunningCounts, running' = running, Holding' = Holding,
         \A d \in Holding : client'[d] = client[d]
  PROVE  RunningCounts'
<1>1. ASSUME NEW c \in Clients PROVE Holders(c)' = Holders(c)
  BY DEF Holders, AtAddress
<1> QED
  BY <1>1 DEF RunningCounts

-----------------------------------------------------------------------------
(* The steps of GetXmuxClient.                                             *)

LEMMA InitUse == Init => UseInv
<1> SUFFICES ASSUME Init PROVE UseInv
  OBVIOUS
<1> USE DEF Init, PipeInit, XmuxInit
<1>1. Holding = {}
  BY DEF Holding
<1>2. DialTypes
  BY DEF DialTypes
<1>3. PoolTypes
  BY XmuxAssumption DEF PoolTypes, Clients
<1>4. RunningCounts
  BY <1>1, CountEmpty DEF RunningCounts, Holders
<1>5. PoolInv
  BY DEF PoolInv
<1>6. HolderKeepsTransport
  BY <1>1 DEF HolderKeepsTransport
<1>7. RetiredIsShut
  BY DEF RetiredIsShut
<1>8. UpTypes
  BY DEF UpTypes, None
<1> QED
  BY <1>2, <1>3, <1>4, <1>5, <1>6, <1>7, <1>8 DEF UseInv

(* Retiring: what leaves the pool is marked and noted as about to be closed. *)
LEMMA RetireKeeps ==
  ASSUME PoolTypes, PoolInv, HolderKeepsTransport, RetiredIsShut, NEW u \in Users, Retire(u),
         UNCHANGED <<client, late>>, Holding' = Holding,
         \A d \in Dials : Bound(d)' <=> Bound(d)
  PROVE  PoolTypes' /\ PoolInv' /\ HolderKeepsTransport' /\ RetiredIsShut'
<1>1. PoolTypes'
  BY DEF PoolTypes, Retire
<1>2. PoolInv'
  BY UpAssumption DEF PoolInv, Retire
<1>3. HolderKeepsTransport'
  BY DEF HolderKeepsTransport, Retire
<1>4. RetiredIsShut'
  <2> SUFFICES ASSUME NEW c \in notUsed' \ (shut' \cup retiring')
               PROVE  \E d \in Dials : client[d] = c /\ Bound(d)
    BY DEF RetiredIsShut, Bound
  <2>1. c \in notUsed \ (shut \cup retiring)
    BY DEF Retire, PoolInv
  <2> QED
    BY <2>1 DEF RetiredIsShut, Bound
<1> QED
  BY <1>1, <1>2, <1>3, <1>4

(* Picking closes the retired that are idle, all of which somebody held      *)
(* otherwise, and takes a client that is in the pool afterwards.             *)
LEMMA PickKeeps ==
  ASSUME UseInv, NEW u \in Users, NEW c \in Clients, Pick(u, c),
         UNCHANGED late, Holding' = Holding,
         \A d \in Dials : Bound(d) => Bound(d)' /\ client'[d] = client[d]
  PROVE  PoolTypes' /\ PoolInv' /\ HolderKeepsTransport' /\ RetiredIsShut'
<1> USE DEF UseInv
<1>1. ASSUME NEW d \in Holding PROVE client[d] \in Clients /\ client'[d] = client[d] /\ Bound(d)
  BY DEF DialTypes, Bound, Holding
<1>0. /\ {Reuse, ReqTimes, MaxClients} \subseteq Nat
      /\ pool \subseteq Clients /\ notUsed \subseteq Clients /\ made \in 0 .. MaxClients
  BY XmuxAssumption DEF PoolTypes
<1>2. PoolTypes'
  <2>1. leftUse \in [Clients -> 0 .. Reuse] /\ leftReq \in [Clients -> 0 .. ReqTimes]
    BY DEF PoolTypes
  <2>2. UNCHANGED <<broken, expired, notUsed>> /\ getter' = Nobody
    BY DEF Pick
  <2>3. /\ pool' \subseteq Clients /\ made' \in 0 .. MaxClients
        /\ leftUse' \in [Clients -> 0 .. Reuse] /\ leftReq' \in [Clients -> 0 .. ReqTimes]
    <3>1. CASE Free = {}
      <4>1. c = made + 1 /\ made' = c /\ pool' = pool \cup {c}
        BY <3>1 DEF Pick, NewClient
      <4>2. /\ leftUse' = [leftUse EXCEPT ![c] = Reuse]
            /\ leftReq' = [leftReq EXCEPT ![c] = ReqTimes]
        BY <3>1 DEF Pick, NewClient
      <4> QED
        BY <1>0, <2>1, <4>1, <4>2 DEF Clients
    <3>2. CASE Free # {}
      BY <1>0, <2>1, <3>2 DEF Pick, PickClient
    <3> QED
      BY <3>1, <3>2
  <2> QED
    BY <2>2, <2>3 DEF PoolTypes
<1>3. PoolInv'
  <2>1. retiring' = {} /\ notUsed' = notUsed /\ shut' \subseteq notUsed
    BY DEF Pick, PoolInv, ClosesIdle
  <2>2. /\ \A b \in pool' \cup notUsed : b <= made'
        /\ pool' \cap notUsed = {}
    <3>1. CASE Free = {}
      <4>1. c = made + 1 /\ made' = c /\ pool' = pool \cup {c}
        BY <3>1 DEF Pick, NewClient
      <4> QED
        BY <1>0, <4>1 DEF PoolInv, Clients
    <3>2. CASE Free # {}
      BY <3>2 DEF Pick, PickClient, PoolInv
    <3> QED
      BY <3>1, <3>2
  <2> QED
    BY <2>1, <2>2 DEF PoolInv
<1>4. HolderKeepsTransport'
  <2> SUFFICES ASSUME NEW d \in Holding \ late PROVE client[d] \notin shut'
    BY <1>1 DEF HolderKeepsTransport
  <2>1. ~Idle(client[d]) /\ client[d] \notin shut
    BY <1>1, IdleIsFree DEF HolderKeepsTransport
  <2> QED
    BY <2>1 DEF Pick, ClosesIdle
<1>5. RetiredIsShut'
  <2> SUFFICES ASSUME NEW b \in notUsed \ shut'
               PROVE  \E d \in Dials : client[d] = b /\ Bound(d)
    BY DEF RetiredIsShut, Bound, Pick
  <2>1. b \in Clients /\ b \notin shut
    BY DEF PoolTypes, Pick, ClosesIdle
  <2>2. CASE b \in retiring
    <3>1. ~Idle(b)
      BY <2>2 DEF Pick, ClosesIdle
    <3> QED
      BY <2>1, <3>1, IdleIsFree, <1>1 DEF Holding
  <2>3. CASE b \notin retiring
    BY <2>1, <2>3 DEF RetiredIsShut, Bound
  <2> QED
    BY <2>2, <2>3
<1> QED
  BY <1>2, <1>3, <1>4, <1>5

(* LeftRequests and the end of a transport touch nothing the pool is kept by. *)
LEMMA PoolStays ==
  ASSUME UseInv, UNCHANGED <<pool, made, running, leftUse, notUsed, shut, getter, retiring>>,
         leftReq' \in [Clients -> 0 .. ReqTimes],
         broken' \subseteq Clients, expired' \subseteq Clients,
         UNCHANGED late, Holding' = Holding,
         \A d \in Dials : Bound(d) => Bound(d)' /\ client'[d] = client[d]
  PROVE  PoolTypes' /\ RunningCounts' /\ PoolInv' /\ HolderKeepsTransport' /\ RetiredIsShut'
<1> USE DEF UseInv
<1>1. ASSUME NEW d \in Holding PROVE client'[d] = client[d]
  BY DEF Bound, Holding
<1>2. RunningCounts'
  BY <1>1, CountsStay
<1>3. PoolTypes' /\ PoolInv'
  BY DEF PoolTypes, PoolInv
<1>4. HolderKeepsTransport'
  BY <1>1 DEF HolderKeepsTransport
<1>5. RetiredIsShut'
  BY DEF RetiredIsShut, Bound
<1> QED
  BY <1>2, <1>3, <1>4, <1>5

(* A request is charged to its client.                                       *)
LEMMA ChargeType ==
  ASSUME PoolTypes, NEW c, UseRequest(c)
  PROVE  leftReq' \in [Clients -> 0 .. ReqTimes]
<1>1. ReqTimes \in Nat /\ leftReq \in [Clients -> 0 .. ReqTimes]
  BY XmuxAssumption DEF PoolTypes
<1>2. leftReq' = [b \in Clients |-> IF b = c THEN IF leftReq[c] > 0 THEN leftReq[c] - 1 ELSE 0
                                   ELSE leftReq[b]]
  BY <1>1 DEF UseRequest
<1>3. ASSUME NEW b \in Clients PROVE leftReq'[b] \in 0 .. ReqTimes
  <2>1. leftReq[b] \in 0 .. ReqTimes
    BY <1>1
  <2> QED
    BY <1>1, <1>2, <2>1
<1> QED
  BY <1>2, <1>3

-----------------------------------------------------------------------------
(* The steps of a dial.                                                    *)

(* Dials and upload do not interfere with each other's types.                *)
LEMMA UpStays ==
  ASSUME UpTypes, UNCHANGED <<upc, dyn, on, post>>
  PROVE  UpTypes'
BY DEF UpTypes

LEMMA DialTypesStay ==
  ASSUME DialTypes, UNCHANGED dialVars
  PROVE  /\ DialTypes' /\ Holding' = Holding
         /\ \A d \in Dials : Bound(d) <=> Bound(d)'
BY DEF DialTypes, dialVars, Holding, Bound

LEMMA GetsKeeps ==
  ASSUME UseInv, NEW d \in Dials, DialGets(d)
  PROVE  UseInv'
<1> USE DEF UseInv
<1>1. /\ dpc \in [Dials -> {"get", "pick", "got", "added", "open", "released", "closing",
                            "closed"}]
      /\ dpc[d] = "get" /\ dpc' = [dpc EXCEPT ![d] = "pick"]
  BY DEF DialTypes, DialGets, DialAt
<1>2. Holding' = Holding /\ \A e \in Dials : Bound(e)' <=> Bound(e)
  BY <1>1 DEF Holding, Bound
<1>3. DialTypes'
  BY <1>1 DEF DialTypes, DialGets
<1>4. d \in Users /\ Retire(d) /\ UNCHANGED <<client, late, running>>
  BY UpAssumption DEF DialGets, Retire
<1>5. PoolTypes' /\ PoolInv' /\ HolderKeepsTransport' /\ RetiredIsShut'
  BY <1>2, <1>4, RetireKeeps
<1>6. RunningCounts'
  BY <1>2, <1>4, CountsStay
<1>7. UpTypes'
  BY UpStays DEF DialGets, upVars
<1> QED
  BY <1>3, <1>5, <1>6, <1>7

LEMMA PicksKeeps ==
  ASSUME UseInv, NEW d \in Dials, DialPicks(d)
  PROVE  UseInv'
<1> USE DEF UseInv
<1>1. /\ dpc \in [Dials -> {"get", "pick", "got", "added", "open", "released", "closing",
                            "closed"}]
      /\ dpc[d] = "pick" /\ dpc' = [dpc EXCEPT ![d] = "got"]
  BY DEF DialTypes, DialPicks, DialAt
<1>2. PICK c \in Clients : Pick(d, c) /\ client' = [client EXCEPT ![d] = c]
  BY DEF DialPicks
<1>3. DialTypes'
  BY <1>1, <1>2 DEF DialTypes, DialPicks
<1>4. Holding' = Holding /\ d \notin Holding
  BY <1>1 DEF Holding
<1>5. \A e \in Dials : Bound(e) => Bound(e)' /\ client'[e] = client[e]
  BY <1>1, <1>2 DEF Bound, DialTypes
<1>6. d \in Users /\ UNCHANGED <<late, running>>
  BY <1>2, UpAssumption DEF DialPicks, Pick
<1>7. PoolTypes' /\ PoolInv' /\ HolderKeepsTransport' /\ RetiredIsShut'
  BY <1>2, <1>4, <1>5, <1>6, PickKeeps
<1>8. RunningCounts'
  BY <1>4, <1>5, <1>6, CountsStay DEF Holding, Bound
<1>9. UpTypes'
  BY UpStays DEF DialPicks, upVars
<1> QED
  BY <1>3, <1>7, <1>8, <1>9

(* AddRunning: one more holder; a dial whose client was retired meanwhile is late. *)
LEMMA RegistersKeeps ==
  ASSUME UseInv, NEW d \in Dials, DialRegisters(d)
  PROVE  UseInv'
<1> USE DEF UseInv
<1>1. /\ dpc \in [Dials -> {"get", "pick", "got", "added", "open", "released", "closing",
                            "closed"}]
      /\ dpc[d] = "got" /\ dpc' = [dpc EXCEPT ![d] = "added"]
      /\ client[d] \in Clients /\ client' = client
  BY DEF DialTypes, DialRegisters, DialAt
<1>2. Holding' = Holding \cup {d} /\ d \notin Holding
  BY <1>1 DEF Holding
<1>3. /\ running' = [running EXCEPT ![client[d]] = @ + 1]
      /\ UNCHANGED <<pool, made, leftUse, leftReq, broken, expired, notUsed, shut, getter,
                     retiring>>
  BY DEF DialRegisters, AddRunning
<1>4. DialTypes'
  BY <1>1 DEF DialTypes, DialRegisters
<1>5. RunningCounts'
  <2>1. ASSUME NEW c \in Clients
        PROVE  Holders(c)' = AtAddress(Holding \cup {d}, client, c)
    BY <1>1, <1>2 DEF Holders
  <2>2. ASSUME NEW c \in Clients
        PROVE  Cardinality(Holders(c)') = IF client[d] = c THEN Cardinality(Holders(c)) + 1
                                          ELSE Cardinality(Holders(c))
    BY <2>1, <1>2, CountAdd, HoldingFinite DEF Holders
  <2>3. running' = [c \in Clients |-> Cardinality(Holders(c)')]
    BY <1>1, <1>3, <2>2 DEF RunningCounts
  <2> QED
    BY <2>3 DEF RunningCounts
<1>6. PoolTypes' /\ PoolInv'
  BY <1>3 DEF PoolTypes, PoolInv
<1>7. HolderKeepsTransport'
  <2>1. late \subseteq late' /\ (d \notin late' => client[d] \notin notUsed)
    BY DEF DialRegisters
  <2> QED
    BY <1>1, <1>2, <1>3, <2>1 DEF HolderKeepsTransport, PoolInv
<1>8. RetiredIsShut'
  BY <1>1, <1>3 DEF RetiredIsShut
<1>9. UpTypes'
  BY UpStays DEF DialRegisters, upVars
<1> QED
  BY <1>4, <1>5, <1>6, <1>7, <1>8, <1>9

LEMMA OpensKeeps ==
  ASSUME UseInv, NEW d \in Dials, DialOpens(d)
  PROVE  UseInv'
<1> USE DEF UseInv
<1>1. /\ dpc \in [Dials -> {"get", "pick", "got", "added", "open", "released", "closing",
                            "closed"}]
      /\ dpc[d] = "added" /\ dpc' = [dpc EXCEPT ![d] = "open"]
      /\ client[d] \in Clients /\ UNCHANGED <<client, late>>
  BY DEF DialTypes, DialOpens, DialAt
<1>2. /\ Holding' = Holding
      /\ \A e \in Dials : Bound(e) => Bound(e)' /\ client'[e] = client[e]
  BY <1>1 DEF Holding, Bound
<1>3. DialTypes'
  BY <1>1 DEF DialTypes
<1>4. /\ UNCHANGED <<pool, made, running, leftUse, broken, expired, notUsed, shut, getter,
                     retiring>>
      /\ leftReq' \in [Clients -> 0 .. ReqTimes]
  BY ChargeType DEF DialOpens
<1>5. broken' \subseteq Clients /\ expired' \subseteq Clients
  BY <1>4 DEF PoolTypes
<1>6. PoolTypes' /\ RunningCounts' /\ PoolInv' /\ HolderKeepsTransport' /\ RetiredIsShut'
  BY <1>1, <1>2, <1>4, <1>5, PoolStays
<1>7. UpTypes'
  BY <1>1 DEF UpTypes, DialOpens
<1> QED
  BY <1>3, <1>6, <1>7

LEMMA StreamFailsKeeps ==
  ASSUME UseInv, NEW d \in Dials, StreamFails(d)
  PROVE  UseInv'
<1> USE DEF UseInv
<1>1. UNCHANGED dialVars /\ dpc[d] = "open"
  BY DEF StreamFails
<1>2. /\ DialTypes' /\ Holding' = Holding
      /\ \A e \in Dials : Bound(e) => Bound(e)' /\ client'[e] = client[e]
  BY <1>1, DialTypesStay DEF dialVars
<1>3. client[d] \in Clients
  BY <1>1 DEF DialTypes
<1>4. UNCHANGED <<pool, made, running, leftUse, leftReq, expired, notUsed, shut, getter,
                  retiring, late>>
  BY DEF StreamFails, dialVars
<1>5. /\ broken' \subseteq Clients /\ expired' \subseteq Clients
      /\ leftReq' \in [Clients -> 0 .. ReqTimes]
  BY <1>3, <1>4 DEF PoolTypes, StreamFails
<1>6. PoolTypes' /\ RunningCounts' /\ PoolInv' /\ HolderKeepsTransport' /\ RetiredIsShut'
  BY <1>2, <1>4, <1>5, PoolStays
<1>7. UpTypes'
  BY UpStays DEF StreamFails, upVars
<1> QED
  BY <1>2, <1>6, <1>7

(* DoneRunning's decrement: one holder less, which is still to call maybeClose. *)
LEMMA ClosesKeeps ==
  ASSUME UseInv, NEW d \in Dials, DialCloses(d)
  PROVE  UseInv'
<1> USE DEF UseInv
<1>1. /\ dpc \in [Dials -> {"get", "pick", "got", "added", "open", "released", "closing",
                            "closed"}]
      /\ dpc[d] = "open" /\ dpc' = [dpc EXCEPT ![d] = "released"]
      /\ client[d] \in Clients /\ UNCHANGED <<client, late>>
  BY DEF DialTypes, DialCloses, DialAt, OnCloseOnce
<1>2. Holding' = Holding \ {d} /\ d \in Holding
  BY <1>1 DEF Holding
<1>3. /\ running' = [running EXCEPT ![client[d]] = @ - 1]
      /\ UNCHANGED <<pool, made, leftUse, leftReq, broken, expired, notUsed, shut, getter,
                     retiring>>
  BY DEF DialCloses, Release
<1>4. DialTypes'
  BY <1>1 DEF DialTypes
<1>5. RunningCounts'
  <2>1. ASSUME NEW c \in Clients
        PROVE  Holders(c)' = AtAddress(Holding \ {d}, client, c)
    BY <1>1, <1>2 DEF Holders
  <2>2. ASSUME NEW c \in Clients
        PROVE  Cardinality(Holders(c)') = IF client[d] = c THEN Cardinality(Holders(c)) - 1
                                          ELSE Cardinality(Holders(c))
    BY <2>1, <1>2, CountRemoveOne, HoldingFinite DEF Holders
  <2>3. running' = [c \in Clients |-> Cardinality(Holders(c)')]
    BY <1>1, <1>3, <2>2 DEF RunningCounts
  <2> QED
    BY <2>3 DEF RunningCounts
<1>6. PoolTypes' /\ PoolInv'
  BY <1>3 DEF PoolTypes, PoolInv
<1>7. HolderKeepsTransport'
  BY <1>1, <1>2, <1>3 DEF HolderKeepsTransport
<1>8. RetiredIsShut'
  BY <1>1, <1>3 DEF RetiredIsShut
<1>9. UpTypes'
  BY UpStays DEF DialCloses, upVars
<1> QED
  BY <1>4, <1>5, <1>6, <1>7, <1>8, <1>9

(* maybeClose shuts the transport of a retired client that nobody holds; if   *)
(* somebody holds it, that dial is still to call maybeClose.                  *)
LEMMA ReleasedKeeps ==
  ASSUME UseInv, NEW d \in Dials, DialReleased(d)
  PROVE  UseInv'
<1> USE DEF UseInv
<1>1. PICK l \in {"closing", "closed"} : dpc' = [dpc EXCEPT ![d] = l]
  BY DEF DialReleased, DialAt
<1>2. /\ dpc \in [Dials -> {"get", "pick", "got", "added", "open", "released", "closing",
                            "closed"}]
      /\ dpc[d] = "released" /\ client[d] \in Clients /\ UNCHANGED <<client, late>>
  BY DEF DialTypes, DialReleased
<1>3. /\ Holding' = Holding
      /\ \A e \in Dials \ {d} : Bound(e) => Bound(e)'
  BY <1>1, <1>2 DEF Holding, Bound
<1>4. UNCHANGED <<pool, made, running, leftUse, leftReq, broken, expired, notUsed, getter,
                  retiring>>
  BY DEF DialReleased, MaybeClose
<1>5. shut' = IF client[d] \in notUsed /\ Idle(client[d]) THEN shut \cup {client[d]} ELSE shut
  BY DEF DialReleased, MaybeClose
<1>6. DialTypes'
  BY <1>1, <1>2 DEF DialTypes
<1>7. RunningCounts'
  BY <1>2, <1>3, <1>4, CountsStay
<1>8. PoolTypes' /\ PoolInv'
  BY <1>4, <1>5 DEF PoolTypes, PoolInv
<1>9. HolderKeepsTransport'
  <2> SUFFICES ASSUME NEW e \in Holding \ late PROVE client[e] \notin shut'
    BY <1>2, <1>3 DEF HolderKeepsTransport
  <2>1. client[e] \in Clients /\ client[e] \notin shut
    BY DEF HolderKeepsTransport, DialTypes, Holding
  <2>2. ~Idle(client[e])
    BY <2>1, IdleIsFree
  <2> QED
    BY <1>5, <2>1, <2>2
<1>10. RetiredIsShut'
  <2> SUFFICES ASSUME NEW c \in notUsed \ (shut' \cup retiring)
               PROVE  \E e \in Dials : client[e] = c /\ Bound(e)'
    BY <1>2, <1>4 DEF RetiredIsShut, Bound
  <2>1. c \in Clients /\ c \notin shut
    BY <1>5 DEF PoolTypes
  <2>2. PICK e \in Dials : client[e] = c /\ Bound(e)
    BY <2>1 DEF RetiredIsShut, Bound
  <2>3. CASE e # d
    BY <1>3, <2>2, <2>3
  <2>4. CASE e = d
    <3>1. ~Idle(c)
      BY <1>5, <2>2, <2>4
    <3>2. PICK f \in Holding : client[f] = c
      BY <2>1, <3>1, IdleIsFree
    <3>3. f \in Dials /\ f # d /\ Bound(f)
      BY <1>2 DEF Holding, Bound
    <3> QED
      BY <1>3, <3>2, <3>3
  <2> QED
    BY <2>3, <2>4
<1>11. UpTypes'
  BY UpStays DEF DialReleased, upVars
<1> QED
  BY <1>6, <1>7, <1>8, <1>9, <1>10, <1>11

LEMMA ClosedKeeps ==
  ASSUME UseInv, NEW d \in Dials, DialClosed(d)
  PROVE  UseInv'
<1> USE DEF UseInv
<1>1. /\ dpc \in [Dials -> {"get", "pick", "got", "added", "open", "released", "closing",
                            "closed"}]
      /\ dpc[d] = "closing" /\ dpc' = [dpc EXCEPT ![d] = "closed"]
      /\ UNCHANGED <<client, late>>
  BY DEF DialTypes, DialClosed, DialAt
<1>2. /\ Holding' = Holding
      /\ \A e \in Dials : Bound(e) => Bound(e)' /\ client'[e] = client[e]
  BY <1>1 DEF Holding, Bound
<1>3. DialTypes'
  BY <1>1 DEF DialTypes
<1>4. UNCHANGED xmuxVars
  BY DEF DialClosed
<1>5. PoolTypes' /\ RunningCounts' /\ PoolInv' /\ HolderKeepsTransport' /\ RetiredIsShut'
  BY <1>1, <1>2, <1>4, PoolStays DEF xmuxVars, PoolTypes
<1>6. UpTypes'
  BY UpStays DEF DialClosed, upVars
<1> QED
  BY <1>3, <1>5, <1>6

-----------------------------------------------------------------------------
(* The steps of the upload, its posts and the pipe.                        *)

(* Steps that leave the dials and the pool alone.                            *)
LEMMA PoolAlone ==
  ASSUME UseInv, UNCHANGED <<xmuxVars, dialVars>>, UpTypes'
  PROVE  UseInv'
<1> USE DEF UseInv
<1>1. /\ DialTypes' /\ Holding' = Holding
      /\ \A e \in Dials : Bound(e) => Bound(e)' /\ client'[e] = client[e]
  BY DialTypesStay DEF dialVars
<1>2. PoolTypes' /\ RunningCounts' /\ PoolInv' /\ HolderKeepsTransport' /\ RetiredIsShut'
  BY <1>1, PoolStays DEF xmuxVars, PoolTypes, dialVars
<1> QED
  BY <1>1, <1>2

LEMMA UpStepKeeps ==
  ASSUME UseInv, UpStep
  PROVE  UseInv'
<1> USE DEF UseInv
<1>0. /\ dyn \in Clients \cup {None} /\ (upc # "off" => dyn \in Clients)
      /\ on \in [Posts -> Clients \cup {None}]
  BY DEF UpTypes
<1>1. CASE UpHasRead
  <2>1. UpTypes'
    BY <1>1 DEF UpHasRead, UpTypes
  <2> QED
    BY <1>1, <2>1, PoolAlone DEF UpHasRead
<1>2. CASE UpReadsOn
  <2>1. UpTypes'
    BY <1>2 DEF UpReadsOn, UpTypes
  <2> QED
    BY <1>2, <2>1, PoolAlone DEF UpReadsOn
<1>3. CASE UpPosts
  <2>1. UpTypes'
    BY <1>3 DEF UpPosts, UpTypes, PostAt
  <2> QED
    BY <1>3, <2>1, PoolAlone DEF UpPosts
<1>4. CASE UpGoesOn
  <2>1. UpTypes'
    BY <1>4 DEF UpGoesOn, UpTypes
  <2> QED
    BY <1>4, <2>1, PoolAlone DEF UpGoesOn
<1>5. CASE UpSplits
  <2>1. /\ UNCHANGED dialVars
        /\ UNCHANGED <<pool, made, running, leftUse, broken, expired, notUsed, shut, getter,
                       retiring>>
    BY <1>5 DEF UpSplits
  <2>2. leftReq' \in [Clients -> 0 .. ReqTimes]
    BY <1>5, ChargeType DEF UpSplits
  <2>3. /\ DialTypes' /\ Holding' = Holding
        /\ \A e \in Dials : Bound(e) => Bound(e)' /\ client'[e] = client[e]
    BY <2>1, DialTypesStay DEF dialVars
  <2>4. PoolTypes' /\ RunningCounts' /\ PoolInv' /\ HolderKeepsTransport' /\ RetiredIsShut'
    BY <2>1, <2>2, <2>3, PoolStays DEF PoolTypes, dialVars
  <2>5. UpTypes'
    BY <1>5 DEF UpSplits, UpTypes
  <2> QED
    BY <2>3, <2>4, <2>5
<1>6. CASE UpGets
  <2>1. UNCHANGED dialVars /\ Up \in Users /\ Retire(Up)
    BY <1>6, UpAssumption DEF UpGets
  <2>2. /\ DialTypes' /\ Holding' = Holding
        /\ \A e \in Dials : Bound(e)' <=> Bound(e)
        /\ UNCHANGED <<client, late, running>>
    BY <2>1, DialTypesStay DEF dialVars, Retire
  <2>3. PoolTypes' /\ PoolInv' /\ HolderKeepsTransport' /\ RetiredIsShut'
    BY <2>1, <2>2, RetireKeeps
  <2>4. RunningCounts'
    BY <2>2, CountsStay
  <2>5. UpTypes'
    BY <1>6 DEF UpGets, UpTypes
  <2> QED
    BY <2>2, <2>3, <2>4, <2>5
<1>7. CASE UpPicks
  <2>1. PICK c \in Clients : Pick(Up, c) /\ dyn' = c
    BY <1>7 DEF UpPicks
  <2>2. UNCHANGED dialVars /\ Up \in Users
    BY <1>7, UpAssumption DEF UpPicks
  <2>3. /\ DialTypes' /\ Holding' = Holding
        /\ \A e \in Dials : Bound(e) => Bound(e)' /\ client'[e] = client[e]
        /\ UNCHANGED <<client, late, running>>
    BY <2>1, <2>2, DialTypesStay DEF dialVars, Pick
  <2>4. PoolTypes' /\ PoolInv' /\ HolderKeepsTransport' /\ RetiredIsShut'
    BY <2>1, <2>2, <2>3, PickKeeps
  <2>5. RunningCounts'
    BY <2>3, CountsStay
  <2>6. UpTypes'
    BY <1>7, <2>1 DEF UpPicks, UpTypes
  <2> QED
    BY <2>3, <2>4, <2>5, <2>6
<1> QED
  BY <1>1, <1>2, <1>3, <1>4, <1>5, <1>6, <1>7 DEF UpStep

LEMMA PostKeeps ==
  ASSUME UseInv, NEW k \in Posts, PostStep(k) \/ PostFails(k)
  PROVE  UseInv'
<1> USE DEF UseInv
<1>1. CASE PostWritten(k)
  <2>1. UpTypes'
    BY <1>1 DEF PostWritten, UpTypes, PostAt
  <2> QED
    BY <1>1, <2>1, PoolAlone DEF PostWritten
<1>2. CASE PostAnswered(k)
  <2>1. UpTypes'
    BY <1>2 DEF PostAnswered, UpTypes, PostAt, PostOver
  <2> QED
    BY <1>2, <2>1, PoolAlone DEF PostAnswered
<1>3. CASE PostInterrupts(k)
  <2>1. UpTypes'
    BY <1>3 DEF PostInterrupts, UpTypes, PostAt
  <2> QED
    BY <1>3, <2>1, PoolAlone DEF PostInterrupts
<1>4. CASE PostFails(k)
  <2>1. /\ UNCHANGED dialVars
        /\ UNCHANGED <<pool, made, running, leftUse, leftReq, expired, notUsed, shut, getter,
                       retiring>>
    BY <1>4 DEF PostFails
  <2>2. /\ DialTypes' /\ Holding' = Holding
        /\ \A e \in Dials : Bound(e) => Bound(e)' /\ client'[e] = client[e]
    BY <2>1, DialTypesStay DEF dialVars
  <2>3. on[k] \in Clients
    BY <1>4 DEF PostFails, UpTypes
  <2>4. broken' \subseteq Clients
    BY <1>4, <2>3 DEF PostFails, PoolTypes
  <2>5. PoolTypes' /\ RunningCounts' /\ PoolInv' /\ HolderKeepsTransport' /\ RetiredIsShut'
    BY <2>1, <2>2, <2>4, PoolStays DEF PoolTypes, dialVars
  <2>6. UpTypes'
    BY <1>4 DEF PostFails, UpTypes, PostAt, PostOver
  <2> QED
    BY <2>2, <2>5, <2>6
<1> QED
  BY <1>1, <1>2, <1>3, <1>4 DEF PostStep

LEMMA ExpiryKeeps ==
  ASSUME UseInv, NEW c \in Clients, Expiry(c)
  PROVE  UseInv'
<1> USE DEF UseInv
<1>1. /\ UNCHANGED dialVars /\ UNCHANGED upVars
      /\ UNCHANGED <<pool, made, running, leftUse, leftReq, broken, notUsed, shut, getter,
                     retiring>>
      /\ expired' = expired \cup {c}
  BY DEF Expiry, Expire
<1>2. /\ DialTypes' /\ Holding' = Holding
      /\ \A e \in Dials : Bound(e) => Bound(e)' /\ client'[e] = client[e]
  BY <1>1, DialTypesStay DEF dialVars
<1>3. PoolTypes' /\ RunningCounts' /\ PoolInv' /\ HolderKeepsTransport' /\ RetiredIsShut'
  BY <1>1, <1>2, PoolStays DEF PoolTypes, dialVars
<1>4. UpTypes'
  BY <1>1, UpStays DEF upVars
<1> QED
  BY <1>2, <1>3, <1>4

-----------------------------------------------------------------------------
(* The theorems.                                                           *)

LEMMA NextUse == UseInv /\ [Next]_vars => UseInv'
<1> SUFFICES ASSUME UseInv, [Next]_vars PROVE UseInv'
  OBVIOUS
<1>0. UpTypes
  BY DEF UseInv
<1>1. CASE \E d \in Dials : DialStep(d) \/ DialCloses(d) \/ StreamFails(d)
  BY <1>1, GetsKeeps, PicksKeeps, RegistersKeeps, OpensKeeps, ReleasedKeeps, ClosedKeeps,
     ClosesKeeps, StreamFailsKeeps DEF DialStep
<1>2. CASE UpStep
  BY <1>2, UpStepKeeps
<1>3. CASE ReaderStep \/ WriterStep \/ Writing
  <2>1. UNCHANGED <<xmuxVars, dialVars, upVars>>
    BY <1>3 DEF ReaderStep, WriterStep, Writing
  <2>2. UpTypes'
    BY <1>0, <2>1, UpStays DEF upVars
  <2> QED
    BY <2>1, <2>2, PoolAlone
<1>4. CASE \E k \in Posts : PostStep(k) \/ PostFails(k)
  BY <1>4, PostKeeps
<1>5. CASE \E c \in Clients : Expiry(c)
  BY <1>5, ExpiryKeeps
<1>6. CASE UNCHANGED vars
  <2>1. UNCHANGED <<xmuxVars, dialVars, upVars>>
    BY <1>6 DEF vars
  <2>2. UpTypes'
    BY <1>0, <2>1, UpStays DEF upVars
  <2> QED
    BY <2>1, <2>2, PoolAlone
<1> QED
  BY <1>1, <1>2, <1>3, <1>4, <1>5, <1>6 DEF Next

LEMMA UseHolds == Spec => []UseInv
<1> QED
  BY InitUse, NextUse, PTL DEF Spec

(* The pool stays typed; Running in particular never goes below zero and      *)
(* never counts more than the goroutines that use the pool.                   *)
THEOREM PoolTyped == Spec => []XmuxTypeOK
<1>1. UseInv => XmuxTypeOK
  <2> SUFFICES ASSUME UseInv PROVE XmuxTypeOK
    OBVIOUS
  <2>1. running \in [Clients -> 0 .. Cardinality(Users)]
    BY RunningType DEF UseInv
  <2> QED
    BY <2>1 DEF UseInv, PoolTypes, PoolInv, XmuxTypeOK
<1> QED
  BY <1>1, UseHolds, PTL

(* Running of a client is the number of dials between AddRunning and the end  *)
(* of their connection, so a request of such a dial is what keeps it open.    *)
THEOREM RunningCountsHolds == Spec => []RunningCounts
<1>1. UseInv => RunningCounts
  BY DEF UseInv
<1> QED
  BY <1>1, UseHolds, PTL

(* A connection that registered with its client before the pool retired it    *)
(* keeps that client's transport until it is closed itself (GetXmuxClient's   *)
(* maybeClose and DoneRunning).                                               *)
THEOREM OpenDialKeepsTransportHolds == Spec => []OpenDialKeepsTransport
<1>1. UseInv => OpenDialKeepsTransport
  BY DEF UseInv, HolderKeepsTransport, OpenDialKeepsTransport, Holding
<1> QED
  BY <1>1, UseHolds, PTL

(* A retired client that no dial uses any more has been closed or is about to *)
(* be closed by the holder of the lock (GetXmuxClient, maybeClose).           *)
THEOREM RetiredIsShutHolds == Spec => []RetiredIsShut
<1>1. UseInv => RetiredIsShut
  BY DEF UseInv
<1> QED
  BY <1>1, UseHolds, PTL

=============================================================================
