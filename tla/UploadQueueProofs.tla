-------------------------- MODULE UploadQueueProofs --------------------------
(***************************************************************************)
(* Proofs about UploadQueue: what waits is bounded, what was acknowledged   *)
(* is kept, posts and streams never mix, and the reader gets each post once *)
(* and in the client's order.                                               *)
(***************************************************************************)
EXTENDS UploadQueue, FiniteSetTheorems, SequenceTheorems, TLAPS

Units == [from: Requests, unit: Nat]

(* The heap is a finite set. *)
LEMMA HeapFinite == TypeOK => IsFiniteSet(heap) /\ Cardinality(heap) \in Nat
BY RequestsAssumption, FS_Subset, FS_CardinalityType DEF TypeOK

(* Sequences: a function on 1..n, an appended element, the first one taken. *)
LEMMA FunctionIsSeq ==
  ASSUME NEW S, NEW n \in Nat, NEW u \in [1..n -> S]
  PROVE  u \in Seq(S) /\ Len(u) = n
<1>1. u \in Seq(S)
  OBVIOUS
<1>2. DOMAIN u = 1..n /\ DOMAIN u = 1..Len(u) /\ Len(u) \in Nat
  BY <1>1, LenProperties
<1> QED
  BY <1>2

LEMMA Appended ==
  ASSUME NEW S, NEW s \in Seq(S), NEW e \in S
  PROVE  LET t == Append(s, e) IN
         /\ t \in Seq(S) /\ Len(t) = Len(s) + 1 /\ Len(s) \in Nat
         /\ \A i \in DOMAIN t : i \in Nat /\ i <= Len(s) + 1
         /\ \A i \in DOMAIN t : \/ i \in DOMAIN s /\ t[i] = s[i]
                                \/ i = Len(s) + 1 /\ t[i] = e
         /\ \A i \in DOMAIN s : i \in DOMAIN t /\ t[i] = s[i]
         /\ \E i \in DOMAIN t : t[i] = e
<1> DEFINE t == Append(s, e)
<1>1. /\ t \in Seq(S) /\ Len(t) = Len(s) + 1
      /\ \A i \in 1..Len(s) : t[i] = s[i]
      /\ t[Len(s) + 1] = e
  BY AppendProperties
<1> HIDE DEF t
<1>2. DOMAIN t = 1..Len(t) /\ DOMAIN s = 1..Len(s) /\ Len(s) \in Nat
  BY <1>1, LenProperties
<1>3. Len(s) + 1 \in DOMAIN t
  BY <1>1, <1>2
<1>4. \A i \in DOMAIN t : i \in DOMAIN s \/ i = Len(s) + 1
  BY <1>1, <1>2
<1> QED
  BY <1>1, <1>2, <1>3, <1>4 DEF t

LEMMA FirstTaken ==
  ASSUME NEW S, NEW s \in Seq(S), s # <<>>
  PROVE  LET t == Tail(s) IN
         /\ Head(s) \in S /\ Head(s) = s[1] /\ 1 \in DOMAIN s
         /\ t \in Seq(S) /\ Len(t) = Len(s) - 1 /\ Len(s) \in Nat
         /\ \A i \in DOMAIN t : i + 1 \in DOMAIN s /\ t[i] = s[i + 1]
         /\ \A i \in DOMAIN s : i = 1 \/ (i - 1 \in DOMAIN t /\ t[i - 1] = s[i])
<1> DEFINE t == Tail(s)
<1>1. /\ Head(s) \in S /\ t \in Seq(S) /\ Len(t) = Len(s) - 1
      /\ \A i \in 1..Len(t) : t[i] = s[i + 1]
  BY HeadTailProperties
<1>2. Head(s) = s[1]
  OBVIOUS
<1> HIDE DEF t
<1>3. DOMAIN t = 1..Len(t) /\ DOMAIN s = 1..Len(s) /\ Len(s) \in Nat /\ Len(s) # 0
  BY <1>1, LenProperties, EmptySeq
<1>4. \A i \in DOMAIN s : i = 1 \/ (i - 1 \in 1..Len(t) /\ (i - 1) + 1 = i)
  BY <1>1, <1>3
<1> QED
  BY <1>1, <1>2, <1>3, <1>4 DEF t

(* What a read adds comes from one request only. *)
LEMMA Reading ==
  ASSUME NEW r, NEW n \in Nat, NEW s \in Seq(Units), NEW u \in [1..n -> Units],
         \A i \in 1..n : u[i].from = r
  PROVE  /\ s \o u \in Seq(Units)
         /\ \A i \in DOMAIN (s \o u) :
              \/ i \in DOMAIN s /\ (s \o u)[i] = s[i]
              \/ n > 0 /\ (s \o u)[i].from = r
<1>1. u \in Seq(Units) /\ Len(u) = n
  BY FunctionIsSeq
<1>2. s \o u \in Seq(Units)
  BY <1>1, ConcatProperties
<1>3. ASSUME NEW i \in DOMAIN (s \o u)
      PROVE  \/ i \in DOMAIN s /\ (s \o u)[i] = s[i]
             \/ n > 0 /\ (s \o u)[i].from = r
  <2>1. Len(s \o u) = Len(s) + n /\ Len(s) \in Nat
    BY <1>1, ConcatProperties, LenProperties
  <2>2. i \in 1..(Len(s) + n) /\ DOMAIN s = 1..Len(s)
    BY <1>2, <2>1, LenProperties
  <2>3. CASE i <= Len(s)
    <3>1. (s \o u)[i] = s[i]
      BY <1>1, <2>1, <2>2, <2>3, ConcatProperties
    <3>2. i \in DOMAIN s
      BY <2>1, <2>2, <2>3
    <3> QED
      BY <3>1, <3>2, Zenon
  <2>4. CASE i > Len(s)
    <3>1. i - Len(s) \in 1..n /\ ~(i <= Len(s))
      BY <2>1, <2>2, <2>4
    <3>2. (s \o u)[i] = u[i - Len(s)]
      BY <1>1, <2>1, <2>2, <3>1, ConcatProperties
    <3>3. n > 0
      BY <3>1
    <3> QED
      BY <3>1, <3>2, <3>3, Zenon
  <2> QED
    BY <2>1, <2>2, <2>3, <2>4
<1> QED
  BY <1>2, <1>3

-----------------------------------------------------------------------------
LEMMA QueueInit == Init => QueueInv
<1> SUFFICES ASSUME Init PROVE QueueInv
  OBVIOUS
<1> USE RequestsAssumption, PacketAssumption, LimitAssumption
<1>1. TypeOK
  BY DEF Init, TypeOK
<1>2. HeapInv
  BY FS_EmptySet DEF Init, HeapInv, HeapBounded
<1>3. KeptInv /\ TakeOver /\ OneStream
  BY DEF Init, KeptInv, TakeOver, OneStream, Requests
<1> QED
  BY <1>1, <1>2, <1>3 DEF QueueInv

(* Steps that leave the heap, the channel and what was read alone. *)
LEMMA Quiet ==
  ASSUME QueueInv, UNCHANGED <<channel, heap, nextSeq, delivered>>, TypeOK'
  PROVE  /\ HeapBounded' /\ OneStream'
         /\ \A p \in Posts : Kept(p) => Kept(p)'
BY DEF QueueInv, HeapInv, HeapBounded, OneStream, Kept

(* The handlers. *)
LEMMA PushKeeps == ASSUME QueueInv, NEW r \in Requests, Push(r) \/ StreamEnds(r) PROVE QueueInv'
<1> USE RequestsAssumption DEF QueueInv
<1>1. CASE PushStarts(r)
  <2>1. TypeOK'
    BY <1>1 DEF TypeOK, PushStarts, Requests
  <2>2. HeapInv' /\ KeptInv'
    BY <1>1, <2>1, Quiet DEF PushStarts, HeapInv, KeptInv, TypeOK, Requests
  <2>3. TakeOver'
    BY <1>1 DEF PushStarts, TakeOver, TypeOK, Requests
  <2> QED
    BY <1>1, <2>1, <2>2, <2>3, Quiet DEF PushStarts
<1>2. CASE PushSends(r)
  <2>1. TypeOK'
    BY <1>2 DEF TypeOK, PushSends
  <2>2. /\ Len(channel') = Len(channel) + 1
        /\ \A i \in DOMAIN channel' :
             \/ i \in DOMAIN channel /\ channel'[i] = channel[i]
             \/ channel'[i] = r
        /\ \A i \in DOMAIN channel : i \in DOMAIN channel' /\ channel'[i] = channel[i]
        /\ \E i \in DOMAIN channel' : channel'[i] = r
    <3>1. channel \in Seq(Requests) /\ channel' = Append(channel, r)
      BY <1>2 DEF TypeOK, PushSends
    <3> QED
      BY <3>1, Appended
  <2>3. HeapInv'
    BY <1>2, <2>2, LimitAssumption DEF PushSends, HeapInv, HeapBounded, TypeOK
  <2>4. \A p \in Posts : Kept(p) \/ p = r => Kept(p)'
    BY <1>2, <2>2 DEF PushSends, Kept
  <2>5. KeptInv'
    BY <1>2, <2>4 DEF PushSends, KeptInv, TypeOK, Requests
  <2>6. TakeOver'
    BY <1>2, <2>2 DEF PushSends, TakeOver, TypeOK, Requests
  <2>7. OneStream'
    BY <1>2 DEF PushSends, OneStream
  <2> QED
    BY <2>1, <2>3, <2>5, <2>6, <2>7
<1>3. CASE PushSeesClosed(r)
  <2>1. TypeOK'
    BY <1>3 DEF TypeOK, PushSeesClosed
  <2>2. HeapInv' /\ KeptInv'
    BY <1>3, <2>1, Quiet DEF PushSeesClosed, HeapInv, KeptInv, TypeOK, Requests
  <2>3. TakeOver'
    BY <1>3 DEF PushSeesClosed, TakeOver, TypeOK, Requests
  <2> QED
    BY <1>3, <2>1, <2>2, <2>3, Quiet DEF PushSeesClosed
<1>4. CASE PushReturns(r)
  <2>1. TypeOK'
    BY <1>4 DEF TypeOK, PushReturns
  <2>2. HeapInv' /\ KeptInv'
    BY <1>4, <2>1, Quiet DEF PushReturns, HeapInv, KeptInv, TypeOK, Requests
  <2>3. TakeOver'
    BY <1>4 DEF PushReturns, TakeOver, TypeOK, Requests
  <2> QED
    BY <1>4, <2>1, <2>2, <2>3, Quiet DEF PushReturns
<1>5. CASE StreamEnds(r)
  <2>1. TypeOK'
    BY <1>5 DEF TypeOK, StreamEnds
  <2>2. HeapInv' /\ KeptInv'
    BY <1>5, <2>1, Quiet DEF StreamEnds, HeapInv, KeptInv, TypeOK, Requests
  <2>3. TakeOver'
    BY <1>5 DEF StreamEnds, TakeOver, TypeOK, Requests
  <2> QED
    BY <1>5, <2>1, <2>2, <2>3, Quiet DEF StreamEnds
<1> QED
  BY <1>1, <1>2, <1>3, <1>4, <1>5 DEF Push

LEMMA CloseKeeps == ASSUME QueueInv, CloseMarks \/ CloseHangsUp PROVE QueueInv'
<1>1. TypeOK' /\ UNCHANGED <<reader, channel, heap, nextSeq, handler, read, delivered>>
  BY DEF QueueInv, TypeOK, CloseMarks, CloseHangsUp
<1> QED
  BY <1>1 DEF QueueInv, HeapInv, HeapBounded, KeptInv, Kept, TakeOver, OneStream

-----------------------------------------------------------------------------
(* Read, up to what it takes from the heap. *)
LEMMA ReadEntryKeeps ==
  ASSUME QueueInv, ReadStarts \/ ReadChecks \/ ReadSeesClosed \/ ReadBodyEnds
  PROVE  QueueInv'
<1>1. /\ UNCHANGED <<reader, channel, heap, offset, nextSeq, close, hungUp, handler, delivered>>
      /\ read' \in {"stream", "check", "end", "wait", "pop"}
      /\ read' = "stream" => reader # None
      /\ read' = "wait" => heap = {}
      /\ read # "end"
      /\ read' \in {"check", "wait", "pop"} => reader = None \/ read = "check"
  BY DEF QueueInv, TypeOK, ReadStarts, ReadChecks, ReadSeesClosed, ReadBodyEnds
<1>2. TypeOK'
  BY <1>1 DEF QueueInv, TypeOK
<1>3. HeapInv' /\ KeptInv' /\ OneStream'
  BY <1>1, <1>2, Quiet DEF QueueInv, HeapInv, KeptInv
<1>4. TakeOver'
  BY <1>1, RequestsAssumption DEF QueueInv, TakeOver, TypeOK, Requests
<1> QED
  BY <1>2, <1>3, <1>4 DEF QueueInv

LEMMA ReadReceivesKeeps == ASSUME QueueInv, ReadReceives PROVE QueueInv'
<1> DEFINE h == Head(channel)
<1> USE DEF QueueInv
<1>1. /\ h \in Requests /\ channel' = Tail(channel)
      /\ Len(channel') = Len(channel) - 1 /\ Len(channel) \in Nat
      /\ h = channel[1] /\ 1 \in DOMAIN channel
      /\ \A i \in DOMAIN channel' : i + 1 \in DOMAIN channel /\ channel'[i] = channel[i + 1]
      /\ \A i \in DOMAIN channel : i = 1 \/ (i - 1 \in DOMAIN channel' /\ channel'[i - 1] = channel[i])
  BY FirstTaken DEF ReadReceives, TypeOK
<1>2. TypeOK'
  BY <1>1 DEF ReadReceives, TypeOK
<1>3. CASE read = "wait" /\ h \in Streams
  <2>1. \A p \in Posts : Kept(p) => Kept(p)'
    BY <1>1, <1>3, RequestsAssumption DEF ReadReceives, Kept
  <2>2. HeapInv' /\ KeptInv'
    BY <1>1, <1>2, <1>3, <2>1, LimitAssumption DEF ReadReceives, HeapInv, HeapBounded, KeptInv
  <2>3. TakeOver' /\ OneStream'
    BY <1>1, <1>3 DEF ReadReceives, TakeOver, OneStream
  <2> QED
    BY <1>2, <2>2, <2>3
<1>4. CASE ~(read = "wait" /\ h \in Streams)
  <2>1. read' = "pop" /\ heap' = heap \cup {h}
    BY <1>4 DEF ReadReceives
  <2>2. \A p \in Posts : Kept(p) => Kept(p)'
    BY <1>1, <2>1 DEF ReadReceives, Kept
  <2>3. IsFiniteSet(heap) /\ Cardinality(heap) \in Nat /\ Cardinality(heap) <= MaxPackets + 1
    BY HeapFinite, FS_EmptySet, LimitAssumption DEF ReadReceives, HeapInv
  <2>4. Cardinality(heap') <= MaxPackets + 2
    BY <2>1, <2>3, FS_AddElement, LimitAssumption
  <2>5. HeapInv' /\ KeptInv'
    BY <1>1, <2>1, <2>2, <2>4, LimitAssumption DEF ReadReceives, HeapInv, HeapBounded, KeptInv
  <2>6. TakeOver' /\ OneStream'
    BY <1>1, <2>1 DEF ReadReceives, TakeOver, OneStream
  <2> QED
    BY <1>2, <2>5, <2>6
<1> QED
  BY <1>3, <1>4

(* Taking one element out of the heap. *)
LEMMA HeapShrinks ==
  ASSUME QueueInv, heap' \subseteq heap, UNCHANGED channel, read' \notin {"gap", "wait"}
  PROVE  HeapInv'
<1>1. IsFiniteSet(heap) /\ Cardinality(heap) \in Nat
  BY HeapFinite DEF QueueInv
<1>2. Cardinality(heap') \in Nat /\ Cardinality(heap') <= Cardinality(heap)
  BY <1>1, FS_Subset, FS_CardinalityType
<1> QED
  BY <1>1, <1>2, LimitAssumption DEF QueueInv, HeapInv, HeapBounded

LEMMA DeliverKeeps == ASSUME QueueInv, Deliver PROVE QueueInv'
<1> USE DEF QueueInv
<1>1. PICK r \in Least : \E n \in 0..Left(r) :
         /\ Seqno(r) = nextSeq
         /\ n > 0 \/ Left(r) = 0
         /\ offset' = [offset EXCEPT ![r] = @ + n]
         /\ delivered' = delivered \o [i \in 1..n |-> [from |-> r, unit |-> offset[r] + i]]
         /\ IF n < Left(r)
            THEN UNCHANGED <<heap, nextSeq>>
            ELSE heap' = heap \ {r} /\ nextSeq' = nextSeq + 1
  BY DEF Deliver
<1>2. r \in heap /\ r \in Requests /\ Left(r) \in Int /\ offset[r] \in Nat
  BY PacketAssumption DEF Least, Left, TypeOK, Requests
<1>3. PICK n \in 0..Left(r) :
         /\ Seqno(r) = nextSeq
         /\ n > 0 \/ Left(r) = 0
         /\ offset' = [offset EXCEPT ![r] = @ + n]
         /\ delivered' = delivered \o [i \in 1..n |-> [from |-> r, unit |-> offset[r] + i]]
         /\ IF n < Left(r)
            THEN UNCHANGED <<heap, nextSeq>>
            ELSE heap' = heap \ {r} /\ nextSeq' = nextSeq + 1
  BY <1>1
<1>4. n \in Nat
  BY <1>2
<1>5. /\ delivered' \in Seq(Units)
      /\ \A i \in DOMAIN delivered' :
           \/ i \in DOMAIN delivered /\ delivered'[i] = delivered[i]
           \/ n > 0 /\ delivered'[i].from = r
  <2>1. delivered \in Seq(Units)
    BY DEF TypeOK, Units
  <2> DEFINE u == [i \in 1..n |-> [from |-> r, unit |-> offset[r] + i]]
  <2>2. u \in [1..n -> Units] /\ \A i \in 1..n : u[i].from = r
    BY <1>2, <1>4 DEF Units
  <2>3. delivered' = delivered \o u
    BY <1>3
  <2> HIDE DEF u
  <2>4. /\ delivered \o u \in Seq(Units)
        /\ \A i \in DOMAIN (delivered \o u) :
             \/ i \in DOMAIN delivered /\ (delivered \o u)[i] = delivered[i]
             \/ n > 0 /\ (delivered \o u)[i].from = r
    BY <1>4, <2>1, <2>2, Reading
  <2> QED
    BY <2>3, <2>4, Zenon
<1>6. /\ read = "pop" /\ read' = "out" /\ heap' \subseteq heap
      /\ UNCHANGED <<reader, channel, close, hungUp, handler>>
      /\ nextSeq' \in Nat /\ nextSeq <= nextSeq'
      /\ \A q \in heap \ heap' : q = r /\ nextSeq' = nextSeq + 1
  BY <1>3 DEF Deliver, TypeOK
<1>7. TypeOK'
  <2>1. offset' \in [Requests -> Nat]
    BY <1>2, <1>3, <1>4 DEF TypeOK
  <2> QED
    BY <2>1, <1>5, <1>6 DEF TypeOK, Units
<1>8. HeapInv'
  BY <1>6, HeapShrinks
<1>9. KeptInv'
  <2>1. ASSUME NEW p \in Posts, Kept(p) PROVE Kept(p)'
    <3>1. SeqOf[p] \in Nat /\ nextSeq \in Nat
      BY PacketAssumption DEF TypeOK
    <3>2. CASE p \in heap \ heap'
      BY <1>3, <1>6, <3>1, <3>2 DEF Kept, Seqno
    <3>3. CASE p \in heap'
      BY <3>3 DEF Kept
    <3>4. CASE p \notin heap
      BY <1>6, <2>1, <3>1, <3>4 DEF Kept
    <3> QED
      BY <3>2, <3>3, <3>4
  <2> QED
    BY <1>6, <2>1 DEF KeptInv
<1>10. \A i \in DOMAIN delivered' : delivered'[i].from \notin Streams
  <2>1. \A i \in DOMAIN delivered : delivered[i].from \notin Streams
    BY <1>6 DEF TakeOver
  <2>2. n > 0 => r \notin Streams
    BY <1>3, <1>4, RequestsAssumption DEF Left
  <2> QED
    BY <1>5, <2>1, <2>2
<1>11. TakeOver' /\ OneStream'
  BY <1>6, <1>10 DEF TakeOver, OneStream
<1> QED
  BY <1>7, <1>8, <1>9, <1>11

LEMMA DropStaleKeeps == ASSUME QueueInv, DropStale PROVE QueueInv'
<1> USE DEF QueueInv
<1>1. PICK r \in Least : /\ Seqno(r) < nextSeq /\ heap' = heap \ {r}
                         /\ read' = IF heap = {r} THEN "out" ELSE "pop"
  BY DEF DropStale
<1>2. /\ UNCHANGED <<reader, channel, offset, nextSeq, close, hungUp, handler, delivered>>
      /\ read = "pop" /\ read' \in {"out", "pop"}
  BY <1>1 DEF DropStale
<1>3. TypeOK'
  BY <1>1, <1>2 DEF TypeOK
<1>4. HeapInv'
  BY <1>1, <1>2, HeapShrinks
<1>5. \A p \in Posts : Kept(p) => Kept(p)'
  BY <1>1, <1>2 DEF Kept, Seqno
<1>6. KeptInv' /\ TakeOver' /\ OneStream'
  BY <1>2, <1>5 DEF KeptInv, TakeOver, OneStream
<1> QED
  BY <1>3, <1>4, <1>6

LEMMA MeetGapKeeps == ASSUME QueueInv, MeetGap PROVE QueueInv'
<1> USE DEF QueueInv
<1>1. /\ UNCHANGED <<reader, channel, offset, nextSeq, close, hungUp, handler, delivered>>
      /\ read = "pop" /\ heap' \subseteq heap
      /\ \/ TooLarge /\ read' = "end"
         \/ ~TooLarge /\ read' = "gap" /\ heap' = heap
  BY DEF MeetGap
<1>2. TypeOK'
  BY <1>1 DEF TypeOK
<1>3. HeapInv'
  <2>1. CASE read' = "end"
    BY <1>1, <2>1, HeapShrinks
  <2>2. CASE read' = "gap"
    BY <1>1, <2>2, HeapFinite, LimitAssumption DEF HeapInv, HeapBounded, TooLarge
  <2> QED
    BY <1>1, <2>1, <2>2
<1>4. KeptInv' /\ TakeOver' /\ OneStream'
  BY <1>1 DEF KeptInv, Kept, TakeOver, OneStream
<1> QED
  BY <1>2, <1>3, <1>4

LEMMA ReadBodyKeeps == ASSUME QueueInv, ReadBody PROVE QueueInv'
<1> USE DEF QueueInv
<1>1. reader # None /\ reader \in Streams /\ reader \in Requests
  BY DEF ReadBody, TakeOver, TypeOK, Requests
<1>2. offset' \in [Requests -> Nat]
  BY <1>1 DEF ReadBody, TypeOK
<1> DEFINE e == [from |-> reader, unit |-> offset'[reader]]
<1>3. e \in Units /\ delivered' = Append(delivered, e) /\ delivered \in Seq(Units)
  BY <1>1, <1>2 DEF ReadBody, TypeOK, Units
<1> HIDE DEF e
<1>4. /\ delivered' \in Seq(Units)
      /\ \A i \in DOMAIN delivered' :
           \/ i \in DOMAIN delivered /\ delivered'[i] = delivered[i]
           \/ i = Len(delivered) + 1 /\ delivered'[i] = e
      /\ \A i \in DOMAIN delivered' : i \in Nat /\ i <= Len(delivered) + 1
      /\ DOMAIN delivered = 1..Len(delivered) /\ Len(delivered) \in Nat
  BY <1>3, Appended, LenProperties
<1>5. e.from = reader
  BY DEF e
<1>6. UNCHANGED <<reader, channel, heap, nextSeq, close, hungUp, handler>> /\ read = "stream" /\ read' = "out"
  BY DEF ReadBody
<1>7. TypeOK'
  BY <1>2, <1>4, <1>6 DEF TypeOK, Units
<1>8. HeapInv' /\ KeptInv'
  BY <1>6 DEF HeapInv, HeapBounded, KeptInv, Kept
<1>9. TakeOver'
  BY <1>4, <1>5, <1>6 DEF TakeOver
<1>10. OneStream'
  <2>1. \A i \in DOMAIN delivered' : i <= Len(delivered) + 1 /\ i \in Nat
    BY <1>4
  <2>2. \A i \in DOMAIN delivered' : delivered'[i].from \in Streams => delivered'[i].from = reader
    BY <1>9, <1>6 DEF TakeOver
  <2>3. ASSUME NEW i \in DOMAIN delivered', NEW j \in DOMAIN delivered', i < j,
               delivered'[i].from \in Streams
        PROVE  delivered'[j].from = delivered'[i].from
    <3>1. delivered'[i].from = reader
      BY <2>2, <2>3
    <3>2. CASE delivered'[j] = e
      BY <3>1, <3>2, <1>5
    <3>3. CASE j \in DOMAIN delivered /\ delivered'[j] = delivered[j]
      <4>1. i \in DOMAIN delivered /\ delivered'[i] = delivered[i]
        BY <1>4, <2>1, <2>3, <3>3 DEF TypeOK
      <4> QED
        BY <2>3, <3>3, <4>1 DEF OneStream
    <3> QED
      BY <1>4, <3>2, <3>3
  <2> QED
    BY <2>3 DEF OneStream
<1> QED
  BY <1>7, <1>8, <1>9, <1>10

-----------------------------------------------------------------------------
LEMMA QueueStep == ASSUME QueueInv, [Next]_vars PROVE QueueInv'
<1>1. CASE UNCHANGED vars
  BY <1>1 DEF vars, QueueInv, TypeOK, HeapInv, HeapBounded, KeptInv, Kept, TakeOver, OneStream
<1>2. CASE \E r \in Requests : Push(r) \/ StreamEnds(r)
  BY <1>2, PushKeeps
<1>3. CASE Read
  BY <1>3, ReadEntryKeeps, ReadReceivesKeeps, DeliverKeeps, DropStaleKeeps, MeetGapKeeps DEF Read
<1>4. CASE ReadBody
  BY <1>4, ReadBodyKeeps
<1>5. CASE CloseMarks \/ CloseHangsUp
  BY <1>5, CloseKeeps
<1> QED
  BY <1>1, <1>2, <1>3, <1>4, <1>5 DEF Next

(* The queue's inductive invariant holds of every behaviour of Push, Read and *)
(* Close.                                                                      *)
THEOREM QueueInvHolds == Spec => []QueueInv
BY QueueInit, QueueStep, PTL DEF Spec

(* Every reachable state of the queue is well typed. *)
THEOREM TypeCorrect == Spec => []TypeOK
<1>1. QueueInv => TypeOK
  BY DEF QueueInv
<1> QED
  BY <1>1, QueueInvHolds, PTL

(* The reorder heap never holds more than scMaxBufferedPosts + 2 packets and *)
(* the channel never more than scMaxBufferedPosts: the limit in Read is       *)
(* enough although it is tested between a pop and two pushes.                 *)
THEOREM HeapBoundedHolds == Spec => []HeapBounded
<1>1. QueueInv => HeapBounded
  BY DEF QueueInv, HeapInv
<1> QED
  BY <1>1, QueueInvHolds, PTL

(* A post whose Push returned nil is in the channel or in the heap until its *)
(* sequence number has passed or Read has failed.                             *)
THEOREM AckedIsKeptHolds == Spec => []AckedIsKept
<1>1. QueueInv => AckedIsKept
  BY DEF QueueInv, KeptInv, AckedIsKept
<1> QED
  BY <1>1, QueueInvHolds, PTL

(* After the first unit of a stream-up body the proxy reads that body only. *)
THEOREM OneStreamHolds == Spec => []OneStream
<1>1. QueueInv => OneStream
  BY DEF QueueInv
<1> QED
  BY <1>1, QueueInvHolds, PTL

-----------------------------------------------------------------------------
(* The order of what the proxy reads.                                      *)

(* Read has met the stream and does not come back to the heap.               *)
Turned == reader # None /\ read \in {"out", "stream", "end"}

Last == delivered[Len(delivered)]

(* Until then nextSeq and the offsets say where the reading stands: at the    *)
(* number after the last post read to its end, or inside that post; of the    *)
(* posts still to come nothing has been read.                                *)
Position ==
  IF delivered = <<>>
  THEN nextSeq = 0 /\ \A q \in Posts : offset[q] = 0
  ELSE /\ Last.from \in Posts
       /\ 1 <= Last.unit /\ Last.unit <= LenOf[Last.from]
       /\ IF Last.unit = LenOf[Last.from] THEN nextSeq = SeqOf[Last.from] + 1
          ELSE nextSeq = SeqOf[Last.from] /\ offset[Last.from] = Last.unit
       /\ \A q \in Posts : q # Last.from /\ nextSeq <= SeqOf[q] => offset[q] = 0

(* A stream in the heap is the reader as well.                               *)
HeapStreams == \A r \in heap : r \in Streams => reader # None

OrderInv == HeapStreams /\ InOrder /\ (RepeatsAreShort => Turned \/ Position)

(* What is appended lies behind what there was.                              *)
LEMMA Appending ==
  ASSUME NEW n \in Nat, NEW s \in Seq(Units), NEW u \in [1..n -> Units]
  PROVE  /\ s \o u \in Seq(Units) /\ Len(s) \in Nat /\ Len(s \o u) = Len(s) + n
         /\ DOMAIN s = 1..Len(s) /\ DOMAIN (s \o u) = 1..(Len(s) + n)
         /\ \A i \in 1..Len(s) : (s \o u)[i] = s[i]
         /\ \A i \in 1..n : (s \o u)[Len(s) + i] = u[i]
<1>1. u \in Seq(Units) /\ Len(u) = n
  BY FunctionIsSeq
<1>2. s \o u \in Seq(Units) /\ Len(s \o u) = Len(s) + n /\ Len(s) \in Nat
  BY <1>1, ConcatProperties, LenProperties
<1>3. DOMAIN s = 1..Len(s) /\ DOMAIN (s \o u) = 1..(Len(s) + n)
  BY <1>2, LenProperties
<1>4. \A i \in 1..Len(s) : (s \o u)[i] = s[i]
  BY <1>1, <1>2, ConcatProperties
<1>5. ASSUME NEW i \in 1..n PROVE (s \o u)[Len(s) + i] = u[i]
  <2>1. /\ Len(s) + i \in 1..(Len(s) + n) /\ ~(Len(s) + i <= Len(s))
        /\ (Len(s) + i) - Len(s) = i
    BY <1>2
  <2> QED
    BY <1>1, <1>2, <2>1, ConcatProperties
<1> QED
  BY <1>2, <1>3, <1>4, <1>5

LEMMA OrderInit == Init => OrderInv
<1> SUFFICES ASSUME Init PROVE OrderInv
  OBVIOUS
<1>1. FromPosts = {}
  BY DEF Init, FromPosts
<1>2. \A q \in Posts : offset[q] = 0
  BY DEF Init, Requests
<1> QED
  BY <1>1, <1>2 DEF Init, OrderInv, HeapStreams, InOrder, Position

(* Steps that read nothing and do not move the reading position.             *)
LEMMA OrderStays ==
  ASSUME OrderInv, UNCHANGED <<offset, nextSeq, delivered>>,
         HeapStreams', Turned => Turned'
  PROVE  OrderInv'
<1>1. InOrder' <=> InOrder
  BY DEF InOrder, FromPosts, Follows
<1>2. Position' <=> Position
  BY DEF Position, Last
<1> QED
  BY <1>1, <1>2 DEF OrderInv

(* A delivery continues the post that is being read, or begins the next one.  *)
LEMMA DeliverInOrder ==
  ASSUME QueueInv, OrderInv, Deliver
  PROVE  OrderInv'
<1> USE DEF QueueInv, OrderInv
<1>1. PICK r \in Least : \E n \in 0..Left(r) :
         /\ Seqno(r) = nextSeq
         /\ n > 0 \/ Left(r) = 0
         /\ offset' = [offset EXCEPT ![r] = @ + n]
         /\ delivered' = delivered \o [i \in 1..n |-> [from |-> r, unit |-> offset[r] + i]]
         /\ IF n < Left(r)
            THEN UNCHANGED <<heap, nextSeq>>
            ELSE heap' = heap \ {r} /\ nextSeq' = nextSeq + 1
  BY DEF Deliver
<1>2. r \in heap /\ r \in Requests /\ Left(r) \in Int /\ offset[r] \in Nat
  BY PacketAssumption DEF Least, Left, TypeOK, Requests
<1>3. PICK n \in 0..Left(r) :
         /\ Seqno(r) = nextSeq
         /\ n > 0 \/ Left(r) = 0
         /\ offset' = [offset EXCEPT ![r] = @ + n]
         /\ delivered' = delivered \o [i \in 1..n |-> [from |-> r, unit |-> offset[r] + i]]
         /\ IF n < Left(r)
            THEN UNCHANGED <<heap, nextSeq>>
            ELSE heap' = heap \ {r} /\ nextSeq' = nextSeq + 1
  BY <1>1
<1>4. n \in Nat /\ delivered \in Seq(Units)
  BY <1>2 DEF TypeOK, Units
<1>5. read = "pop" /\ read' = "out" /\ reader' = reader /\ heap' \subseteq heap
  BY <1>3 DEF Deliver
<1>6. HeapStreams'
  BY <1>5 DEF HeapStreams
<1> DEFINE u == [i \in 1..n |-> [from |-> r, unit |-> offset[r] + i]]
<1>7. u \in [1..n -> Units] /\ delivered' = delivered \o u
  BY <1>2, <1>3, <1>4 DEF Units
<1>8. \A i \in 1..n : u[i].from = r /\ u[i].unit = offset[r] + i
  OBVIOUS
<1> HIDE DEF u
<1>9. CASE r \in Streams
  <2>1. n = 0 /\ reader # None
    BY <1>2, <1>3, <1>9, RequestsAssumption DEF HeapStreams, Left
  <2>2. /\ Len(delivered') = Len(delivered) /\ Len(delivered) \in Nat
        /\ delivered \in Seq(Units) /\ delivered' \in Seq(Units)
        /\ \A i \in 1..Len(delivered) : delivered'[i] = delivered[i]
    BY <1>4, <1>7, <2>1, Appending
  <2>3. delivered' = delivered
    BY <2>2, SeqEqual
  <2>4. InOrder'
    BY <2>3 DEF InOrder, FromPosts, Follows
  <2> QED
    BY <1>5, <1>6, <2>1, <2>4 DEF Turned
<1>10. CASE r \in Posts
  <2> SUFFICES ASSUME RepeatsAreShort PROVE InOrder' /\ (Turned' \/ Position')
    BY <1>6 DEF InOrder
  <2>1. Position
    BY <1>5 DEF Turned
  <2>2. /\ SeqOf \in [Posts -> Nat] /\ \A q \in Posts : LenOf[q] \in Nat \ {0} /\ SeqOf[q] \in Nat
        /\ offset \in [Requests -> Nat] /\ nextSeq \in Nat
        /\ Posts \subseteq Requests
    BY PacketAssumption DEF Requests, TypeOK
  <2>3. SeqOf[r] = nextSeq /\ Left(r) = LenOf[r] - offset[r]
    BY <1>3, <1>10 DEF Seqno, Left
  <2>4. /\ Len(delivered) \in Nat /\ DOMAIN delivered = 1..Len(delivered)
        /\ DOMAIN delivered' = 1..(Len(delivered) + n) /\ delivered' \in Seq(Units)
        /\ Len(delivered') = Len(delivered) + n
        /\ \A i \in 1..Len(delivered) : delivered'[i] = delivered[i]
        /\ \A i \in 1..n : delivered'[Len(delivered) + i] = u[i]
    BY <1>4, <1>7, Appending
  <2>5. delivered = <<>> <=> Len(delivered) = 0
    BY <1>4, EmptySeq
  <2>6. delivered # <<>> =>
          /\ Last.from \in Posts /\ Last.unit \in Nat
          /\ IF Last.unit = LenOf[Last.from] THEN nextSeq = SeqOf[Last.from] + 1
             ELSE nextSeq = SeqOf[Last.from] /\ offset[Last.from] = Last.unit
          /\ 1 <= Last.unit /\ Last.unit <= LenOf[Last.from]
          /\ \A q \in Posts : q # Last.from /\ nextSeq <= SeqOf[q] => offset[q] = 0
    <3>1. delivered # <<>> => Last \in Units
      BY <1>4, <2>4, <2>5 DEF Last
    <3> QED
      BY <2>1, <3>1 DEF Position, Units
  (* The first of the new units follows on the last of the old. *)
  <2>7. /\ delivered = <<>> => offset[r] = 0 /\ nextSeq = 0
        /\ delivered # <<>> =>
             \/ r = Last.from /\ offset[r] = Last.unit /\ Last.unit < LenOf[r]
             \/ r # Last.from /\ offset[r] = 0 /\ Last.unit = LenOf[Last.from]
                  /\ SeqOf[r] = SeqOf[Last.from] + 1
    <3>1. CASE delivered = <<>>
      BY <1>10, <2>1, <3>1 DEF Position
    <3>2. CASE delivered # <<>>
      <4>1. CASE Last.unit = LenOf[Last.from]
        BY <1>10, <2>2, <2>3, <2>6, <3>2, <4>1
      <4>2. CASE Last.unit # LenOf[Last.from]
        <5>1. LenOf[Last.from] # 1 /\ SeqOf[r] = SeqOf[Last.from]
          BY <2>2, <2>3, <2>6, <3>2, <4>2
        <5>2. r = Last.from
          BY <1>10, <2>6, <3>2, <5>1 DEF RepeatsAreShort
        <5> QED
          BY <2>2, <2>6, <3>2, <4>2, <5>2
      <4> QED
        BY <4>1, <4>2
    <3> QED
      BY <3>1, <3>2
  <2>8. n > 0 /\ n <= LenOf[r] - offset[r] /\ offset[r] + n \in Nat
    <3>1. offset[r] < LenOf[r]
      BY <1>10, <2>2, <2>7
    <3> QED
      BY <1>2, <1>3, <1>4, <1>10, <2>2, <2>3, <3>1
  <2>9. InOrder'
    <3> SUFFICES ASSUME NEW i \in 1..(Len(delivered) + n), delivered'[i].from \in Posts
                 PROVE  IF i = 1 THEN SeqOf[delivered'[1].from] = 0 /\ delivered'[1].unit = 1
                        ELSE Follows(delivered'[i - 1], delivered'[i])
      BY <2>4 DEF InOrder, FromPosts, Follows
    <3>1. CASE i <= Len(delivered)
      <4>1. i \in DOMAIN delivered /\ i \in FromPosts /\ delivered'[i] = delivered[i]
        BY <2>4, <3>1 DEF FromPosts
      <4>2. CASE i = 1
        BY <4>1, <4>2 DEF InOrder
      <4>3. CASE i # 1
        <5>1. delivered'[i - 1] = delivered[i - 1]
          BY <2>4, <3>1, <4>3
        <5> QED
          BY <4>1, <4>3, <5>1 DEF InOrder
      <4> QED
        BY <4>2, <4>3
    <3>2. CASE i = Len(delivered) + 1
      <4>1. delivered'[i].from = r /\ delivered'[i].unit = offset[r] + 1
        BY <1>4, <1>8, <2>4, <2>8, <3>2
      <4>2. CASE delivered = <<>>
        BY <2>3, <2>5, <2>7, <3>2, <4>1, <4>2
      <4>3. CASE delivered # <<>>
        <5>1. i # 1 /\ delivered'[i - 1] = Last
          BY <2>4, <2>5, <3>2, <4>3 DEF Last
        <5>2. Follows(Last, delivered'[i])
          BY <2>7, <4>1, <4>3 DEF Follows
        <5> QED
          BY <5>1, <5>2
      <4> QED
        BY <4>2, <4>3
    <3>3. CASE i > Len(delivered) + 1
      <4>1. PICK j \in 1..n : j > 1 /\ i = Len(delivered) + j /\ j - 1 \in 1..n
                              /\ i - 1 = Len(delivered) + (j - 1) /\ i # 1
        <5>1. i - Len(delivered) \in 1..n /\ i - Len(delivered) > 1
          BY <1>4, <2>4, <3>3
        <5> QED
          BY <1>4, <2>4, <5>1
      <4>2. delivered'[i] = u[j] /\ delivered'[i - 1] = u[j - 1]
        BY <2>4, <4>1
      <4>3. /\ delivered'[i].from = r /\ delivered'[i - 1].from = r
            /\ delivered'[i].unit = offset[r] + j /\ delivered'[i - 1].unit = offset[r] + (j - 1)
        BY <1>8, <4>1, <4>2
      <4>4. offset[r] + j = (offset[r] + (j - 1)) + 1
        BY <1>2, <1>4
      <4>5. delivered'[i].unit = delivered'[i - 1].unit + 1
        BY <4>3, <4>4, Zenon
      <4>6. Follows(delivered'[i - 1], delivered'[i])
        BY <4>3, <4>5, Zenon DEF Follows
      <4> QED
        BY <4>1, <4>6, Zenon
    <3> QED
      BY <2>4, <3>1, <3>2, <3>3
  <2>10. Position'
    <3>1. Last' = u[n] /\ delivered' # <<>>
      BY <1>4, <2>4, <2>8, EmptySeq DEF Last
    <3>2. Last'.from = r /\ Last'.unit = offset[r] + n
      BY <1>4, <1>8, <2>8, <3>1
    <3>3. offset'[r] = offset[r] + n /\ \A q \in Posts : q # r => offset'[q] = offset[q]
      BY <1>2, <1>3, <2>2
    <3>4. IF offset[r] + n = LenOf[r] THEN nextSeq' = nextSeq + 1 ELSE nextSeq' = nextSeq
      BY <1>2, <1>3, <1>4, <2>2, <2>3, <2>8, <1>10
    <3>5. ASSUME NEW q \in Posts, q # r, nextSeq' <= SeqOf[q]
          PROVE  offset'[q] = 0
      <4>1. nextSeq <= SeqOf[q] /\ (offset[r] + n = LenOf[r] => nextSeq < SeqOf[q])
        BY <2>2, <3>4, <3>5
      <4>2. CASE delivered = <<>>
        BY <2>1, <3>3, <3>5, <4>2 DEF Position
      <4>3. CASE delivered # <<>>
        <5>1. q # Last.from
          BY <2>2, <2>6, <2>7, <3>5, <4>1, <4>3
        <5> QED
          BY <2>6, <3>3, <3>5, <4>1, <4>3, <5>1
      <4> QED
        BY <4>2, <4>3
    <3> QED
      BY <1>10, <2>2, <2>3, <2>8, <3>1, <3>2, <3>3, <3>4, <3>5 DEF Position
  <2> QED
    BY <2>9, <2>10
<1> QED
  BY <1>2, <1>9, <1>10 DEF Requests

(* Nothing of a post is read after the stream, so the order stays.           *)
LEMMA ReadBodyInOrder ==
  ASSUME QueueInv, OrderInv, ReadBody
  PROVE  OrderInv'
<1> USE DEF QueueInv, OrderInv
<1>1. reader # None /\ reader \in Streams /\ reader \in Requests
  BY DEF ReadBody, TakeOver, TypeOK, Requests
<1>2. offset' \in [Requests -> Nat]
  BY <1>1 DEF ReadBody, TypeOK
<1> DEFINE e == [from |-> reader, unit |-> offset'[reader]]
<1>3. e \in Units /\ delivered' = Append(delivered, e) /\ delivered \in Seq(Units)
  BY <1>1, <1>2 DEF ReadBody, TypeOK, Units
<1>4. e.from \notin Posts
  BY <1>1, RequestsAssumption
<1> HIDE DEF e
<1>5. /\ delivered' \in Seq(Units)
      /\ \A i \in DOMAIN delivered' : \/ i \in DOMAIN delivered /\ delivered'[i] = delivered[i]
                                      \/ i = Len(delivered) + 1 /\ delivered'[i] = e
      /\ \A i \in DOMAIN delivered : delivered'[i] = delivered[i]
      /\ DOMAIN delivered = 1..Len(delivered) /\ Len(delivered) \in Nat
  BY <1>3, Appended, LenProperties
<1>6. HeapStreams' /\ Turned'
  BY <1>1 DEF ReadBody, HeapStreams, Turned
<1>7. InOrder'
  <2> SUFFICES ASSUME RepeatsAreShort, NEW i \in DOMAIN delivered', delivered'[i].from \in Posts
               PROVE  IF i = 1 THEN SeqOf[delivered'[1].from] = 0 /\ delivered'[1].unit = 1
                      ELSE Follows(delivered'[i - 1], delivered'[i])
    BY DEF InOrder, FromPosts, Follows
  <2>1. i \in DOMAIN delivered /\ delivered'[i] = delivered[i] /\ i \in FromPosts
    BY <1>4, <1>5 DEF FromPosts
  <2>2. CASE i = 1
    BY <2>1, <2>2 DEF InOrder
  <2>3. CASE i # 1
    <3>1. i - 1 \in DOMAIN delivered
      BY <1>5, <2>1, <2>3
    <3>2. delivered'[i - 1] = delivered[i - 1]
      BY <1>5, <3>1
    <3> QED
      BY <2>1, <2>3, <3>2 DEF InOrder
  <2> QED
    BY <2>2, <2>3
<1> QED
  BY <1>6, <1>7

LEMMA OrderStep == ASSUME QueueInv, OrderInv, [Next]_vars PROVE OrderInv'
<1> USE DEF QueueInv
<1>0. HeapStreams /\ reader \in Streams \cup {None} /\ channel \in Seq(Requests)
  BY DEF OrderInv, TypeOK
<1>1. CASE UNCHANGED vars
  BY <1>0, <1>1, OrderStays DEF vars, HeapStreams, Turned
<1>2. CASE \E r \in Requests : Push(r) \/ StreamEnds(r)
  <2>1. PICK r \in Requests : Push(r) \/ StreamEnds(r)
    BY <1>2
  <2>2. UNCHANGED <<heap, offset, nextSeq, read, delivered>>
    BY <2>1 DEF Push, PushStarts, PushSends, PushSeesClosed, PushReturns, StreamEnds
  <2>3. reader # None => reader' # None
    BY <2>1 DEF Push, PushStarts, PushSends, PushSeesClosed, PushReturns, StreamEnds
  <2> QED
    BY <1>0, <2>2, <2>3, OrderStays DEF HeapStreams, Turned
<1>3. CASE CloseMarks \/ CloseHangsUp
  BY <1>0, <1>3, OrderStays DEF CloseMarks, CloseHangsUp, HeapStreams, Turned
<1>4. CASE ReadStarts \/ ReadChecks \/ ReadSeesClosed \/ ReadBodyEnds
  <2>1. UNCHANGED <<reader, heap, offset, nextSeq, delivered>>
    BY <1>4 DEF ReadStarts, ReadChecks, ReadSeesClosed, ReadBodyEnds
  <2>2. Turned => Turned'
    BY <1>4 DEF ReadStarts, ReadChecks, ReadSeesClosed, ReadBodyEnds, Turned
  <2> QED
    BY <1>0, <2>1, <2>2, OrderStays DEF HeapStreams
<1>5. CASE ReadReceives
  <2>1. Head(channel) = channel[1] /\ 1 \in DOMAIN channel
    BY <1>0, <1>5, FirstTaken DEF ReadReceives
  <2>2. Head(channel) \in Streams => reader # None
    BY <2>1 DEF TakeOver
  <2>3. HeapStreams'
    BY <1>0, <1>5, <2>2 DEF ReadReceives, HeapStreams
  <2> QED
    BY <1>5, <2>3, OrderStays DEF ReadReceives, Turned
<1>6. CASE Deliver
  BY <1>6, DeliverInOrder
<1>7. CASE DropStale \/ MeetGap
  <2>1. heap' \subseteq heap /\ UNCHANGED <<reader, offset, nextSeq, delivered>> /\ read = "pop"
    BY <1>7 DEF DropStale, MeetGap
  <2> QED
    BY <1>0, <2>1, OrderStays DEF HeapStreams, Turned
<1>8. CASE ReadBody
  BY <1>8, ReadBodyInOrder
<1> QED
  BY <1>1, <1>2, <1>3, <1>4, <1>5, <1>6, <1>7, <1>8 DEF Next, Read

(* The proxy reads the payloads in the order of their numbers, every unit     *)
(* once, whatever the order of the posts and the sizes of the reads, when     *)
(* repeated posts fit into one read (Read, the heap and nextSeq).             *)
THEOREM InOrderHolds == Spec => []InOrder
<1>1. Init => QueueInv /\ OrderInv
  BY QueueInit, OrderInit
<1>2. QueueInv /\ OrderInv /\ [Next]_vars => (QueueInv /\ OrderInv)'
  BY QueueStep, OrderStep
<1>3. OrderInv => InOrder
  BY DEF OrderInv
<1> QED
  BY <1>1, <1>2, <1>3, PTL DEF Spec
-----------------------------------------------------------------------------
(* The queue implements OrderedStream.                                     *)

(* Whatever waits or is read from was handed over by a handler, nothing is *)
(* read past its end, and of the bodies only that of `reader' has been begun: *)
(* as far as the last unit read says.                                         *)
Known ==
  /\ \A r \in heap : handler[r] # "idle"
  /\ \A i \in DOMAIN channel : handler[channel[i]] # "idle"
  /\ reader # None => handler[reader] # "idle"

BodyLeft ==
  /\ \A r \in Requests : offset[r] <= LenOf[r]
  /\ \A s \in Streams : s # reader => offset[s] = 0
  /\ reader # None =>
       offset[reader] = IF delivered # <<>> /\ Last.from = reader THEN Last.unit ELSE 0

StreamInv == Known /\ BodyLeft

LEMMA StreamInit == Init => StreamInv
<1> SUFFICES ASSUME Init PROVE StreamInv
  OBVIOUS
<1>1. Known
  BY DEF Init, Known
<1>2. \A r \in Requests : offset[r] = 0 /\ LenOf[r] \in Nat
  BY PacketAssumption DEF Init
<1>3. BodyLeft
  BY <1>2 DEF Init, BodyLeft, Requests
<1> QED
  BY <1>1, <1>3 DEF StreamInv

(* Handlers only ever move on from "idle".                                   *)
LEMMA StaysKnown ==
  ASSUME Known, \A r \in Requests : handler[r] # "idle" => handler'[r] # "idle",
         heap' \subseteq heap, heap \subseteq Requests, UNCHANGED reader,
         reader \in Requests \cup {None}, None \notin Requests,
         channel \in Seq(Requests), UNCHANGED channel
  PROVE  Known'
<1>1. \A i \in DOMAIN channel : channel[i] \in Requests
  OBVIOUS
<1> QED
  BY <1>1 DEF Known

LEMMA PushKnown == ASSUME QueueInv, StreamInv, NEW r \in Requests, Push(r) \/ StreamEnds(r)
                   PROVE  StreamInv'
<1>0. /\ TypeOK /\ Known /\ BodyLeft /\ None \notin Requests /\ Streams \subseteq Requests
      /\ handler \in [Requests -> {"idle", "select", "sent", "ok", "refused", "ended"}]
      /\ reader \in Requests \cup {None} /\ reader \in Streams \cup {None}
      /\ heap \subseteq Requests /\ channel \in Seq(Requests)
  BY RequestsAssumption DEF QueueInv, StreamInv, TypeOK, Requests
<1>1. UNCHANGED <<heap, offset, delivered>>
  BY DEF Push, PushStarts, PushSends, PushSeesClosed, PushReturns, StreamEnds
<1>2. \A q \in Requests : handler[q] # "idle" => handler'[q] # "idle"
  BY <1>0 DEF Push, PushStarts, PushSends, PushSeesClosed, PushReturns, StreamEnds
<1>3. CASE reader' = reader
  <2>1. BodyLeft'
    BY <1>0, <1>1, <1>3 DEF BodyLeft, Last
  <2>2. CASE UNCHANGED channel
    BY <1>0, <1>1, <1>2, <1>3, <2>1, <2>2, StaysKnown DEF StreamInv
  <2>3. CASE PushSends(r)
    <3>1. channel' = Append(channel, r) /\ handler'[r] = "sent"
      BY <1>0, <2>3 DEF PushSends
    <3>2. \A i \in DOMAIN channel' : \/ i \in DOMAIN channel /\ channel'[i] = channel[i]
                                     \/ channel'[i] = r
      BY <1>0, <3>1, Appended
    <3>3. \A i \in DOMAIN channel : channel[i] \in Requests
      BY <1>0
    <3>4. Known'
      BY <1>0, <1>1, <1>2, <1>3, <3>1, <3>2, <3>3 DEF Known
    <3> QED
      BY <2>1, <3>4 DEF StreamInv
  <2> QED
    BY <2>2, <2>3 DEF Push, PushStarts, PushSeesClosed, PushReturns, StreamEnds
<1>4. CASE reader' # reader
  <2>1. /\ reader = None /\ reader' = r /\ r \in Streams /\ UNCHANGED channel
        /\ handler' = [handler EXCEPT ![r] = "select"]
    BY <1>4 DEF Push, PushStarts, PushSends, PushSeesClosed, PushReturns, StreamEnds
  <2>2. offset[r] = 0 /\ \A i \in DOMAIN delivered : delivered[i].from \notin Streams
    <3>1. \A i \in DOMAIN delivered : delivered[i].from \in Streams => delivered[i].from = None
      BY <2>1 DEF QueueInv, TakeOver
    <3> QED
      BY <1>0, <2>1, <3>1 DEF BodyLeft
  <2>3. delivered # <<>> => Last.from # r
    <3>1. delivered # <<>> => Len(delivered) \in DOMAIN delivered
      BY <1>0, EmptySeq, LenProperties DEF TypeOK
    <3> QED
      BY <2>1, <2>2, <3>1 DEF Last
  <2>4. BodyLeft'
    BY <1>0, <1>1, <2>1, <2>2, <2>3 DEF BodyLeft, Last
  <2>5. Known'
    <3>1. \A i \in DOMAIN channel : channel[i] \in Requests
      BY <1>0
    <3> QED
      BY <1>0, <1>1, <1>2, <2>1, <3>1 DEF Known
  <2> QED
    BY <2>4, <2>5 DEF StreamInv
<1> QED
  BY <1>3, <1>4

(* A read moves the offset of one request, and the last unit with it.        *)
LEMMA DeliverKnown == ASSUME QueueInv, StreamInv, Deliver PROVE StreamInv'
<1>0. /\ TypeOK /\ Known /\ BodyLeft /\ None \notin Requests /\ Posts \cap Streams = {}
      /\ heap \subseteq Requests /\ reader \in Streams \cup {None} /\ channel \in Seq(Requests)
      /\ offset \in [Requests -> Nat] /\ LenOf \in [Requests -> Nat \ {0}]
      /\ delivered \in Seq(Units) /\ Requests = Posts \cup Streams
  BY RequestsAssumption, PacketAssumption DEF QueueInv, StreamInv, TypeOK, Requests, Units
<1>1. PICK r \in Least : \E n \in 0..Left(r) :
         /\ offset' = [offset EXCEPT ![r] = @ + n]
         /\ delivered' = delivered \o [i \in 1..n |-> [from |-> r, unit |-> offset[r] + i]]
         /\ heap' \subseteq heap
  BY DEF Deliver
<1>2. r \in heap /\ r \in Requests
  BY <1>0 DEF Least
<1>3. /\ Left(r) \in Int /\ (r \in Streams => Left(r) = 0)
      /\ r \in Posts => Left(r) = LenOf[r] - offset[r]
  BY <1>0, <1>2 DEF Left
<1>4. PICK n \in 0..Left(r) :
         /\ offset' = [offset EXCEPT ![r] = @ + n]
         /\ delivered' = delivered \o [i \in 1..n |-> [from |-> r, unit |-> offset[r] + i]]
         /\ heap' \subseteq heap
  BY <1>1
<1>5. n \in Nat /\ read = "pop" /\ UNCHANGED <<reader, channel, handler>>
  BY <1>3 DEF Deliver
<1>6. Known'
  BY <1>0, <1>4, <1>5, StaysKnown DEF Requests
<1>7. \A q \in Requests : offset'[q] = IF q = r THEN offset[q] + n ELSE offset[q]
  BY <1>0, <1>2, <1>4
<1>8. offset[r] + n <= LenOf[r]
  BY <1>0, <1>2, <1>3, <1>5 DEF BodyLeft
<1>9. ASSUME NEW s \in Streams PROVE offset'[s] = offset[s]
  BY <1>0, <1>2, <1>3, <1>5, <1>7
<1>10. ASSUME reader # None, delivered' # <<>> PROVE Last'.from # reader /\ offset[reader] = 0
  <2>1. reader \in Streams
    BY <1>0, <1>10
  <2>2. \A i \in DOMAIN delivered : delivered[i].from \notin Streams
    BY <1>5 DEF QueueInv, TakeOver
  <2>3. DOMAIN delivered = 1..Len(delivered) /\ Len(delivered) \in Nat
    BY <1>0, LenProperties
  <2>4. offset[reader] = 0
    <3>1. delivered # <<>> => Len(delivered) \in DOMAIN delivered
      BY <1>0, <2>3, EmptySeq
    <3>2. delivered # <<>> => Last.from # reader
      BY <2>1, <2>2, <3>1 DEF Last
    <3>3. offset[reader] = IF delivered # <<>> /\ Last.from = reader THEN Last.unit ELSE 0
      BY <1>0, <1>10 DEF BodyLeft
    <3> QED
      BY <3>2, <3>3
  <2> DEFINE u == [i \in 1..n |-> [from |-> r, unit |-> offset[r] + i]]
  <2>5. u \in [1..n -> Units] /\ \A i \in 1..n : u[i].from = r
    BY <1>0, <1>2, <1>5 DEF Units
  <2> HIDE DEF u
  <2>6. \A i \in DOMAIN delivered' : \/ i \in DOMAIN delivered /\ delivered'[i] = delivered[i]
                                     \/ n > 0 /\ delivered'[i].from = r
    BY <1>0, <1>4, <1>5, <2>5, Reading DEF u
  <2>7. delivered' \in Seq(Units)
    BY <1>0, <1>4, <1>5, <2>5, Reading DEF u
  <2>8. Len(delivered') \in DOMAIN delivered'
    BY <1>10, <2>7, EmptySeq, LenProperties
  <2>9. n > 0 => r \notin Streams
    BY <1>3
  <2> QED
    BY <2>1, <2>2, <2>4, <2>6, <2>8, <2>9 DEF Last
<1>11. BodyLeft'
  <2>1. \A q \in Requests : offset'[q] <= LenOf[q]
    BY <1>0, <1>7, <1>8 DEF BodyLeft
  <2>2. \A s \in Streams : s # reader => offset'[s] = 0
    BY <1>0, <1>9 DEF BodyLeft
  <2>3. ASSUME reader # None
        PROVE  offset'[reader] = IF delivered' # <<>> /\ Last'.from = reader THEN Last'.unit ELSE 0
    <3>1. offset'[reader] = offset[reader]
      BY <1>0, <1>9, <2>3
    <3>2. CASE delivered' # <<>>
      BY <1>10, <2>3, <3>1, <3>2
    <3>3. CASE delivered' = <<>>
      <4>1. delivered = <<>>
        <5>1. [i \in 1..n |-> [from |-> r, unit |-> offset[r] + i]] \in [1..n -> Units]
          BY <1>0, <1>2, <1>5 DEF Units
        <5>2. Len(delivered') = Len(delivered) + n /\ Len(delivered) \in Nat /\ delivered' \in Seq(Units)
          BY <1>0, <1>4, <1>5, <5>1, Appending
        <5>3. Len(delivered') = 0
          BY <3>3, <5>2, EmptySeq
        <5>4. Len(delivered) + n = 0
          BY <5>2, <5>3, Zenon
        <5>5. Len(delivered) = 0
          BY <1>5, <5>2, <5>4
        <5> QED
          BY <1>0, <5>5, EmptySeq
      <4> QED
        BY <1>0, <2>3, <3>1, <3>3, <4>1 DEF BodyLeft
    <3> QED
      BY <3>2, <3>3
  <2> QED
    BY <1>5, <2>1, <2>2, <2>3 DEF BodyLeft, Last
<1> QED
  BY <1>6, <1>11 DEF StreamInv

LEMMA ReadBodyKnown == ASSUME QueueInv, StreamInv, ReadBody PROVE StreamInv'
<1>0. /\ TypeOK /\ Known /\ BodyLeft /\ None \notin Requests /\ Streams \subseteq Requests
      /\ heap \subseteq Requests /\ channel \in Seq(Requests) /\ reader \in Streams
      /\ offset \in [Requests -> Nat] /\ LenOf \in [Requests -> Nat \ {0}]
      /\ delivered \in Seq(Units)
  BY RequestsAssumption, PacketAssumption
     DEF QueueInv, StreamInv, TypeOK, TakeOver, ReadBody, Requests, Units
<1>1. /\ offset' = [offset EXCEPT ![reader] = @ + 1] /\ offset[reader] < LenOf[reader]
      /\ delivered' = Append(delivered, [from |-> reader, unit |-> offset'[reader]])
      /\ UNCHANGED <<reader, channel, heap, handler>>
  BY DEF ReadBody
<1>2. Known'
  BY <1>0, <1>1, StaysKnown DEF Requests
<1>3. \A q \in Requests : offset'[q] = IF q = reader THEN offset[q] + 1 ELSE offset[q]
  BY <1>0, <1>1
<1>4. PICK e : e = [from |-> reader, unit |-> offset'[reader]]
  OBVIOUS
<1>5. e \in Units /\ e.from = reader /\ e.unit = offset'[reader]
  BY <1>0, <1>3, <1>4 DEF Units
<1>6. delivered' # <<>> /\ Last' = e
  <2>1. delivered' \in Seq(Units) /\ Len(delivered') = Len(delivered) + 1 /\ Len(delivered) \in Nat
    BY <1>0, <1>1, <1>4, <1>5, Appended
  <2>2. delivered'[Len(delivered) + 1] = e
    BY <1>0, <1>1, <1>4, <1>5, AppendProperties
  <2> QED
    BY <2>1, <2>2, EmptySeq DEF Last
<1>7. BodyLeft'
  <2>1. \A q \in Requests : offset'[q] <= LenOf[q]
    BY <1>0, <1>1, <1>3 DEF BodyLeft
  <2>2. \A s \in Streams : s # reader => offset'[s] = 0
    BY <1>0, <1>3 DEF BodyLeft
  <2> QED
    BY <1>1, <1>5, <1>6, <2>1, <2>2 DEF BodyLeft
<1> QED
  BY <1>2, <1>7 DEF StreamInv
LEMMA StreamStep == ASSUME QueueInv, StreamInv, [Next]_vars PROVE StreamInv'
<1>0. /\ Known /\ BodyLeft /\ None \notin Requests /\ heap \subseteq Requests
      /\ reader \in Requests \cup {None} /\ channel \in Seq(Requests)
  BY RequestsAssumption DEF QueueInv, StreamInv, TypeOK, Requests
<1>1. CASE UNCHANGED vars
  BY <1>0, <1>1 DEF vars, StreamInv, Known, BodyLeft, Last
<1>2. CASE \E r \in Requests : Push(r) \/ StreamEnds(r)
  BY <1>2, PushKnown
<1>3. CASE Deliver
  BY <1>3, DeliverKnown
<1>4. CASE ReadBody
  BY <1>4, ReadBodyKnown
<1>5. CASE ReadReceives
  <2>1. /\ channel # <<>> /\ channel' = Tail(channel) /\ heap' \subseteq heap \cup {Head(channel)}
        /\ UNCHANGED <<reader, offset, handler, delivered>>
    BY <1>5 DEF ReadReceives
  <2>2. /\ 1 \in DOMAIN channel /\ Head(channel) = channel[1]
        /\ \A i \in DOMAIN channel' : i + 1 \in DOMAIN channel /\ channel'[i] = channel[i + 1]
    BY <1>0, <2>1, FirstTaken
  <2>3. Known'
    BY <1>0, <2>1, <2>2 DEF Known
  <2>4. BodyLeft'
    BY <1>0, <2>1 DEF BodyLeft, Last
  <2> QED
    BY <2>3, <2>4 DEF StreamInv
<1>6. CASE \/ ReadStarts \/ ReadChecks \/ ReadSeesClosed \/ ReadBodyEnds
           \/ DropStale \/ MeetGap \/ CloseMarks \/ CloseHangsUp
  <2>1. heap' \subseteq heap /\ UNCHANGED <<reader, channel, offset, handler, delivered>>
    BY <1>6 DEF ReadStarts, ReadChecks, ReadSeesClosed, ReadBodyEnds, DropStale, MeetGap,
                CloseMarks, CloseHangsUp
  <2>2. Known'
    BY <1>0, <2>1, StaysKnown
  <2>3. BodyLeft'
    BY <1>0, <2>1 DEF BodyLeft, Last
  <2> QED
    BY <2>2, <2>3 DEF StreamInv
<1> QED
  BY <1>1, <1>2, <1>3, <1>4, <1>5, <1>6 DEF Next, Read

(* What the handlers know is what the callers are told. *)
Answers == [r \in Requests |-> Told(handler[r])]

LEMMA ToldAs ==
  ASSUME NEW r \in Requests, NEW h, handler \in [Requests -> {"idle", "select", "sent", "ok", "refused", "ended"}],
         handler' = [handler EXCEPT ![r] = h]
  PROVE  Answers' = [Answers EXCEPT ![r] = Told(h)]
<1>1. handler' \in [Requests -> {handler[q] : q \in Requests} \cup {h}]
  OBVIOUS
<1>2. \A q \in Requests : handler'[q] = IF q = r THEN h ELSE handler[q]
  OBVIOUS
<1> QED
  BY <1>2 DEF Answers

(* A handler's step takes, answers or turns away a request, or shows nothing. *)
LEMMA PushRefines ==
  ASSUME QueueInv, NEW r \in Requests, Push(r) \/ StreamEnds(r)
  PROVE  \/ Stream!Take(r) \/ Stream!Accept(r) \/ Stream!TurnAway(r)
         \/ UNCHANGED Stream!streamVars
<1>0. /\ handler \in [Requests -> {"idle", "select", "sent", "ok", "refused", "ended"}]
      /\ \A q \in Requests : Answers[q] = Told(handler[q])
      /\ Answers = [q \in Requests |-> Told(handler[q])]
      /\ Answers' = [q \in Requests |-> Told(handler'[q])]
  BY DEF QueueInv, TypeOK, Answers
<1>1. UNCHANGED <<delivered, read, close>> /\ (Closed' <=> Closed)
  BY DEF Push, PushStarts, PushSends, PushSeesClosed, PushReturns, StreamEnds, Closed
<1>2. CASE PushStarts(r) /\ reader = None
  <2>1. handler[r] = "idle" /\ handler' = [handler EXCEPT ![r] = "select"]
        /\ reader' = IF r \in Streams THEN r ELSE reader
    BY <1>2 DEF PushStarts
  <2>2. Answers[r] = "none" /\ Answers' = [Answers EXCEPT ![r] = "pending"]
    BY <1>0, <2>1, ToldAs DEF Told
  <2>3. Stream!Told(r, "none", "pending")
    BY <1>0, <2>2 DEF Stream!Told
  <2> QED
    BY <1>1, <1>2, <2>1, <2>3 DEF Stream!Take
<1>3. CASE PushStarts(r) /\ reader # None
  <2>1. handler[r] = "idle" /\ handler' = [handler EXCEPT ![r] = "refused"] /\ UNCHANGED reader
    BY <1>3 DEF PushStarts
  <2>2. Answers[r] = "none" /\ Answers' = [Answers EXCEPT ![r] = "refused"]
    BY <1>0, <2>1, ToldAs DEF Told
  <2>3. Stream!Told(r, "none", "refused")
    BY <1>0, <2>2 DEF Stream!Told
  <2> QED
    BY <1>1, <1>3, <2>1, <2>3 DEF Stream!TurnAway
<1>4. CASE PushSends(r)
  <2>1. handler[r] = "select" /\ handler' = [handler EXCEPT ![r] = "sent"] /\ UNCHANGED reader
    BY <1>4 DEF PushSends
  <2>2. Answers[r] = "pending" /\ Answers' = [Answers EXCEPT ![r] = "pending"]
    BY <1>0, <2>1, ToldAs DEF Told
  <2>3. Answers' = Answers
    BY <2>2 DEF Answers
  <2> QED
    BY <1>0, <1>1, <2>1, <2>3 DEF Stream!streamVars
<1>5. CASE PushSeesClosed(r)
  <2>1. handler[r] = "select" /\ Closed /\ handler' = [handler EXCEPT ![r] = "refused"] /\ UNCHANGED reader
    BY <1>5 DEF PushSeesClosed
  <2>2. Answers[r] = "pending" /\ Answers' = [Answers EXCEPT ![r] = "refused"]
    BY <1>0, <2>1, ToldAs DEF Told
  <2>3. Stream!Told(r, "pending", "refused")
    BY <1>0, <2>2 DEF Stream!Told
  <2> QED
    BY <1>1, <2>1, <2>3 DEF Stream!TurnAway
<1>6. CASE PushReturns(r)
  <2>1. /\ handler[r] = "sent" /\ UNCHANGED reader
        /\ handler' = [handler EXCEPT ![r] = IF Closed THEN "refused" ELSE "ok"]
    BY <1>6 DEF PushReturns
  <2>2. CASE Closed
    <3>1. Answers[r] = "pending" /\ Answers' = [Answers EXCEPT ![r] = "refused"]
      BY <1>0, <2>1, <2>2, ToldAs DEF Told
    <3>2. Stream!Told(r, "pending", "refused")
      BY <1>0, <3>1 DEF Stream!Told
    <3> QED
      BY <1>1, <2>1, <2>2, <3>2 DEF Stream!TurnAway
  <2>3. CASE ~Closed
    <3>1. Answers[r] = "pending" /\ Answers' = [Answers EXCEPT ![r] = "ok"]
      BY <1>0, <2>1, <2>3, ToldAs DEF Told
    <3>2. Stream!Told(r, "pending", "ok")
      BY <1>0, <3>1 DEF Stream!Told
    <3> QED
      BY <1>1, <2>1, <2>3, <3>2 DEF Stream!Accept
  <2> QED
    BY <2>2, <2>3
<1>7. CASE StreamEnds(r)
  <2>1. handler[r] = "ok" /\ handler' = [handler EXCEPT ![r] = "ended"] /\ UNCHANGED reader
    BY <1>7 DEF StreamEnds
  <2>2. Answers[r] = "ok" /\ Answers' = [Answers EXCEPT ![r] = "ok"]
    BY <1>0, <2>1, ToldAs DEF Told
  <2>3. Answers' = Answers
    BY <2>2 DEF Answers
  <2> QED
    BY <1>0, <1>1, <2>1, <2>3 DEF Stream!streamVars
<1> QED
  BY <1>2, <1>3, <1>4, <1>5, <1>6, <1>7 DEF Push
(* A unit of a post goes on where the last one ended, if InOrder says so and *)
(* the last one was no stream's.                                             *)
LEMMA PostGoesOn ==
  ASSUME InOrder', NEW i \in DOMAIN delivered', delivered'[i].from \in Posts, i # 1,
         delivered'[i - 1].from \in Posts
  PROVE  Stream!GoesOn(delivered'[i - 1], delivered'[i])
<1>1. RepeatsAreShort => Follows(delivered'[i - 1], delivered'[i])
  BY DEF InOrder, FromPosts, Follows
<1> QED
  BY <1>1 DEF Follows, Stream!GoesOn

LEMMA DeliverRefines ==
  ASSUME QueueInv, StreamInv, OrderInv', Deliver
  PROVE  Stream!Read
<1>0. /\ TypeOK /\ Known /\ BodyLeft /\ InOrder' /\ Posts \cap Streams = {}
      /\ heap \subseteq Requests /\ reader \in Streams \cup {None}
      /\ offset \in [Requests -> Nat] /\ LenOf \in [Requests -> Nat \ {0}]
      /\ delivered \in Seq(Units) /\ Requests = Posts \cup Streams
  BY RequestsAssumption, PacketAssumption
     DEF QueueInv, StreamInv, OrderInv, TypeOK, Requests, Units
<1>1. PICK r \in Least : \E n \in 0..Left(r) :
         delivered' = delivered \o [i \in 1..n |-> [from |-> r, unit |-> offset[r] + i]]
  BY DEF Deliver
<1>2. r \in heap /\ r \in Requests /\ handler[r] # "idle"
  BY <1>0 DEF Least, Known
<1>3. /\ Left(r) \in Int /\ (r \in Streams => Left(r) = 0)
      /\ r \in Posts => Left(r) = LenOf[r] - offset[r]
  BY <1>0, <1>2 DEF Left
<1>4. PICK n \in 0..Left(r) :
         delivered' = delivered \o [i \in 1..n |-> [from |-> r, unit |-> offset[r] + i]]
  BY <1>1
<1>5. /\ n \in Nat /\ (n > 0 => r \in Posts)
      /\ read = "pop" /\ read' = "out" /\ UNCHANGED <<reader, handler, close>>
  BY <1>0, <1>2, <1>3 DEF Deliver
<1> DEFINE u == [i \in 1..n |-> [from |-> r, unit |-> offset[r] + i]]
<1>6. u \in [1..n -> Units] /\ \A i \in 1..n : u[i].from = r /\ u[i].unit = offset[r] + i
  BY <1>0, <1>2, <1>5 DEF Units
<1>7. delivered' = delivered \o u
  BY <1>4
<1> HIDE DEF u
<1>8. /\ Len(delivered) \in Nat /\ Len(delivered') = Len(delivered) + n
      /\ DOMAIN delivered = 1..Len(delivered) /\ DOMAIN delivered' = 1..(Len(delivered) + n)
      /\ \A i \in 1..Len(delivered) : delivered'[i] = delivered[i]
      /\ \A i \in 1..n : delivered'[Len(delivered) + i] = u[i]
  BY <1>0, <1>5, <1>6, <1>7, Appending
<1>9. \A i \in 1..Len(delivered) : delivered[i].from \in Posts
  <2>1. \A i \in DOMAIN delivered : delivered[i] \in Units
    BY <1>0, ElementOfSeq, <1>8
  <2> QED
    BY <1>0, <1>5, <1>8, <2>1 DEF QueueInv, TakeOver, Units
<1>10. ASSUME NEW i \in Len(delivered) + 1..Len(delivered')
       PROVE  Stream!MayRead(delivered', i)
  <2>1. PICK j \in 1..n : i = Len(delivered) + j
    <3>1. i - Len(delivered) \in 1..n /\ i = Len(delivered) + (i - Len(delivered))
      BY <1>5, <1>8, <1>10
    <3> QED
      BY <3>1
  <2>2. delivered'[i].from = r /\ delivered'[i].unit = offset[r] + j
    BY <1>6, <1>8, <2>1
  <2>3. r \in Posts /\ offset[r] + j \in 1..LenOf[r] /\ n > 0
    BY <1>0, <1>2, <1>3, <1>5, <2>1
  <2>4. i \in DOMAIN delivered' /\ i \in Nat /\ i >= 1
    BY <1>5, <1>8, <1>10
  <2>5. Answers[r] # "none"
    BY <1>0, <1>2 DEF Answers, Told, TypeOK
  <2>6. CASE i = 1
    <3>1. RepeatsAreShort => SeqOf[r] = 0 /\ delivered'[1].unit = 1
      BY <1>0, <2>2, <2>3, <2>4, <2>6 DEF InOrder, FromPosts
    <3>2. Stream!Begins(delivered'[1])
      BY <1>0, <2>2, <2>3, <2>6, <3>1 DEF Stream!Begins
    <3> QED
      BY <2>2, <2>3, <2>5, <2>6, <3>2 DEF Stream!MayRead, Answers
  <2>7. CASE i # 1
    <3>1. delivered'[i - 1].from \in Posts
      <4>1. CASE j = 1
        <5>1. i - 1 \in 1..Len(delivered)
          BY <1>8, <2>1, <2>7, <4>1
        <5> QED
          BY <1>8, <1>9, <5>1
      <4>2. CASE j # 1
        <5>1. j - 1 \in 1..n /\ i - 1 = Len(delivered) + (j - 1)
          BY <1>5, <1>8, <2>1, <4>2
        <5> QED
          BY <1>6, <1>8, <2>3, <5>1
      <4> QED
        BY <4>1, <4>2
    <3>2. Stream!GoesOn(delivered'[i - 1], delivered'[i])
      BY <1>0, <2>2, <2>3, <2>4, <2>7, <3>1, PostGoesOn
    <3> QED
      BY <2>2, <2>3, <2>5, <2>7, <3>2 DEF Stream!MayRead, Answers
  <2> QED
    BY <2>6, <2>7
<1>11. Len(delivered) <= Len(delivered')
  BY <1>5, <1>8
<1> QED
  BY <1>5, <1>8, <1>10, <1>11 DEF Stream!Read, Closed

LEMMA ReadBodyRefines == ASSUME QueueInv, StreamInv, ReadBody PROVE Stream!Read
<1>0. /\ TypeOK /\ Known /\ BodyLeft /\ Posts \cap Streams = {} /\ None \notin Requests
      /\ reader \in Streams /\ Requests = Posts \cup Streams
      /\ offset \in [Requests -> Nat] /\ LenOf \in [Requests -> Nat \ {0}]
      /\ delivered \in Seq(Units) /\ read = "stream"
  BY RequestsAssumption, PacketAssumption
     DEF QueueInv, StreamInv, TypeOK, TakeOver, ReadBody, Requests, Units
<1>1. /\ offset' = [offset EXCEPT ![reader] = @ + 1] /\ offset[reader] < LenOf[reader]
      /\ delivered' = Append(delivered, [from |-> reader, unit |-> offset'[reader]])
      /\ read' = "out" /\ UNCHANGED <<reader, handler, close>>
  BY <1>0 DEF ReadBody
<1>2. PICK e \in Units : e.from = reader /\ e.unit = offset[reader] + 1 /\ delivered' = Append(delivered, e)
  BY <1>0, <1>1 DEF Units
<1>3. /\ Len(delivered) \in Nat /\ Len(delivered') = Len(delivered) + 1
      /\ DOMAIN delivered = 1..Len(delivered)
      /\ \A i \in 1..Len(delivered) : delivered'[i] = delivered[i]
      /\ delivered'[Len(delivered) + 1] = e
  BY <1>0, <1>2, AppendProperties, LenProperties
<1>4. offset[reader] + 1 \in 1..LenOf[reader] /\ Answers[reader] # "none"
  BY <1>0, <1>1 DEF Known, Answers, Told, TypeOK
<1>5. CASE Len(delivered) = 0
  <2>1. delivered = <<>>
    BY <1>0, <1>5, EmptySeq
  <2>2. offset[reader] = 0
    BY <1>0, <2>1 DEF BodyLeft
  <2>3. Stream!Begins(e)
    BY <1>0, <1>2, <2>2 DEF Stream!Begins
  <2>4. Stream!MayRead(delivered', 1)
    BY <1>2, <1>3, <1>4, <1>5, <2>3 DEF Stream!MayRead, Answers
  <2>5. \A i \in Len(delivered) + 1..Len(delivered') : i = 1
    BY <1>3, <1>5
  <2> QED
    BY <1>0, <1>1, <1>3, <2>4, <2>5 DEF Stream!Read, Closed
<1>6. CASE Len(delivered) # 0
  <2> DEFINE k == Len(delivered)
  <2>1. delivered # <<>> /\ k \in DOMAIN delivered /\ delivered[k] \in Units /\ Last = delivered[k]
    BY <1>0, <1>3, <1>6, EmptySeq, ElementOfSeq DEF Last
  <2>2. offset[reader] = IF Last.from = reader THEN Last.unit ELSE 0
    BY <1>0, <2>1 DEF BodyLeft
  <2>3. Last.from \in Streams => Last.from = reader
    BY <2>1 DEF QueueInv, TakeOver
  <2>4. Last.from \in Requests /\ Last.unit \in Nat
    BY <2>1 DEF Units
  <2>5. Stream!GoesOn(delivered[k], e)
    BY <1>0, <1>2, <2>1, <2>2, <2>3, <2>4 DEF Stream!GoesOn
  <2>6. PICK m \in Nat : m = k + 1 /\ m - 1 = k /\ m # 1
    BY <1>3, <1>6
  <2>7. delivered'[m] = e /\ delivered'[m - 1] = delivered[k]
    BY <1>3, <2>1, <2>6
  <2>8. delivered'[m].from = reader /\ delivered'[m].unit \in 1..LenOf[reader]
        /\ Stream!GoesOn(delivered'[m - 1], delivered'[m])
    BY <1>2, <1>4, <2>5, <2>7
  <2>9. Stream!MayRead(delivered', m)
    BY <1>1, <1>4, <2>6, <2>8 DEF Stream!MayRead, Answers
  <2>10. \A i \in Len(delivered) + 1..Len(delivered') : i = m
    BY <1>3, <2>6
  <2> QED
    BY <1>0, <1>1, <1>3, <2>9, <2>10 DEF Stream!Read, Closed
<1> QED
  BY <1>5, <1>6
LEMMA InitRefines == Init => Stream!Init
<1> SUFFICES ASSUME Init PROVE Stream!Init
  OBVIOUS
<1>1. [r \in Requests |-> Told(handler[r])] = [r \in Posts \cup Streams |-> "none"]
  BY DEF Init, Told, Requests
<1> QED
  BY <1>1 DEF Init, Stream!Init, Closed

LEMMA StepRefines ==
  ASSUME QueueInv, OrderInv, StreamInv, OrderInv', [Next]_vars
  PROVE  [Stream!Next]_Stream!streamVars
<1>1. CASE UNCHANGED vars
  BY <1>1 DEF vars, Stream!streamVars, Closed
<1>2. CASE \E r \in Requests : Push(r) \/ StreamEnds(r)
  <2>1. PICK r \in Requests : Push(r) \/ StreamEnds(r)
    BY <1>2
  <2>2. r \in Posts \cup Streams
    BY DEF Requests
  <2> QED
    BY <2>1, <2>2, PushRefines DEF Stream!Next
<1>3. CASE Deliver
  BY <1>3, DeliverRefines DEF Stream!Next
<1>4. CASE ReadBody
  BY <1>4, ReadBodyRefines DEF Stream!Next
<1>5. CASE CloseMarks
  <2>1. Stream!Close
    BY <1>5 DEF CloseMarks, Stream!Close, Closed
  <2> QED
    BY <2>1 DEF Stream!Next
<1>6. CASE CloseHangsUp
  BY <1>6 DEF CloseHangsUp, Closed, Stream!streamVars
<1>7. CASE ReadStarts \/ ReadChecks \/ ReadSeesClosed \/ ReadReceives \/ DropStale \/ MeetGap \/ ReadBodyEnds
  <2>1. UNCHANGED <<reader, handler, close, delivered>> /\ read # "end"
    BY <1>7 DEF ReadStarts, ReadChecks, ReadSeesClosed, ReadReceives, DropStale, MeetGap, ReadBodyEnds
  <2>2. CASE read' = "end"
    <3>1. Stream!End
      BY <2>1, <2>2 DEF Stream!End, Closed
    <3> QED
      BY <3>1 DEF Stream!Next
  <2>3. CASE read' # "end"
    BY <2>1, <2>3 DEF Stream!streamVars, Closed
  <2> QED
    BY <2>2, <2>3
<1> QED
  BY <1>1, <1>2, <1>3, <1>4, <1>5, <1>6, <1>7 DEF Next, Read

(* Whatever handlers, Close and Read interleave: the proxy reads one unbroken *)
(* stream of what was pushed, posts in the order of their numbers and then, if *)
(* one was attached, the body of one stream; nothing is taken back or read     *)
(* after the end, and no push fails without a stream or a close before it.     *)
THEOREM StreamImplemented == Spec => ImplementsStream
<1>1. Init => QueueInv /\ OrderInv /\ StreamInv
  BY QueueInit, OrderInit, StreamInit
<1>2. QueueInv /\ OrderInv /\ StreamInv /\ [Next]_vars => (QueueInv /\ OrderInv /\ StreamInv)'
  BY QueueStep, OrderStep, StreamStep
<1>3. QueueInv /\ OrderInv /\ StreamInv /\ OrderInv' /\ [Next]_vars => [Stream!Next]_Stream!streamVars
  BY StepRefines
<1> QED
  BY <1>1, <1>2, <1>3, InitRefines, PTL DEF Spec, ImplementsStream, Stream!Spec

=============================================================================
