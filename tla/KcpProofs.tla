------------------------------ MODULE KcpProofs ------------------------------
(***************************************************************************)
(* Proofs about Kcp, for any load, windows and network: no segment is lost, *)
(* none is resent for ever, and the end of file comes after the last one.   *)
(***************************************************************************)
EXTENDS Kcp, FiniteSetTheorems, WellFoundedInduction, TLAPS

(* Whether the data of an end is safe without its peer's help: the peer did *)
(* not close and the end did not give up waiting for acknowledgements.       *)
Sure(e) == Peer(e) \notin called /\ e \notin hurried

(* The end was closed and its peer has all it wrote: this stays so.          *)
Done(e) == e \in called /\ \A n \in 0 .. nxt[e] - 1 : Got(Peer(e), n)

AllDone == \A e \in Ends : Sure(e) => Done(e)

(* What a state, stored or about to be, says of the two ends.                *)
Ended == {"Terminating", "PeerTerminating", "Terminated"}
Earned(e, s) == /\ s = "ReadyToClose" => e \in called
                /\ s = "PeerClosed" => Peer(e) \in called
                /\ s \in Ended => AllDone

(* What a datagram says was so when it was sent and still is.                *)
Honest(m) ==
  LET e == Peer(m.to) IN
  /\ m.close => e \in called
  /\ m.kind = "data" => m.num < nxt[e] /\ m.una <= una[e]
  /\ m.kind = "ack" => m.rnext <= rnext[e] /\ \A n \in m.nums : Got(e, n)
  /\ m.kind \in {"ping", "terminate"} => m.rnext <= rnext[e] /\ m.una <= una[e]
  /\ m.kind = "terminate" => AllDone

(* The receiver is behind the sender, and acknowledges only what it got.     *)
Behind(e) == /\ una[e] <= nxt[e]
             /\ rnext[e] <= nxt[Peer(e)]
             /\ \A n \in rcv[e] : n < nxt[Peer(e)]
             /\ \A n \in acks[e] : Got(e, n)

Waiting(e) == \A m \in inbox[e] : /\ m.to = e /\ Honest(m)
                                  /\ plan[e]["input"] # None

Covered(e, window) == Sure(e) => \A n \in 0 .. nxt[e] - 1 : n \in window \/ Got(Peer(e), n)

KcpInv == /\ TypeOK
          /\ \A m \in net : Honest(m)
          /\ \A e \in Ends : /\ Behind(e) /\ Waiting(e) /\ Earned(e, st[e])
                             /\ \A a \in Actors : Earned(e, plan[e][a])
          /\ NothingLost /\ AckIsKept

-----------------------------------------------------------------------------
(* The two ends, the datagrams, and the first number of a window.            *)
LEMMA Peers == \A e \in Ends : /\ Peer(e) \in Ends /\ Peer(e) # e /\ Peer(Peer(e)) = e
                              /\ Ends = {e, Peer(e)}
BY DEF Ends, Peer

LEMMA DatagramTypes ==
  ASSUME NEW m \in Datagrams
  PROVE  /\ m.to \in Ends /\ m.close \in BOOLEAN
         /\ m.kind \in {"data", "ack", "ping", "terminate"}
         /\ m.kind = "data" => m.num \in Nat /\ m.una \in Nat
         /\ m.kind = "ack" => m.rnext \in Nat /\ m.nums \subseteq Nat
         /\ m.kind \in {"ping", "terminate"} => m.rnext \in Nat /\ m.una \in Nat
BY DEF Datagrams

LEMMA LeastNumber ==
  ASSUME NEW T \in SUBSET Nat, T # {}
  PROVE  \E n \in T : \A k \in T : n <= k
<1>1. PICK n \in T : \A k \in T : ~(<<k, n>> \in OpToRel(<, Nat))
  BY NatLessThanWellFounded, WFMin
<1>2. ASSUME NEW k \in T PROVE n <= k
  <2>1. k \in Nat /\ n \in Nat /\ <<k, n>> \in Nat \X Nat
    OBVIOUS
  <2>2. OpToRel(<, Nat) = {ss \in Nat \X Nat : ss[1] < ss[2]}
    BY DEF OpToRel
  <2>3. <<k, n>> \in {ss \in Nat \X Nat : ss[1] < ss[2]} <=> k < n
    BY <2>1
  <2>4. ~(k < n)
    BY <1>1, <2>2, <2>3
  <2> QED
    BY <2>1, <2>4
<1> QED
  BY <1>2

LEMMA FirstIsLeast ==
  ASSUME NEW window \in SUBSET Nat, NEW next \in Nat, NEW low \in Nat,
         low <= next, \A k \in window : low <= k /\ k < next
  PROVE  LET n == FirstOf(window, next) IN
         n \in Nat /\ low <= n /\ n <= next /\ \A k \in window : n <= k
<1>1. CASE window = {}
  BY <1>1 DEF FirstOf
<1>2. CASE window # {}
  <2>1. \E n \in window : \A k \in window : n <= k
    BY <1>2, LeastNumber
  <2> DEFINE f == CHOOSE n \in window : \A k \in window : n <= k
  <2>2. f \in window /\ \A k \in window : f <= k
    BY <2>1
  <2>3. FirstOf(window, next) = f
    BY <1>2 DEF FirstOf
  <2> HIDE DEF f
  <2> QED
    BY <2>2, <2>3
<1> QED
  BY <1>1, <1>2

(* A smaller window is within the limit too.                                 *)
LEMMA SmallerWindow ==
  ASSUME TypeOK, NEW e \in Ends, NEW window \in SUBSET snd[e]
  PROVE  Cardinality(window) <= SendWindow + 1
<1>1. IsFiniteSet(una[e] .. nxt[e] - 1)
  BY FS_Interval DEF TypeOK
<1>2. IsFiniteSet(snd[e]) /\ Cardinality(snd[e]) \in Nat
  BY <1>1, FS_Subset, FS_CardinalityType DEF TypeOK
<1>3. Cardinality(window) <= Cardinality(snd[e]) /\ Cardinality(window) \in Nat
  BY <1>2, FS_Subset, FS_CardinalityType
<1>4. Cardinality(snd[e]) <= SendWindow + 1 /\ SendWindow \in Nat
  BY KcpAssumption DEF TypeOK
<1> QED
  BY <1>2, <1>3, <1>4

-----------------------------------------------------------------------------
(* What every step keeps: numbers grow, what was got stays got, and a closed  *)
(* end writes nothing more.                                                   *)
Grows == /\ called \subseteq called' /\ hurried \subseteq hurried'
         /\ \A e \in Ends : /\ nxt[e] <= nxt'[e] /\ una[e] <= una'[e] /\ rnext[e] <= rnext'[e]
                            /\ e \in called => nxt'[e] = nxt[e]
                            /\ \A n \in Nat : Got(e, n) => Got(e, n)'

LEMMA DoneStays == ASSUME TypeOK, Grows, AllDone PROVE AllDone'
<1>1. \A e \in Ends : Sure(e)' => Sure(e)
  BY DEF Grows, Sure
<1>2. ASSUME NEW e \in Ends, Done(e) PROVE Done(e)'
  <2>1. e \in called' /\ nxt'[e] = nxt[e]
    BY <1>2 DEF Grows, Done
  <2>2. ASSUME NEW n \in 0 .. nxt'[e] - 1 PROVE Got(Peer(e), n)'
    <3>1. nxt[e] \in Nat
      BY DEF TypeOK
    <3>2. n \in Nat /\ Got(Peer(e), n)
      BY <1>2, <2>1, <2>2, <3>1 DEF Done
    <3> QED
      BY <3>2, Peers DEF Grows
  <2> QED
    BY <2>1, <2>2 DEF Done
<1> QED
  BY <1>1, <1>2 DEF AllDone

LEMMA EarnedStays ==
  ASSUME TypeOK, Grows, NEW e \in Ends, NEW s, Earned(e, s)
  PROVE  Earned(e, s)'
BY DoneStays DEF Earned, Grows

LEMMA HonestStays ==
  ASSUME TypeOK, TypeOK', Grows, NEW m \in Datagrams, Honest(m)
  PROVE  Honest(m)'
<1> DEFINE e == Peer(m.to)
<1>1. e \in Ends
  BY DatagramTypes, Peers
<1>2. {nxt[e], una[e], rnext[e], nxt'[e], una'[e], rnext'[e]} \subseteq Nat
  BY <1>1 DEF TypeOK
<1>3. /\ nxt[e] <= nxt'[e] /\ una[e] <= una'[e] /\ rnext[e] <= rnext'[e]
      /\ called \subseteq called' /\ \A n \in Nat : Got(e, n) => Got(e, n)'
  BY <1>1 DEF Grows
<1>4. /\ m.close => e \in called'
      /\ m.kind = "terminate" => AllDone'
  BY <1>3, DoneStays DEF Honest
<1>5. m.kind = "data" => m.num < nxt'[e] /\ m.una <= una'[e]
  BY <1>2, <1>3, DatagramTypes DEF Honest
<1>6. m.kind = "ack" => m.rnext <= rnext'[e] /\ \A n \in m.nums : Got(e, n)'
  BY <1>2, <1>3, DatagramTypes DEF Honest
<1>7. m.kind \in {"ping", "terminate"} => m.rnext <= rnext'[e] /\ m.una <= una'[e]
  BY <1>2, <1>3, DatagramTypes DEF Honest
<1> QED
  BY <1>4, <1>5, <1>6, <1>7 DEF Honest

-----------------------------------------------------------------------------
(* Handling a datagram: what becomes of the two windows of the receiver.     *)
Sends(e, window) ==
  /\ nxt' = nxt /\ snd' \in [Ends -> SUBSET Nat] /\ una' \in [Ends -> Nat]
  /\ \A x \in Ends \ {e} : snd'[x] = snd[x] /\ una'[x] = una[x]
  /\ una[e] <= una'[e] /\ una'[e] <= nxt[e] /\ \A n \in snd'[e] : una'[e] <= n
  /\ snd'[e] \subseteq window
  /\ \A n \in window : n \in snd'[e] \/ Got(Peer(e), n)

Takes(e) ==
  /\ rnext' = rnext /\ rcv' \in [Ends -> SUBSET Nat] /\ acks' \in [Ends -> SUBSET Nat]
  /\ \A x \in Ends \ {e} : rcv'[x] = rcv[x] /\ acks'[x] = acks[x]
  /\ rcv[e] \subseteq rcv'[e]
  /\ \A n \in rcv'[e] : InWindow(e, n) /\ n < nxt[Peer(e)]
  /\ \A n \in acks'[e] : n < rnext[e] \/ n \in rcv'[e]
  /\ \A n \in snd[Peer(e)] : n \in rcv'[e] => n \in acks'[e] \/ n < rnext[e]

LEMMA KeepsSending ==
  ASSUME KcpInv, NEW e \in Ends, NEW window \in SUBSET snd[e],
         Set(snd, e, window), UNCHANGED <<nxt, una>>
  PROVE  Sends(e, window)
<1>1. snd[e] \subseteq Nat /\ snd[e] \subseteq una[e] .. nxt[e] - 1 /\ Behind(e)
  BY DEF KcpInv, TypeOK
<1>2. una[e] \in Nat /\ nxt[e] \in Nat /\ una \in [Ends -> Nat] /\ snd \in [Ends -> SUBSET Nat]
  BY DEF KcpInv, TypeOK
<1>3. snd' = [snd EXCEPT ![e] = window] /\ nxt' = nxt /\ una' = una
  BY DEF Set
<1>4. snd'[e] = window /\ snd' \in [Ends -> SUBSET Nat]
  BY <1>1, <1>2, <1>3
<1>5. \A n \in window : una[e] <= n
  BY <1>1, <1>2
<1> QED
  BY <1>1, <1>2, <1>3, <1>4, <1>5 DEF Sends, Behind

LEMMA AcknowledgeStep ==
  ASSUME KcpInv, NEW e \in Ends, NEW window \in SUBSET snd[e], NEW next \in Nat,
         next <= rnext[Peer(e)], NEW nums, \A n \in nums : Got(Peer(e), n),
         Acknowledge(e, window, next, nums)
  PROVE  Sends(e, window)
<1> DEFINE left == WindowFrom(window, next) \ nums
<1>1. snd[e] \subseteq Nat /\ snd[e] \subseteq una[e] .. nxt[e] - 1 /\ Behind(e)
  BY DEF KcpInv, TypeOK
<1>2. /\ una[e] \in Nat /\ nxt[e] \in Nat /\ rnext[Peer(e)] \in Nat
      /\ una \in [Ends -> Nat] /\ snd \in [Ends -> SUBSET Nat]
  BY Peers DEF KcpInv, TypeOK
<1>3. snd' = [snd EXCEPT ![e] = left] /\ snd'[e] = left
  BY <1>2 DEF Acknowledge, Set
<1>4. una' = [una EXCEPT ![e] = FirstOf(left, nxt[e])] /\ nxt' = nxt
  BY <1>3 DEF Acknowledge, Set
<1>5. left \subseteq window /\ left \in SUBSET Nat
  BY <1>1 DEF WindowFrom
<1>6. \A n \in left : una[e] <= n /\ n < nxt[e]
  BY <1>1, <1>2, <1>5
<1>7. /\ FirstOf(left, nxt[e]) \in Nat /\ una[e] <= FirstOf(left, nxt[e])
      /\ FirstOf(left, nxt[e]) <= nxt[e] /\ \A n \in left : FirstOf(left, nxt[e]) <= n
  <2>1. una[e] <= nxt[e]
    BY <1>1 DEF Behind
  <2> HIDE DEF left
  <2> QED
    BY <2>1, <1>2, <1>5, <1>6, FirstIsLeast
<1>8. ASSUME NEW n \in window, n \notin left PROVE Got(Peer(e), n)
  <2>1. n \in Nat
    BY <1>1
  <2>2. n < next \/ n \in nums
    BY <1>8, <2>1 DEF WindowFrom
  <2> QED
    BY <2>1, <2>2, <1>2 DEF Got
<1> HIDE DEF left
<1> QED
  BY <1>2, <1>3, <1>4, <1>5, <1>7, <1>8 DEF Sends

LEMMA KeepsReceiving ==
  ASSUME KcpInv, NEW e \in Ends, UNCHANGED receiving
  PROVE  Takes(e)
<1>1. Peer(e) \in Ends /\ Peer(Peer(e)) = e
  BY Peers
<1>2. \A n \in snd[Peer(e)] : Got(e, n) => n \in acks[e] \/ n < rnext[e]
  BY <1>1 DEF KcpInv, AckIsKept
<1>3. \A n \in rcv[e] : InWindow(e, n)
  BY DEF KcpInv, TypeOK
<1> QED
  BY <1>1, <1>2, <1>3 DEF KcpInv, TypeOK, Takes, Behind, Got, receiving

(* The sender's first unacknowledged number does not reach what it repeats. *)
LEMMA DropsAcks ==
  ASSUME KcpInv, NEW e \in Ends, NEW low \in Nat, low <= una[Peer(e)]
  PROVE  /\ AcksFrom(acks[e], low) \subseteq acks[e]
         /\ \A n \in snd[Peer(e)] : n \in rcv[e] => n \in AcksFrom(acks[e], low) \/ n < rnext[e]
<1>1. Peer(e) \in Ends /\ Peer(Peer(e)) = e
  BY Peers
<1>2. /\ snd[Peer(e)] \subseteq una[Peer(e)] .. nxt[Peer(e)] - 1
      /\ una[Peer(e)] \in Nat /\ nxt[Peer(e)] \in Nat
  BY <1>1 DEF KcpInv, TypeOK
<1>3. \A n \in snd[Peer(e)] : n >= low /\ (Got(e, n) => n \in acks[e] \/ n < rnext[e])
  BY <1>1, <1>2 DEF KcpInv, AckIsKept
<1> QED
  BY <1>3 DEF AcksFrom, Got

LEMMA TakeDataStep ==
  ASSUME KcpInv, NEW e \in Ends, NEW m \in Datagrams, m.to = e, m.kind = "data", Honest(m),
         TakeData(e, m)
  PROVE  Takes(e)
<1> USE Peers, DatagramTypes
<1>1. CASE ~InWindow(e, m.num)
  BY <1>1, KeepsReceiving DEF TakeData, receiving
<1>2. CASE InWindow(e, m.num)
  <2>1. /\ m.num \in Nat /\ m.una \in Nat /\ m.num < nxt[Peer(e)] /\ m.una <= una[Peer(e)]
    BY DEF Honest
  <2>2. /\ acks' = [acks EXCEPT ![e] = AcksFrom(acks[e], m.una) \cup {m.num}]
        /\ rcv' = [rcv EXCEPT ![e] = rcv[e] \cup {m.num}] /\ rnext' = rnext
    BY <1>2 DEF TakeData, Set
  <2>3. /\ AcksFrom(acks[e], m.una) \subseteq acks[e]
        /\ \A n \in snd[Peer(e)] : n \in rcv[e] => n \in AcksFrom(acks[e], m.una) \/ n < rnext[e]
    BY <2>1, DropsAcks
  <2>4. rcv \in [Ends -> SUBSET Nat] /\ acks \in [Ends -> SUBSET Nat]
    BY DEF KcpInv, TypeOK
  <2>5. /\ \A n \in rcv[e] : InWindow(e, n) /\ n < nxt[Peer(e)]
        /\ \A n \in acks[e] : n < rnext[e] \/ n \in rcv[e]
    BY DEF KcpInv, TypeOK, Behind, Got
  <2> QED
    BY <1>2, <2>1, <2>2, <2>3, <2>4, <2>5 DEF Takes
<1> QED
  BY <1>1, <1>2

LEMMA ProcessStep ==
  ASSUME KcpInv, NEW e \in Ends, NEW m \in Datagrams, m.to = e, Honest(m),
         NEW window \in SUBSET snd[e], Process(e, m, window)
  PROVE  Sends(e, window) /\ Takes(e)
<1> USE Peers, DatagramTypes
<1>1. CASE m.kind = "data"
  <2>1. TakeData(e, m) /\ Set(snd, e, window) /\ UNCHANGED <<nxt, una>>
    BY <1>1 DEF Process
  <2> QED
    BY <1>1, <2>1, TakeDataStep, KeepsSending
<1>2. CASE m.kind = "ack"
  <2>1. /\ UNCHANGED receiving
        /\ m.rnext \in Nat /\ m.rnext <= rnext[Peer(e)] /\ \A n \in m.nums : Got(Peer(e), n)
    BY <1>2 DEF Process, Honest
  <2>2. \/ Set(snd, e, window) /\ UNCHANGED <<nxt, una>>
        \/ Acknowledge(e, window, m.rnext, m.nums)
    BY <1>2 DEF Process
  <2>3. Sends(e, window)
    BY <2>1, <2>2, KeepsSending, AcknowledgeStep
  <2> QED
    BY <2>1, <2>3, KeepsReceiving
<1>3. CASE m.kind \in {"ping", "terminate"}
  <2>1. /\ m.rnext \in Nat /\ m.rnext <= rnext[Peer(e)]
        /\ m.una \in Nat /\ m.una <= una[Peer(e)]
    BY <1>3 DEF Honest
  <2>2. Acknowledge(e, window, m.rnext, {}) /\ Set(acks, e, AcksFrom(acks[e], m.una))
        /\ UNCHANGED <<rcv, rnext>>
    BY <1>3 DEF Process
  <2>3. Sends(e, window)
    BY <2>1, <2>2, AcknowledgeStep
  <2>4. /\ AcksFrom(acks[e], m.una) \subseteq acks[e]
        /\ \A n \in snd[Peer(e)] : n \in rcv[e] => n \in AcksFrom(acks[e], m.una) \/ n < rnext[e]
    BY <2>1, DropsAcks
  <2>5. rcv \in [Ends -> SUBSET Nat] /\ acks \in [Ends -> SUBSET Nat]
    BY DEF KcpInv, TypeOK
  <2>6. /\ \A n \in rcv[e] : InWindow(e, n) /\ n < nxt[Peer(e)]
        /\ \A n \in acks[e] : n < rnext[e] \/ n \in rcv[e]
    BY DEF KcpInv, TypeOK, Behind, Got
  <2>7. Takes(e)
    BY <2>2, <2>4, <2>5, <2>6 DEF Takes, Set
  <2> QED
    BY <2>3, <2>7
<1> QED
  BY <1>1, <1>2, <1>3

(* The windows after a datagram was handled.                                 *)
WindowsOK == /\ {nxt, una, rnext} \subseteq [Ends -> Nat]
             /\ {snd, rcv, acks} \subseteq [Ends -> SUBSET Nat]
             /\ \A e \in Ends : /\ snd[e] \subseteq una[e] .. nxt[e] - 1
                                /\ Cardinality(snd[e]) <= SendWindow + 1
                                /\ \A n \in rcv[e] : InWindow(e, n)
                                /\ Behind(e)

LEMMA HandledWindows ==
  ASSUME KcpInv, NEW e \in Ends, NEW window \in SUBSET snd[e], Sends(e, window), Takes(e)
  PROVE  WindowsOK'
<1>1. /\ {nxt, una, rnext} \subseteq [Ends -> Nat]
      /\ {snd, rcv, acks} \subseteq [Ends -> SUBSET Nat]
      /\ \A x \in Ends : snd[x] \subseteq una[x] .. nxt[x] - 1
  BY DEF KcpInv, TypeOK
<1>2. /\ {nxt', una', rnext'} \subseteq [Ends -> Nat]
      /\ {snd', rcv', acks'} \subseteq [Ends -> SUBSET Nat]
  BY <1>1 DEF Sends, Takes
<1>3. ASSUME NEW x \in Ends
      PROVE  /\ snd'[x] \subseteq snd[x] /\ snd'[x] \subseteq una'[x] .. nxt'[x] - 1
             /\ una'[x] <= nxt'[x]
  <2>1. Behind(x)
    BY DEF KcpInv
  <2>2. CASE x = e
    BY <2>2, <1>1, <1>2 DEF Sends
  <2>3. CASE x # e
    BY <2>1, <2>3, <1>1 DEF Sends, Behind
  <2> QED
    BY <2>2, <2>3
<1>4. ASSUME NEW x \in Ends PROVE Cardinality(snd'[x]) <= SendWindow + 1
  BY <1>3, SmallerWindow DEF KcpInv
<1>5. ASSUME NEW x \in Ends, NEW n \in rcv'[x] PROVE InWindow(x, n)' /\ n < nxt'[Peer(x)]
  <2>1. Behind(x) /\ \A k \in rcv[x] : InWindow(x, k)
    BY DEF KcpInv, TypeOK
  <2>2. InWindow(x, n) /\ n < nxt[Peer(x)]
    <3>1. CASE x = e
      BY <1>5, <3>1 DEF Takes
    <3>2. CASE x # e
      BY <1>5, <2>1, <3>2 DEF Takes, Behind
    <3> QED
      BY <3>1, <3>2
  <2> QED
    BY <2>2 DEF InWindow, Sends, Takes
<1>6. ASSUME NEW x \in Ends, NEW n \in acks'[x] PROVE Got(x, n)'
  <2>1. Behind(x)
    BY DEF KcpInv
  <2>2. CASE x = e
    BY <1>6, <2>2 DEF Takes, Got
  <2>3. CASE x # e
    BY <1>6, <2>1, <2>3 DEF Takes, Behind, Got
  <2> QED
    BY <2>2, <2>3
<1>7. ASSUME NEW x \in Ends PROVE rnext'[x] <= nxt'[Peer(x)]
  BY DEF KcpInv, Behind, Sends, Takes
<1>8. ASSUME NEW x \in Ends PROVE Behind(x)'
  BY <1>3, <1>5, <1>6, <1>7 DEF Behind
<1> QED
  BY <1>2, <1>3, <1>4, <1>5, <1>8 DEF WindowsOK

LEMMA HandledGrows ==
  ASSUME KcpInv, NEW e \in Ends, NEW window \in SUBSET snd[e], Sends(e, window), Takes(e),
         UNCHANGED history
  PROVE  Grows
<1>1. {nxt, una, rnext} \subseteq [Ends -> Nat]
  BY DEF KcpInv, TypeOK
<1>2. ASSUME NEW x \in Ends PROVE una[x] <= una'[x]
  BY <1>1 DEF Sends
<1>3. ASSUME NEW x \in Ends, NEW n \in Nat, Got(x, n) PROVE Got(x, n)'
  BY <1>3 DEF Takes, Got
<1> QED
  BY <1>1, <1>2, <1>3 DEF Grows, Sends, Takes, history

(* A segment that left the window is one the peer has, and one the peer has   *)
(* and the sender keeps is acknowledged.                                      *)
LEMMA HandledKeepsAcks ==
  ASSUME KcpInv, NEW e \in Ends, NEW window \in SUBSET snd[e], Sends(e, window), Takes(e)
  PROVE  AckIsKept'
<1> SUFFICES ASSUME NEW x \in Ends, NEW n \in snd'[x], Got(Peer(x), n)',
                    n \notin acks'[Peer(x)]
             PROVE  n < rnext'[Peer(x)]
  BY DEF AckIsKept
<1>1. Peer(x) \in Ends /\ Peer(Peer(x)) = x /\ Peer(x) # x
  BY Peers
<1>2. n \in snd[x]
  <2>1. CASE x = e
    BY <2>1 DEF Sends
  <2>2. CASE x # e
    BY <2>2 DEF Sends
  <2> QED
    BY <2>1, <2>2
<1>3. Got(Peer(x), n) => n \in acks[Peer(x)] \/ n < rnext[Peer(x)]
  BY <1>2 DEF KcpInv, AckIsKept
<1>4. CASE Peer(x) = e
  BY <1>1, <1>2, <1>4 DEF Takes, Got
<1>5. CASE Peer(x) # e
  BY <1>1, <1>3, <1>5 DEF Takes, Got
<1> QED
  BY <1>4, <1>5

LEMMA HandledKeepsData ==
  ASSUME KcpInv, NEW e \in Ends, NEW window \in SUBSET snd[e], Sends(e, window), Takes(e),
         UNCHANGED history, Covered(e, window)
  PROVE  NothingLost'
<1> SUFFICES ASSUME NEW x \in Ends, Sure(x), NEW n \in 0 .. nxt[x] - 1
             PROVE  n \in snd'[x] \/ Got(Peer(x), n)'
  BY DEF NothingLost, Sure, history, Sends
<1>1. nxt[x] \in Nat /\ n \in Nat /\ Peer(x) \in Ends
  BY Peers DEF KcpInv, TypeOK
<1>2. Got(Peer(x), n) => Got(Peer(x), n)'
  BY <1>1, HandledGrows DEF Grows
<1>3. CASE x = e
  BY <1>2, <1>3 DEF Covered, Sends
<1>4. CASE x # e
  <2>1. n \in snd[x] \/ Got(Peer(x), n)
    BY DEF KcpInv, NothingLost, Sure
  <2> QED
    BY <1>2, <1>4, <2>1 DEF Sends
<1> QED
  BY <1>3, <1>4

-----------------------------------------------------------------------------
(* What an actor decides on is earned: both ends closed, or the sender saw    *)
(* its window empty, or the peer said so.                                     *)
LEMMA BothClosed ==
  ASSUME NEW e \in Ends, e \in called, Peer(e) \in called
  PROVE  AllDone
BY Peers DEF AllDone, Sure

LEMMA DecisionEarned ==
  ASSUME KcpInv, NEW e \in Ends, NEW m \in Datagrams, m.to = e, Honest(m)
  PROVE  Earned(e, Decision(st[e], m)) /\ Decision(st[e], m) \in States \cup {None}
<1>1. Earned(e, st[e]) /\ st[e] \in States
  BY DEF KcpInv, TypeOK
<1>2. CASE m.kind = "terminate"
  <2>1. AllDone
    BY <1>2 DEF Honest
  <2>2. Decision(st[e], m) \in {"PeerTerminating", "Terminating", "Terminated", None}
    BY <1>2 DEF Decision, OnTerminate
  <2> QED
    BY <2>1, <2>2 DEF Earned, Ended, None, States
<1>3. CASE m.kind # "terminate" /\ m.close
  <2>1. Peer(e) \in called
    BY <1>3 DEF Honest
  <2>2. CASE st[e] = "ReadyToClose"
    <3>1. Decision(st[e], m) = "Terminating" /\ AllDone
      BY <1>1, <1>3, <2>1, <2>2, BothClosed DEF Decision, OnPeerClosed, Earned
    <3> QED
      BY <3>1 DEF Earned, Ended, States
  <2>3. CASE st[e] = "Active"
    <3>1. Decision(st[e], m) = "PeerClosed"
      BY <1>3, <2>3 DEF Decision, OnPeerClosed
    <3> QED
      BY <2>1, <3>1 DEF Earned, Ended, States
  <2>4. CASE st[e] \notin {"ReadyToClose", "Active"}
    <3>1. Decision(st[e], m) = None
      BY <1>3, <2>4 DEF Decision, OnPeerClosed
    <3> QED
      BY <3>1 DEF Earned, Ended, None
  <2> QED
    BY <2>2, <2>3, <2>4
<1>4. CASE m.kind # "terminate" /\ ~m.close
  <2>1. Decision(st[e], m) = None
    BY <1>4 DEF Decision
  <2> QED
    BY <2>1 DEF Earned, Ended, None
<1> QED
  BY <1>2, <1>3, <1>4

LEMMA FlushEarned ==
  ASSUME KcpInv, NEW e \in Ends, NEW late \in BOOLEAN, FlushTo(e, late) # None
  PROVE  /\ FlushTo(e, late) \in Ended
         /\ ~(st[e] = "ReadyToClose" /\ snd[e] # {} /\ late) => AllDone
<1>1. Earned(e, st[e]) /\ st[e] \in States
  BY DEF KcpInv, TypeOK
<1>2. CASE st[e] = "ReadyToClose" /\ WaitedEnough(e, late)
  <2>1. FlushTo(e, late) = "Terminating"
    BY <1>2 DEF FlushTo
  <2>2. ASSUME snd[e] = {} PROVE AllDone
    <3>1. e \in called
      BY <1>1, <1>2 DEF Earned
    <3>2. Sure(e) => Done(e)
      BY <2>2, <3>1 DEF KcpInv, NothingLost, Sure, Done
    <3>3. ~Sure(Peer(e))
      BY <3>1, Peers DEF Sure
    <3> QED
      BY <3>2, <3>3, Peers DEF AllDone
  <2> QED
    BY <1>2, <2>1, <2>2 DEF WaitedEnough, Ended
<1>3. CASE st[e] = "Terminating" \/ st[e] = "PeerTerminating"
  <2>1. FlushTo(e, late) \in {"Terminated", "Terminating", None}
    BY <1>3 DEF FlushTo
  <2> QED
    BY <1>1, <1>3, <2>1 DEF Earned, Ended
<1>4. CASE ~(st[e] = "ReadyToClose" /\ WaitedEnough(e, late))
           /\ st[e] \notin {"Terminating", "PeerTerminating"}
  BY <1>4 DEF FlushTo
<1> QED
  BY <1>2, <1>3, <1>4

LEMMA ClosingCovers ==
  ASSUME KcpInv, NEW e \in Ends, NEW s, Earned(e, s)
  PROVE  Covered(e, IF ClosesWrite(s) THEN {} ELSE snd[e])
<1>1. CASE ~ClosesWrite(s)
  BY <1>1 DEF KcpInv, NothingLost, Covered, Sure
<1>2. CASE s = "PeerClosed"
  BY <1>2 DEF Earned, Covered, Sure
<1>3. CASE s \in Ended
  BY <1>3 DEF Earned, AllDone, Covered, Done
<1> QED
  BY <1>1, <1>2, <1>3 DEF ClosesWrite, Ended

-----------------------------------------------------------------------------
(* What no step takes back.                                                  *)
LEMMA LettersStay ==
  ASSUME KcpInv, TypeOK', Grows
  PROVE  /\ \A m \in net : Honest(m)'
         /\ \A e \in Ends : \A m \in inbox[e] : Honest(m)'
BY HonestStays DEF KcpInv, TypeOK, Waiting

LEMMA WindowsType ==
  ASSUME WindowsOK', st' \in [Ends -> States],
         plan' \in [Ends -> [Actors -> States \cup {None}]],
         net' \subseteq Datagrams, inbox' \in [Ends -> SUBSET Datagrams],
         released' \cup called' \cup hurried' \subseteq Ends
  PROVE  TypeOK'
BY DEF WindowsOK, TypeOK

LEMMA InvWindows == KcpInv => WindowsOK
BY DEF KcpInv, TypeOK, WindowsOK

-----------------------------------------------------------------------------
(* One lemma per action.                                                     *)
LEMMA WriteStep == ASSUME KcpInv, NEW e \in Ends, Write(e) PROVE KcpInv'
<1> USE Peers
<1>1. /\ {nxt, una, rnext} \subseteq [Ends -> Nat] /\ {snd, rcv, acks} \subseteq [Ends -> SUBSET Nat]
      /\ nxt' = [nxt EXCEPT ![e] = nxt[e] + 1] /\ snd' = [snd EXCEPT ![e] = snd[e] \cup {nxt[e]}]
      /\ UNCHANGED <<st, plan, inbox, una, rcv, rnext, acks, net, released, called, hurried>>
      /\ e \notin called /\ Cardinality(snd[e]) <= SendWindow
  BY DEF Write, Set, receiving, history, KcpInv, TypeOK
<1>2. /\ {nxt', una', rnext'} \subseteq [Ends -> Nat]
      /\ {snd', rcv', acks'} \subseteq [Ends -> SUBSET Nat]
  BY <1>1
<1>3. \A x \in Ends : nxt'[x] = IF x = e THEN nxt[x] + 1 ELSE nxt[x]
  BY <1>1
<1>4. Grows
  BY <1>1, <1>3 DEF Grows, Got
<1>5. ASSUME NEW x \in Ends PROVE Behind(x)'
  <2>1. Behind(x)
    BY DEF KcpInv
  <2>2. nxt[x] <= nxt'[x] /\ nxt[Peer(x)] <= nxt'[Peer(x)]
    BY <1>1, <1>3
  <2>3. \A n \in rcv[x] : n < nxt'[Peer(x)]
    BY <1>1, <2>1, <2>2 DEF Behind
  <2>4. una[x] <= nxt'[x] /\ rnext[x] <= nxt'[Peer(x)]
    BY <1>1, <2>1, <2>2 DEF Behind
  <2>5. \A n \in acks[x] : Got(x, n)
    BY <2>1 DEF Behind
  <2> QED
    BY <1>1, <2>3, <2>4, <2>5 DEF Behind, Got
<1>6. ASSUME NEW x \in Ends
      PROVE  snd'[x] \subseteq una'[x] .. nxt'[x] - 1
  <2>1. snd[x] \subseteq una[x] .. nxt[x] - 1 /\ una[x] <= nxt[x]
    BY DEF KcpInv, TypeOK, Behind
  <2> QED
    BY <1>1, <1>3, <2>1
<1>7. ASSUME NEW x \in Ends PROVE Cardinality(snd'[x]) <= SendWindow + 1
  <2>1. CASE x = e
    <3>1. IsFiniteSet(una[e] .. nxt[e] - 1)
      BY <1>1, FS_Interval
    <3>2. IsFiniteSet(snd[e]) /\ Cardinality(snd[e]) \in Nat
      BY <3>1, FS_Subset, FS_CardinalityType DEF KcpInv, TypeOK
    <3>3. \/ Cardinality(snd[e] \cup {nxt[e]}) = Cardinality(snd[e])
          \/ Cardinality(snd[e] \cup {nxt[e]}) = Cardinality(snd[e]) + 1
      BY <3>2, FS_AddElement
    <3>4. snd'[e] = snd[e] \cup {nxt[e]}
      BY <1>1
    <3> QED
      BY <1>1, <2>1, <3>2, <3>3, <3>4, KcpAssumption
  <2>2. CASE x # e
    BY <1>1, <2>2 DEF KcpInv, TypeOK
  <2> QED
    BY <2>1, <2>2
<1>8. \A x \in Ends : \A n \in rcv'[x] : InWindow(x, n)'
  BY <1>1 DEF KcpInv, TypeOK, InWindow
<1>9. WindowsOK'
  BY <1>2, <1>5, <1>6, <1>7, <1>8 DEF WindowsOK
<1>10. TypeOK'
  BY <1>1, <1>9, WindowsType DEF KcpInv, TypeOK
<1>11. \A m \in net' : Honest(m)'
  BY <1>1, <1>4, <1>10, LettersStay
<1>12. ASSUME NEW x \in Ends
       PROVE  /\ Waiting(x)' /\ Earned(x, st[x])'
              /\ \A a \in Actors : Earned(x, plan[x][a])'
  <2>1. Waiting(x)'
    BY <1>1, <1>4, <1>10, LettersStay DEF Waiting, KcpInv
  <2>2. Earned(x, st[x]) /\ \A a \in Actors : Earned(x, plan[x][a])
    BY DEF KcpInv
  <2>3. Earned(x, st[x])' /\ \A a \in Actors : Earned(x, plan[x][a])'
    BY <1>1, <1>4, <2>2, EarnedStays DEF KcpInv, Earned
  <2> QED
    BY <2>1, <2>3
<1>13. NothingLost'
  <2> SUFFICES ASSUME NEW x \in Ends, Sure(x), NEW n \in 0 .. nxt'[x] - 1
               PROVE  n \in snd'[x] \/ Got(Peer(x), n)'
    BY <1>1 DEF NothingLost, Sure
  <2>1. n \in Nat /\ nxt[x] \in Nat
    BY <1>1, <1>2
  <2>2. CASE n = nxt[x] /\ x = e
    BY <1>1, <2>2
  <2>3. CASE ~(n = nxt[x] /\ x = e)
    <3>1. n \in 0 .. nxt[x] - 1
      BY <1>3, <2>1, <2>3
    <3>2. n \in snd[x] \/ Got(Peer(x), n)
      BY <3>1 DEF KcpInv, NothingLost, Sure
    <3> QED
      BY <1>1, <3>2 DEF Got
  <2> QED
    BY <2>2, <2>3
<1>14. AckIsKept'
  <2> SUFFICES ASSUME NEW x \in Ends, NEW n \in snd'[x], Got(Peer(x), n)
               PROVE  n \in acks[Peer(x)] \/ n < rnext[Peer(x)]
    BY <1>1 DEF AckIsKept, Got
  <2>1. CASE n \in snd[x]
    BY <2>1 DEF KcpInv, AckIsKept
  <2>2. CASE n \notin snd[x]
    <3>1. n = nxt[x] /\ x = e
      BY <1>1, <2>2
    <3>2. Behind(Peer(x)) /\ Peer(Peer(x)) = x /\ nxt[x] \in Nat /\ rnext[Peer(x)] \in Nat
      BY <1>1 DEF KcpInv
    <3>3. rnext[Peer(x)] <= nxt[x] /\ nxt[x] \notin rcv[Peer(x)]
      BY <1>1, <3>2 DEF Behind
    <3> QED
      BY <3>1, <3>2, <3>3 DEF Got
  <2> QED
    BY <2>1, <2>2
<1> QED
  BY <1>9, <1>10, <1>11, <1>12, <1>13, <1>14 DEF KcpInv, WindowsOK

LEMMA ReadDataStep == ASSUME KcpInv, NEW e \in Ends, ReadData(e) PROVE KcpInv'
<1> USE Peers
<1>1. PICK n \in rnext[e] + 1 .. rnext[e] + RecvWindow :
        /\ rnext[e] .. n - 1 \subseteq rcv[e] /\ n \notin rcv[e]
        /\ Set(rcv, e, rcv[e] \ (rnext[e] .. n - 1)) /\ Set(rnext, e, n)
  BY DEF ReadData
<1>2. UNCHANGED <<st, plan, inbox, snd, nxt, una, acks, net, released, called, hurried>>
  BY DEF ReadData, sending, history
<1>3. /\ {nxt, una, rnext} \subseteq [Ends -> Nat] /\ {snd, rcv, acks} \subseteq [Ends -> SUBSET Nat]
      /\ RecvWindow \in Nat /\ n \in Nat /\ rnext[e] < n /\ n <= rnext[e] + RecvWindow
      /\ \A x \in Ends : Behind(x) /\ \A k \in rcv[x] : InWindow(x, k)
  BY <1>1, KcpAssumption DEF KcpInv, TypeOK
<1>4. /\ rcv' = [rcv EXCEPT ![e] = rcv[e] \ (rnext[e] .. n - 1)]
      /\ rnext' = [rnext EXCEPT ![e] = n]
      /\ {nxt', una', rnext'} \subseteq [Ends -> Nat]
      /\ {snd', rcv', acks'} \subseteq [Ends -> SUBSET Nat]
  BY <1>1, <1>2, <1>3 DEF Set
<1>5. ASSUME NEW x \in Ends, NEW k \in Nat PROVE Got(x, k)' <=> Got(x, k)
  <2>1. CASE x = e
    <3>1. rnext'[e] = n /\ rcv'[e] = rcv[e] \ (rnext[e] .. n - 1)
      BY <1>3, <1>4
    <3>2. k \in rcv[e] => rnext[e] <= k
      BY <1>3 DEF InWindow
    <3>3. k < n <=> k < rnext[e] \/ k \in rnext[e] .. n - 1
      BY <1>3
    <3> QED
      BY <1>1, <2>1, <3>1, <3>2, <3>3 DEF Got
  <2>2. CASE x # e
    BY <1>4, <2>2 DEF Got
  <2> QED
    BY <2>1, <2>2
<1>6. Grows
  BY <1>2, <1>3, <1>4, <1>5 DEF Grows
<1>7. n <= nxt[Peer(e)]
  <2>1. n - 1 \in rcv[e] /\ n - 1 \in Nat
    BY <1>1, <1>3
  <2>2. n - 1 < nxt[Peer(e)] /\ nxt[Peer(e)] \in Nat
    BY <1>3, <2>1 DEF Behind
  <2> QED
    BY <1>3, <2>1, <2>2
<1>8. ASSUME NEW x \in Ends PROVE Behind(x)' /\ \A k \in rcv'[x] : InWindow(x, k)'
  <2>1. rcv'[x] \subseteq rcv[x]
    BY <1>4
  <2>2. rnext'[x] <= nxt[Peer(x)]
    BY <1>3, <1>4, <1>7 DEF Behind
  <2>3. \A k \in acks[x] : Got(x, k)'
    BY <1>3, <1>5 DEF Behind
  <2>4. ASSUME NEW k \in rcv'[x] PROVE InWindow(x, k)'
    <3>1. k \in Nat /\ InWindow(x, k)
      BY <1>3, <2>1, <2>4
    <3>2. CASE x = e
      <4>1. k \notin rnext[e] .. n - 1 /\ rnext'[e] = n
        BY <1>3, <1>4, <2>4, <3>2
      <4> QED
        BY <1>3, <3>1, <3>2, <4>1 DEF InWindow
    <3>3. CASE x # e
      BY <1>4, <3>1, <3>3 DEF InWindow
    <3> QED
      BY <3>2, <3>3
  <2>5. Behind(x)
    BY <1>3
  <2>6. una'[x] <= nxt'[x] /\ \A k \in rcv'[x] : k < nxt'[Peer(x)]
    BY <1>2, <2>1, <2>5 DEF Behind
  <2> QED
    BY <1>2, <2>2, <2>3, <2>4, <2>6 DEF Behind
<1>9. WindowsOK'
  BY <1>2, <1>4, <1>8 DEF WindowsOK, KcpInv, TypeOK
<1>10. TypeOK'
  BY <1>2, <1>9, WindowsType DEF KcpInv, TypeOK
<1>11. ASSUME NEW x \in Ends
       PROVE  /\ Waiting(x)' /\ Earned(x, st[x])'
              /\ \A a \in Actors : Earned(x, plan[x][a])'
  <2>1. Waiting(x)'
    BY <1>2, <1>6, <1>10, LettersStay DEF Waiting, KcpInv
  <2>2. Earned(x, st[x]) /\ \A a \in Actors : Earned(x, plan[x][a])
    BY DEF KcpInv
  <2>3. Earned(x, st[x])' /\ \A a \in Actors : Earned(x, plan[x][a])'
    BY <1>2, <1>6, <2>2, EarnedStays DEF KcpInv, Earned
  <2> QED
    BY <2>1, <2>3
<1>12. \A m \in net' : Honest(m)'
  BY <1>2, <1>6, <1>10, LettersStay
<1>13. NothingLost'
  BY <1>2, <1>3, <1>5 DEF KcpInv, NothingLost
<1>14. AckIsKept'
  <2> SUFFICES ASSUME NEW x \in Ends, NEW k \in snd[x], Got(Peer(x), k)'
               PROVE  k \in acks[Peer(x)] \/ k < rnext'[Peer(x)]
    BY <1>2 DEF AckIsKept
  <2>1. k \in Nat /\ rnext[Peer(x)] \in Nat /\ rnext'[Peer(x)] \in Nat
    BY <1>3, <1>4
  <2>2. k \in acks[Peer(x)] \/ k < rnext[Peer(x)]
    BY <1>5, <2>1 DEF KcpInv, AckIsKept
  <2> QED
    BY <1>6, <2>1, <2>2 DEF Grows
<1> QED
  BY <1>8, <1>10, <1>11, <1>12, <1>13, <1>14 DEF KcpInv

(* Steps that only decide, store or send leave the numbers and the receiving  *)
(* windows alone.                                                             *)
LEMMA StillWindows ==
  ASSUME KcpInv, UNCHANGED <<sending, receiving>>,
         called \subseteq called', hurried \subseteq hurried'
  PROVE  Grows /\ WindowsOK' /\ NothingLost' /\ AckIsKept'
<1>1. UNCHANGED <<snd, nxt, una, rcv, rnext, acks>>
  BY DEF sending, receiving
<1>2. {nxt, una, rnext} \subseteq [Ends -> Nat] /\ WindowsOK
  BY InvWindows DEF KcpInv, TypeOK
<1>3. Grows
  BY <1>1, <1>2 DEF Grows, Got
<1>4. WindowsOK'
  BY <1>1, <1>2 DEF WindowsOK, Behind, Got, InWindow
<1>5. NothingLost'
  BY <1>1 DEF KcpInv, NothingLost, Got
<1>6. AckIsKept'
  BY <1>1 DEF KcpInv, AckIsKept, Got
<1> QED
  BY <1>3, <1>4, <1>5, <1>6

LEMMA CloseReadsStep == ASSUME KcpInv, NEW e \in Ends, CloseReads(e) PROVE KcpInv'
<1> USE Peers
<1>1. /\ called' = called \cup {e} /\ plan' = [plan EXCEPT ![e]["app"] = CloseTo(st[e])]
      /\ UNCHANGED <<st, inbox, sending, receiving, net, released, hurried>>
  BY DEF CloseReads, Plan
<1>2. Grows /\ WindowsOK' /\ NothingLost' /\ AckIsKept'
  BY <1>1, StillWindows
<1>3. CloseTo(st[e]) \in {"ReadyToClose", "Terminating", "Terminated", None}
  BY DEF CloseTo
<1>4. TypeOK'
  BY <1>1, <1>2, <1>3, WindowsType DEF KcpInv, TypeOK, States
<1>5. \A x \in Ends : Earned(x, st[x])'
  BY <1>1, <1>2, EarnedStays DEF KcpInv, Earned
<1>6. Earned(e, CloseTo(st[e]))'
  <2>1. Earned(e, st[e])' /\ e \in called' /\ st[e] \in States /\ st' = st
    BY <1>1, <1>5 DEF KcpInv, TypeOK
  <2>2. CASE st[e] = "PeerClosed"
    <3>1. AllDone'
      BY <2>1, <2>2 DEF Earned, AllDone, Sure, Done, Peer, Ends
    <3> QED
      BY <1>1, <2>2, <3>1 DEF CloseTo, Earned
  <2>3. CASE st[e] = "PeerTerminating"
    <3>1. AllDone'
      BY <2>1, <2>3 DEF Earned, Ended
    <3> QED
      BY <1>1, <2>3, <3>1 DEF CloseTo, Earned
  <2>4. CASE st[e] = "Active"
    BY <2>1, <2>4 DEF CloseTo, Earned, Ended
  <2>5. CASE st[e] \notin {"PeerClosed", "PeerTerminating", "Active"}
    <3>1. CloseTo(st[e]) = None
      BY <2>5 DEF CloseTo
    <3> QED
      BY <2>1, <3>1 DEF Earned, Ended, None
  <2> QED
    BY <2>2, <2>3, <2>4, <2>5
<1>7. ASSUME NEW x \in Ends, NEW a \in Actors PROVE Earned(x, plan[x][a])'
  <2>1. CASE x = e /\ a = "app"
    <3>1. plan'[x][a] = CloseTo(st[e])'
      BY <1>1, <2>1 DEF KcpInv, TypeOK
    <3> QED
      BY <1>6, <2>1, <3>1 DEF Earned
  <2>2. CASE ~(x = e /\ a = "app")
    <3>1. plan'[x][a] = plan[x][a]
      BY <1>1, <2>2 DEF KcpInv, TypeOK
    <3> QED
      BY <1>2, <3>1, EarnedStays DEF KcpInv, Earned
  <2> QED
    BY <2>1, <2>2
<1>8. \A x \in Ends : plan'[x]["input"] = plan[x]["input"]
  BY <1>1 DEF KcpInv, TypeOK, Actors
<1>9. \A x \in Ends : Waiting(x)'
  BY <1>1, <1>2, <1>4, <1>8, LettersStay DEF Waiting, KcpInv
<1>10. \A m \in net' : Honest(m)'
  BY <1>1, <1>2, <1>4, LettersStay
<1> QED
  BY <1>2, <1>4, <1>5, <1>7, <1>9, <1>10 DEF KcpInv, WindowsOK

LEMMA FlushDecidesStep ==
  ASSUME KcpInv, NEW e \in Ends, NEW late \in BOOLEAN, FlushDecides(e, late)
  PROVE  KcpInv'
<1> USE Peers
<1> DEFINE s == FlushTo(e, late)
           gaveUp == st[e] = "ReadyToClose" /\ snd[e] # {} /\ late
<1>1. /\ s # None /\ plan' = [plan EXCEPT ![e]["flush"] = s]
      /\ UNCHANGED <<st, inbox, sending, receiving, net, released, called>>
      /\ hurried' = IF gaveUp THEN hurried \cup {e} ELSE hurried
  BY DEF FlushDecides, Plan
<1>2. Grows /\ WindowsOK' /\ NothingLost' /\ AckIsKept'
  BY <1>1, StillWindows
<1>3. s \in Ended /\ (~gaveUp => AllDone)
  BY <1>1, FlushEarned
<1>4. AllDone'
  <2>1. CASE gaveUp
    <3>1. e \in called' /\ e \in hurried'
      BY <1>1, <2>1 DEF KcpInv, Earned
    <3> QED
      BY <3>1 DEF AllDone, Sure, Ends, Peer
  <2>2. CASE ~gaveUp
    BY <1>2, <1>3, <2>2, DoneStays DEF KcpInv
  <2> QED
    BY <2>1, <2>2
<1> HIDE DEF s, gaveUp
<1>5. TypeOK'
  BY <1>1, <1>2, <1>3, WindowsType DEF KcpInv, TypeOK, States, Ended
<1>6. \A x \in Ends : Earned(x, st[x])'
  BY <1>1, <1>2, EarnedStays DEF KcpInv, Earned
<1>7. ASSUME NEW x \in Ends, NEW a \in Actors PROVE Earned(x, plan[x][a])'
  <2>1. CASE x = e /\ a = "flush"
    <3>1. plan'[x][a] = s
      BY <1>1, <2>1 DEF KcpInv, TypeOK
    <3> QED
      BY <1>3, <1>4, <3>1 DEF Earned, Ended
  <2>2. CASE ~(x = e /\ a = "flush")
    <3>1. plan'[x][a] = plan[x][a]
      BY <1>1, <2>2 DEF KcpInv, TypeOK
    <3> QED
      BY <1>2, <3>1, EarnedStays DEF KcpInv, Earned
  <2> QED
    BY <2>1, <2>2
<1>8. \A x \in Ends : plan'[x]["input"] = plan[x]["input"]
  BY <1>1 DEF KcpInv, TypeOK, Actors
<1>9. \A x \in Ends : Waiting(x)'
  BY <1>1, <1>2, <1>5, <1>8, LettersStay DEF Waiting, KcpInv
<1>10. \A m \in net' : Honest(m)'
  BY <1>1, <1>2, <1>5, LettersStay
<1> QED
  BY <1>2, <1>5, <1>6, <1>7, <1>9, <1>10 DEF KcpInv, WindowsOK

(* A datagram says what is so at the end that sends it.                      *)
LEMMA SentIsHonest ==
  ASSUME KcpInv, NEW e \in Ends
  PROVE  /\ \A n \in snd[e] : Data(e, n) \in Datagrams /\ Honest(Data(e, n))
         /\ Ack(e) \in Datagrams /\ Honest(Ack(e))
         /\ Ping(e, "ping") \in Datagrams /\ Honest(Ping(e, "ping"))
         /\ st[e] = "Terminating" => /\ Ping(e, "terminate") \in Datagrams
                                     /\ Honest(Ping(e, "terminate"))
<1> USE Peers
<1>1. /\ una[e] \in Nat /\ nxt[e] \in Nat /\ rnext[e] \in Nat /\ acks[e] \subseteq Nat
      /\ snd[e] \subseteq una[e] .. nxt[e] - 1 /\ Behind(e) /\ Earned(e, st[e])
      /\ Closing(e) \in BOOLEAN /\ (Closing(e) => e \in called)
  BY DEF KcpInv, TypeOK, Closing, Earned
<1>2. ASSUME NEW n \in snd[e] PROVE Data(e, n) \in Datagrams /\ Honest(Data(e, n))
  <2>1. n \in Nat /\ n < nxt[e]
    BY <1>1
  <2> QED
    BY <1>1, <2>1 DEF Data, Datagrams, Honest
<1>3. Ack(e) \in Datagrams /\ Honest(Ack(e))
  BY <1>1 DEF Ack, Datagrams, Honest, Behind
<1>4. ASSUME NEW k \in {"ping", "terminate"}, k = "terminate" => AllDone
      PROVE  Ping(e, k) \in Datagrams /\ Honest(Ping(e, k))
  BY <1>1, <1>4 DEF Ping, Datagrams, Honest
<1>5. st[e] = "Terminating" => AllDone
  BY <1>1 DEF Earned, Ended
<1> QED
  BY <1>2, <1>3, <1>4, <1>5

(* Sending and losing datagrams change the network only.                     *)
LEMMA NetStep ==
  ASSUME KcpInv, UNCHANGED <<st, plan, inbox, sending, receiving, released, history>>,
         \A m \in net' : m \in net \/ (m \in Datagrams /\ Honest(m))
  PROVE  KcpInv'
<1>1. called' = called /\ hurried' = hurried
  BY DEF history
<1>2. Grows /\ WindowsOK' /\ NothingLost' /\ AckIsKept'
  BY <1>1, StillWindows
<1>3. net' \subseteq Datagrams /\ \A m \in net' : Honest(m)
  BY DEF KcpInv, TypeOK
<1>4. TypeOK'
  BY <1>1, <1>2, <1>3, WindowsType DEF KcpInv, TypeOK
<1>5. \A m \in net' : Honest(m)'
  BY <1>2, <1>3, <1>4, HonestStays DEF KcpInv
<1>6. ASSUME NEW x \in Ends
      PROVE  /\ Waiting(x)' /\ Earned(x, st[x])'
             /\ \A a \in Actors : Earned(x, plan[x][a])'
  <2>1. Waiting(x)'
    BY <1>2, <1>4, LettersStay DEF Waiting, KcpInv
  <2>2. Earned(x, st[x]) /\ \A a \in Actors : Earned(x, plan[x][a])
    BY DEF KcpInv
  <2>3. Earned(x, st[x])' /\ \A a \in Actors : Earned(x, plan[x][a])'
    BY <1>2, <2>2, EarnedStays DEF KcpInv, Earned
  <2> QED
    BY <2>1, <2>3
<1> QED
  BY <1>2, <1>4, <1>5, <1>6 DEF KcpInv, WindowsOK

LEMMA FlushSendsStep ==
  ASSUME KcpInv, NEW e \in Ends, FlushSends(e) \/ FlushTerminates(e)
  PROVE  KcpInv'
<1>1. UNCHANGED <<st, plan, inbox, sending, receiving, released, history>>
  BY DEF FlushSends, FlushTerminates
<1>2. \A m \in net' : m \in net \/ (m \in Datagrams /\ Honest(m))
  <2>1. CASE FlushSends(e)
    <3>1. \/ net' = net \cup {Ack(e)} \/ \E n \in snd[e] : net' = net \cup {Data(e, n)}
          \/ net' = net \cup {Ping(e, "ping")}
      BY <2>1 DEF FlushSends, Send
    <3> QED
      BY <3>1, SentIsHonest
  <2>2. CASE FlushTerminates(e)
    <3>1. net' = net \cup {Ping(e, "terminate")} /\ st[e] = "Terminating"
      BY <2>2 DEF FlushTerminates, Send
    <3> QED
      BY <3>1, SentIsHonest
  <2> QED
    BY <2>1, <2>2
<1> QED
  BY <1>1, <1>2, NetStep

LEMMA LoseStep == ASSUME KcpInv, NEW m \in net, Lose(m) PROVE KcpInv'
<1>1. /\ UNCHANGED <<st, plan, inbox, sending, receiving, released, history>>
      /\ net' \subseteq net
  BY DEF Lose
<1>2. \A k \in net' : k \in net \/ (k \in Datagrams /\ Honest(k))
  BY <1>1
<1> QED
  BY <1>1, <1>2, NetStep

(* What storing a state and handling a datagram do to the windows of an end:  *)
(* nothing leaves the sending window that the peer does not have, unless       *)
(* nobody waits for it.                                                        *)
Handles(e, window) == Sends(e, window) /\ Takes(e) /\ Covered(e, window)

LEMMA StoresHandles ==
  ASSUME KcpInv, NEW e \in Ends, NEW a \in {"app", "flush"}, Stores(e, a)
  PROVE  \E window \in SUBSET snd[e] : Handles(e, window)
<1> DEFINE s == plan[e][a]
           window == IF ClosesWrite(s) THEN {} ELSE snd[e]
<1>1. /\ s # None /\ Set(snd, e, window)
      /\ UNCHANGED <<nxt, una, receiving>>
  BY DEF Stores, SetState, Set
<1>2. Earned(e, s)
  BY DEF KcpInv, Actors
<1>3. window \in SUBSET snd[e] /\ Covered(e, window)
  BY <1>2, ClosingCovers
<1> HIDE DEF s, window
<1>4. Sends(e, window) /\ Takes(e)
  BY <1>1, <1>3, KeepsSending, KeepsReceiving
<1> QED
  BY <1>3, <1>4 DEF Handles

LEMMA StoresStep ==
  ASSUME KcpInv, NEW e \in Ends, NEW a \in {"app", "flush"}, Stores(e, a)
  PROVE  KcpInv'
<1> DEFINE s == plan[e][a]
<1>1. /\ s # None /\ plan' = [plan EXCEPT ![e][a] = None]
      /\ st' = [st EXCEPT ![e] = s]
      /\ UNCHANGED <<inbox, net, history>>
      /\ released' = IF s = "Terminated" THEN released \cup {e} ELSE released
  BY DEF Stores, SetState, Set, Plan
<1>2. Earned(e, s) /\ s \in States
  BY <1>1 DEF KcpInv, TypeOK, Actors
<1> HIDE DEF s
<1>3. PICK window \in SUBSET snd[e] : Handles(e, window)
  BY StoresHandles
<1>4. Sends(e, window) /\ Takes(e) /\ Covered(e, window)
  BY <1>3 DEF Handles
<1>5. Grows /\ WindowsOK' /\ NothingLost' /\ AckIsKept'
  BY <1>1, <1>4, HandledGrows, HandledWindows, HandledKeepsData, HandledKeepsAcks
<1>6. TypeOK'
  <2>1. st' \in [Ends -> States] /\ plan' \in [Ends -> [Actors -> States \cup {None}]]
    BY <1>1, <1>2 DEF KcpInv, TypeOK, Actors
  <2>2. /\ net' \subseteq Datagrams /\ inbox' \in [Ends -> SUBSET Datagrams]
        /\ released' \cup called' \cup hurried' \subseteq Ends
    BY <1>1 DEF KcpInv, TypeOK, history
  <2> QED
    BY <1>5, <2>1, <2>2, WindowsType
<1>7. ASSUME NEW x \in Ends PROVE Earned(x, st[x])'
  <2>1. Earned(x, st'[x])
    BY <1>1, <1>2 DEF KcpInv, TypeOK
  <2>2. st'[x] \in States
    BY <1>6 DEF TypeOK
  <2> QED
    BY <1>5, <2>1, DoneStays DEF Earned, Grows, KcpInv
<1>8. ASSUME NEW x \in Ends, NEW b \in Actors PROVE Earned(x, plan[x][b])'
  <2>1. plan'[x][b] = IF x = e /\ b = a THEN None ELSE plan[x][b]
    BY <1>1 DEF KcpInv, TypeOK, Actors
  <2>2. CASE x = e /\ b = a
    BY <2>1, <2>2 DEF Earned, None, Ended
  <2>3. CASE ~(x = e /\ b = a)
    BY <1>5, <2>1, <2>3, EarnedStays DEF KcpInv, Earned
  <2> QED
    BY <2>2, <2>3
<1>9. \A x \in Ends : plan'[x]["input"] = plan[x]["input"]
  BY <1>1 DEF KcpInv, TypeOK, Actors
<1>10. \A x \in Ends : Waiting(x)'
  BY <1>1, <1>5, <1>6, <1>9, LettersStay DEF Waiting, KcpInv
<1>11. \A m \in net' : Honest(m)'
  BY <1>1, <1>5, <1>6, LettersStay
<1> QED
  BY <1>5, <1>6, <1>7, <1>8, <1>10, <1>11 DEF KcpInv, WindowsOK

LEMMA InputStoresHandles ==
  ASSUME KcpInv, NEW e \in Ends, InputStores(e)
  PROVE  \E window \in SUBSET snd[e] : Handles(e, window)
<1> DEFINE s == plan[e]["input"]
           window == IF ClosesWrite(s) THEN {} ELSE snd[e]
<1>1. PICK m \in inbox[e] : Process(e, m, window)
  BY DEF InputStores
<1>2. m \in Datagrams /\ m.to = e /\ Honest(m)
  BY DEF KcpInv, TypeOK, Waiting
<1>3. Earned(e, s)
  BY DEF KcpInv, Actors
<1>4. window \in SUBSET snd[e] /\ Covered(e, window)
  BY <1>3, ClosingCovers
<1> HIDE DEF s, window
<1>5. PICK w \in SUBSET snd[e] : w = window
  BY <1>4
<1>6. Process(e, m, w)
  BY <1>1, <1>5 DEF Process, Acknowledge, Set
<1>7. Sends(e, w) /\ Takes(e)
  BY <1>2, <1>6, ProcessStep
<1>8. Covered(e, w)
  BY <1>4, <1>5 DEF Covered
<1> QED
  BY <1>7, <1>8 DEF Handles

LEMMA InputStoresStep ==
  ASSUME KcpInv, NEW e \in Ends, InputStores(e)
  PROVE  KcpInv'
<1> DEFINE s == plan[e]["input"]
<1>1. /\ plan' = [plan EXCEPT ![e]["input"] = None]
      /\ st' = [st EXCEPT ![e] = s] /\ inbox' = [inbox EXCEPT ![e] = {}]
      /\ UNCHANGED <<net, history>>
      /\ released' = IF s = "Terminated" THEN released \cup {e} ELSE released
  BY DEF InputStores, Set, Plan
<1>2. inbox[e] # {}
  BY DEF InputStores
<1>3. s # None
  BY <1>2 DEF KcpInv, TypeOK, Waiting
<1>4. Earned(e, s) /\ s \in States
  BY <1>3 DEF KcpInv, TypeOK, Actors
<1> HIDE DEF s
<1>5. PICK window \in SUBSET snd[e] : Handles(e, window)
  BY InputStoresHandles
<1>6. Sends(e, window) /\ Takes(e) /\ Covered(e, window)
  BY <1>5 DEF Handles
<1>7. Grows /\ WindowsOK' /\ NothingLost' /\ AckIsKept'
  BY <1>1, <1>6, HandledGrows, HandledWindows, HandledKeepsData, HandledKeepsAcks
<1>8. TypeOK'
  <2>1. st' \in [Ends -> States] /\ plan' \in [Ends -> [Actors -> States \cup {None}]]
    BY <1>1, <1>4 DEF KcpInv, TypeOK, Actors
  <2>2. /\ net' \subseteq Datagrams /\ inbox' \in [Ends -> SUBSET Datagrams]
        /\ released' \cup called' \cup hurried' \subseteq Ends
    BY <1>1 DEF KcpInv, TypeOK, history
  <2> QED
    BY <1>7, <2>1, <2>2, WindowsType
<1>9. ASSUME NEW x \in Ends PROVE Earned(x, st[x])'
  <2>1. Earned(x, st'[x])
    BY <1>1, <1>4 DEF KcpInv, TypeOK
  <2> QED
    BY <1>7, <2>1, DoneStays DEF Earned, Grows, KcpInv
<1>10. ASSUME NEW x \in Ends, NEW b \in Actors PROVE Earned(x, plan[x][b])'
  <2>1. plan'[x][b] = IF x = e /\ b = "input" THEN None ELSE plan[x][b]
    BY <1>1 DEF KcpInv, TypeOK, Actors
  <2>2. CASE x = e /\ b = "input"
    BY <2>1, <2>2 DEF Earned, None, Ended
  <2>3. CASE ~(x = e /\ b = "input")
    BY <1>7, <2>1, <2>3, EarnedStays DEF KcpInv, Earned
  <2> QED
    BY <2>2, <2>3
<1>11. ASSUME NEW x \in Ends PROVE Waiting(x)'
  <2>1. inbox'[x] = IF x = e THEN {} ELSE inbox[x]
    BY <1>1 DEF KcpInv, TypeOK
  <2>2. x # e => plan'[x]["input"] = plan[x]["input"]
    BY <1>1 DEF KcpInv, TypeOK, Actors
  <2> QED
    BY <1>7, <1>8, <2>1, <2>2, LettersStay DEF Waiting, KcpInv
<1>12. \A k \in net' : Honest(k)'
  BY <1>1, <1>7, <1>8, LettersStay
<1> QED
  BY <1>7, <1>8, <1>9, <1>10, <1>11, <1>12 DEF KcpInv, WindowsOK

(* A datagram without a decision is handled at once.                         *)
LEMMA ReceiveHandles ==
  ASSUME KcpInv, NEW m \in net, Receive(m), Decision(st[m.to], m) = None
  PROVE  \E window \in SUBSET snd[m.to] : Handles(m.to, window)
<1> DEFINE e == m.to
<1>1. m \in Datagrams /\ e \in Ends /\ Honest(m)
  BY DatagramTypes DEF KcpInv, TypeOK
<1>2. Process(e, m, snd[e])
  BY DEF Receive
<1>3. PICK w \in SUBSET snd[e] : w = snd[e]
  OBVIOUS
<1>4. Process(e, m, w)
  BY <1>2, <1>3 DEF Process, Acknowledge, Set
<1>5. Sends(e, w) /\ Takes(e)
  BY <1>1, <1>4, ProcessStep
<1>6. Covered(e, w)
  BY <1>1, <1>3 DEF KcpInv, NothingLost, Covered, Sure
<1> QED
  BY <1>5, <1>6 DEF Handles

LEMMA ReceiveStep ==
  ASSUME KcpInv, NEW m \in net, Receive(m)
  PROVE  KcpInv'
<1> DEFINE e == m.to
           s == Decision(st[e], m)
<1>1. m \in Datagrams /\ e \in Ends /\ Honest(m)
  BY DatagramTypes DEF KcpInv, TypeOK
<1>2. Earned(e, s) /\ s \in States \cup {None}
  BY <1>1, DecisionEarned
<1>3. CASE s = None
  <2>1. UNCHANGED <<plan, inbox, net, st, released, history>>
    BY <1>3 DEF Receive
  <2>2. PICK window \in SUBSET snd[e] : Handles(e, window)
    BY <1>3, ReceiveHandles
  <2>3. Sends(e, window) /\ Takes(e) /\ Covered(e, window)
    BY <2>2 DEF Handles
  <2>4. Grows /\ WindowsOK' /\ NothingLost' /\ AckIsKept'
    BY <1>1, <2>1, <2>3, HandledGrows, HandledWindows, HandledKeepsData, HandledKeepsAcks
  <2>5. TypeOK'
    BY <2>1, <2>4, WindowsType DEF KcpInv, TypeOK, history
  <2>6. ASSUME NEW x \in Ends
        PROVE  /\ Waiting(x)' /\ Earned(x, st[x])'
               /\ \A a \in Actors : Earned(x, plan[x][a])'
    <3>1. Waiting(x)'
      BY <2>1, <2>4, <2>5, LettersStay DEF Waiting, KcpInv
    <3>2. Earned(x, st[x]) /\ \A a \in Actors : Earned(x, plan[x][a])
      BY DEF KcpInv
    <3>3. Earned(x, st[x])' /\ \A a \in Actors : Earned(x, plan[x][a])'
      BY <2>1, <2>4, <3>2, EarnedStays DEF KcpInv, Earned
    <3> QED
      BY <3>1, <3>3
  <2>7. \A k \in net' : Honest(k)'
    BY <2>1, <2>4, <2>5, LettersStay
  <2> QED
    BY <2>4, <2>5, <2>6, <2>7 DEF KcpInv, WindowsOK
<1>4. CASE s # None
  <2>1. /\ inbox' = [inbox EXCEPT ![e] = {m}] /\ plan' = [plan EXCEPT ![e]["input"] = s]
        /\ UNCHANGED <<net, st, released, sending, receiving, called, hurried>>
    BY <1>4 DEF Receive, Set, Plan, history
  <2> HIDE DEF s, e
  <2>2. Grows /\ WindowsOK' /\ NothingLost' /\ AckIsKept'
    BY <2>1, StillWindows
  <2>3. TypeOK'
    <3>1. plan' \in [Ends -> [Actors -> States \cup {None}]]
      BY <1>2, <2>1 DEF KcpInv, TypeOK, Actors
    <3>2. inbox' \in [Ends -> SUBSET Datagrams]
      BY <1>1, <2>1 DEF KcpInv, TypeOK
    <3> QED
      BY <2>1, <2>2, <3>1, <3>2, WindowsType DEF KcpInv, TypeOK
  <2>4. \A x \in Ends : Earned(x, st[x])'
    BY <2>1, <2>2, EarnedStays DEF KcpInv, Earned
  <2>5. ASSUME NEW x \in Ends, NEW b \in Actors PROVE Earned(x, plan[x][b])'
    <3>1. plan'[x][b] = IF x = e /\ b = "input" THEN s ELSE plan[x][b]
      BY <2>1 DEF KcpInv, TypeOK, Actors
    <3>2. Earned(x, plan'[x][b])
      BY <1>2, <3>1 DEF KcpInv
    <3> QED
      BY <2>2, <3>2, DoneStays DEF Earned, Grows, KcpInv
  <2>6. ASSUME NEW x \in Ends PROVE Waiting(x)'
    <3>1. inbox'[x] = IF x = e THEN {m} ELSE inbox[x]
      BY <2>1 DEF KcpInv, TypeOK
    <3>2. plan'[x]["input"] = IF x = e THEN s ELSE plan[x]["input"]
      BY <2>1 DEF KcpInv, TypeOK, Actors
    <3>3. Honest(m)' /\ m.to = e
      BY <1>1, <2>2, <2>3, LettersStay DEF e
    <3> QED
      BY <1>4, <2>2, <2>3, <3>1, <3>2, <3>3, LettersStay DEF Waiting, KcpInv
  <2>7. \A k \in net' : Honest(k)'
    BY <2>1, <2>2, <2>3, LettersStay
  <2> QED
    BY <2>2, <2>3, <2>4, <2>5, <2>6, <2>7 DEF KcpInv, WindowsOK
<1> QED
  BY <1>3, <1>4

-----------------------------------------------------------------------------
LEMMA KcpInit == Init => KcpInv
<1> SUFFICES ASSUME Init PROVE KcpInv
  OBVIOUS
<1>1. /\ st = [e \in Ends |-> "Active"] /\ plan = [e \in Ends |-> [a \in Actors |-> None]]
      /\ inbox = [e \in Ends |-> {}] /\ snd = [e \in Ends |-> {}] /\ nxt = [e \in Ends |-> 0]
      /\ una = [e \in Ends |-> 0] /\ rcv = [e \in Ends |-> {}] /\ rnext = [e \in Ends |-> 0]
      /\ acks = [e \in Ends |-> {}] /\ net = {} /\ released = {} /\ called = {} /\ hurried = {}
  BY DEF Init, All
<1>2. \A e \in Ends : Cardinality(snd[e]) <= SendWindow + 1
  BY <1>1, FS_EmptySet, KcpAssumption
<1>3. TypeOK
  BY <1>1, <1>2 DEF TypeOK, States
<1>4. \A e \in Ends : /\ Behind(e) /\ Waiting(e) /\ Earned(e, st[e])
                      /\ \A a \in Actors : Earned(e, plan[e][a])
  BY <1>1, Peers DEF Behind, Waiting, Earned, Ended, None
<1>5. NothingLost /\ AckIsKept
  BY <1>1 DEF NothingLost, AckIsKept
<1> QED
  BY <1>1, <1>3, <1>4, <1>5 DEF KcpInv

LEMMA KcpStep == KcpInv /\ [Next]_vars => KcpInv'
<1> SUFFICES ASSUME KcpInv, [Next]_vars PROVE KcpInv'
  OBVIOUS
<1>1. ASSUME NEW e \in Ends, Write(e) PROVE KcpInv'
  BY <1>1, WriteStep
<1>2. ASSUME NEW e \in Ends, ReadData(e) PROVE KcpInv'
  BY <1>2, ReadDataStep
<1>3. ASSUME NEW e \in Ends, CloseReads(e) PROVE KcpInv'
  BY <1>3, CloseReadsStep
<1>4. ASSUME NEW e \in Ends, Stores(e, "app") \/ Stores(e, "flush") PROVE KcpInv'
  BY <1>4, StoresStep
<1>5. ASSUME NEW e \in Ends, InputStores(e) PROVE KcpInv'
  BY <1>5, InputStoresStep
<1>6. ASSUME NEW e \in Ends, NEW late \in BOOLEAN, FlushDecides(e, late) PROVE KcpInv'
  BY <1>6, FlushDecidesStep
<1>7. ASSUME NEW e \in Ends, FlushTerminates(e) \/ FlushSends(e) PROVE KcpInv'
  BY <1>7, FlushSendsStep
<1>8. ASSUME NEW m \in net, Receive(m) PROVE KcpInv'
  BY <1>8, ReceiveStep
<1>9. ASSUME NEW m \in net, Lose(m) PROVE KcpInv'
  BY <1>9, LoseStep
<1>10. CASE UNCHANGED vars
  <2>1. /\ UNCHANGED <<st, plan, inbox, sending, receiving, released, history>>
        /\ \A m \in net' : m \in net \/ (m \in Datagrams /\ Honest(m))
    BY <1>10 DEF vars
  <2> QED
    BY <2>1, NetStep
<1> QED
  BY <1>1, <1>2, <1>3, <1>4, <1>5, <1>6, <1>7, <1>8, <1>9, <1>10 DEF Next

LEMMA KcpInductive == Spec => []KcpInv
<1>1. Init => KcpInv
  BY KcpInit
<1>2. KcpInv /\ [Next]_vars => KcpInv'
  BY KcpStep
<1> QED
  BY <1>1, <1>2, PTL DEF Spec

(* The windows of both ends stay typed and within their sizes (ReceivingWorker *)
(* ProcessSegment, SendingWorker Push).                                        *)
THEOREM WindowsBounded == Spec => []TypeOK
<1>1. KcpInv => TypeOK
  BY DEF KcpInv
<1> QED
  BY <1>1, KcpInductive, PTL

(* A segment leaves the sending window only when the peer has it, whatever the *)
(* network does and however Close, Input and flush overtake each other, until  *)
(* the peer closes or the sender gives up (SendingWindow Clear, CloseWrite).   *)
THEOREM NothingLostHolds == Spec => []NothingLost
<1>1. KcpInv => NothingLost
  BY DEF KcpInv
<1> QED
  BY <1>1, KcpInductive, PTL

(* What the sender still repeats and the peer has, the peer still acknowledges *)
(* (AckList Clear, ProcessSendingNext).                                        *)
THEOREM AckIsKeptHolds == Spec => []AckIsKept
<1>1. KcpInv => AckIsKept
  BY DEF KcpInv
<1> QED
  BY <1>1, KcpInductive, PTL

(* A reader at the end of file has all that the peer wrote (ReadMultiBuffer).  *)
THEOREM EndIsCleanHolds == Spec => []EndIsClean
<1>1. KcpInv => EndIsClean
  <2> SUFFICES ASSUME KcpInv, NEW e \in Ends \ called, st[e] = "PeerTerminating", ~HasData(e),
                      Peer(e) \notin hurried
               PROVE  rnext[e] = nxt[Peer(e)]
    BY DEF EndIsClean
  <2>1. /\ Peer(e) \in Ends /\ Peer(Peer(e)) = e /\ rnext[e] \in Nat /\ nxt[Peer(e)] \in Nat
        /\ Behind(e)
    BY Peers DEF KcpInv, TypeOK
  <2>2. AllDone
    BY DEF KcpInv, Earned, Ended
  <2>3. \A n \in 0 .. nxt[Peer(e)] - 1 : Got(e, n)
    BY <2>1, <2>2 DEF AllDone, Sure, Done
  <2>4. ~Got(e, rnext[e])
    BY <2>1 DEF HasData, Got
  <2>5. rnext[e] <= nxt[Peer(e)]
    BY <2>1 DEF Behind
  <2> QED
    BY <2>1, <2>3, <2>4, <2>5
<1> QED
  BY <1>1, KcpInductive, PTL
-----------------------------------------------------------------------------
(* The conversation implements SegmentLine.                                  *)
LEMMA ArrivedIs ==
  /\ \A e \in Ends : \A n : n \in Arrived[e] <=> n \in 0 .. nxt[Peer(e)] - 1 /\ Got(e, n)
  /\ \A e \in Ends : \A n : n \in Arrived'[e] <=> n \in 0 .. nxt'[Peer(e)] - 1 /\ Got(e, n)'
  /\ DOMAIN Arrived = Ends /\ DOMAIN Arrived' = Ends
  /\ Arrived = [e \in Ends |-> Arrived[e]] /\ Arrived' = [e \in Ends |-> Arrived'[e]]
BY DEF Arrived

(* Only the end that reads or hears may get something new.                   *)
LEMMA SameArrived ==
  ASSUME KcpInv, UNCHANGED <<rcv, rnext>>,
         \A e \in Ends : nxt'[e] = nxt[e] \/ (nxt'[e] = nxt[e] + 1 /\ ~Got(Peer(e), nxt[e]))
  PROVE  Arrived' = Arrived
<1>1. ASSUME NEW e \in Ends, NEW n
      PROVE  n \in Arrived'[e] <=> n \in Arrived[e]
  <2>1. Peer(e) \in Ends /\ Peer(Peer(e)) = e /\ nxt[Peer(e)] \in Nat
    BY Peers DEF KcpInv, TypeOK
  <2>2. Got(e, n)' <=> Got(e, n)
    BY DEF Got
  <2>3. n \in Arrived'[e] <=> n \in 0 .. nxt'[Peer(e)] - 1 /\ Got(e, n)
    BY <2>2, ArrivedIs
  <2>4. n \in Arrived[e] <=> n \in 0 .. nxt[Peer(e)] - 1 /\ Got(e, n)
    BY ArrivedIs
  <2>5. CASE nxt'[Peer(e)] = nxt[Peer(e)]
    BY <2>3, <2>4, <2>5
  <2>6. CASE nxt'[Peer(e)] = nxt[Peer(e)] + 1 /\ ~Got(e, nxt[Peer(e)])
    BY <2>1, <2>3, <2>4, <2>6
  <2> QED
    BY <2>1, <2>5, <2>6
<1>2. \A e \in Ends : Arrived'[e] = Arrived[e]
  BY <1>1
<1> QED
  BY <1>2, ArrivedIs

LEMMA LineWrite == ASSUME KcpInv, NEW e \in Ends, Write(e) PROVE Line!Write(e)
<1>1. /\ e \notin called
      /\ snd' = [snd EXCEPT ![e] = snd[e] \cup {nxt[e]}] /\ nxt' = [nxt EXCEPT ![e] = nxt[e] + 1]
      /\ UNCHANGED <<receiving, history>>
  BY DEF Write, Set
<1>2. nxt \in [Ends -> Nat] /\ snd \in [Ends -> SUBSET Nat] /\ rnext \in [Ends -> Nat]
  BY DEF KcpInv, TypeOK
<1>3. ~Got(Peer(e), nxt[e])
  <2>1. Behind(Peer(e)) /\ Peer(Peer(e)) = e /\ Peer(e) \in Ends
    BY Peers DEF KcpInv
  <2>2. nxt[e] \in Nat /\ rnext[Peer(e)] \in Nat
    BY <1>2, <2>1
  <2>3. ~(nxt[e] < rnext[Peer(e)])
    BY <2>1, <2>2 DEF Behind
  <2>4. nxt[e] \notin rcv[Peer(e)]
    BY <2>1, <2>2 DEF Behind
  <2> QED
    BY <2>3, <2>4 DEF Got
<1>4. Arrived' = Arrived
  <2>1. UNCHANGED <<rcv, rnext>>
    BY <1>1 DEF receiving
  <2>2. \A x \in Ends : nxt'[x] = nxt[x] \/ (nxt'[x] = nxt[x] + 1 /\ ~Got(Peer(x), nxt[x]))
    BY <1>1, <1>2, <1>3
  <2> QED
    BY <2>1, <2>2, SameArrived
<1>5. UNCHANGED <<rnext, called, hurried>>
  BY <1>1 DEF receiving, history
<1> QED
  BY <1>1, <1>4, <1>5 DEF Line!Write

LEMMA LineRead == ASSUME KcpInv, NEW e \in Ends, ReadData(e) PROVE Line!Read(e)
<1>1. PICK n \in rnext[e] + 1 .. rnext[e] + RecvWindow :
        /\ rnext[e] .. n - 1 \subseteq rcv[e] /\ n \notin rcv[e]
        /\ rcv' = [rcv EXCEPT ![e] = rcv[e] \ (rnext[e] .. n - 1)]
        /\ rnext' = [rnext EXCEPT ![e] = n]
  BY DEF ReadData, Set
<1>2. /\ nxt' = nxt /\ snd' = snd /\ called' = called /\ hurried' = hurried
  BY DEF ReadData, sending, history
<1>3. /\ nxt \in [Ends -> Nat] /\ rnext \in [Ends -> Nat] /\ rcv \in [Ends -> SUBSET Nat]
      /\ RecvWindow \in Nat
  BY KcpAssumption DEF KcpInv, TypeOK
<1>4. /\ n \in Nat /\ rnext[e] \in Nat /\ rnext[e] < n
      /\ Peer(e) \in Ends /\ nxt[Peer(e)] \in Nat
  BY <1>3, Peers
<1>5. n <= nxt[Peer(e)]
  <2>1. n - 1 \in rcv[e]
    BY <1>1, <1>4
  <2>2. n - 1 < nxt[Peer(e)]
    BY <2>1 DEF KcpInv, Behind
  <2> QED
    BY <2>2, <1>4
<1>6. rnext[e] .. n - 1 \subseteq Arrived[e]
  <2> SUFFICES ASSUME NEW k \in rnext[e] .. n - 1 PROVE k \in Arrived[e]
    OBVIOUS
  <2>1. k \in 0 .. nxt[Peer(e)] - 1
    BY <1>4, <1>5
  <2>2. Got(e, k)
    BY <1>1 DEF Got
  <2> QED
    BY <2>1, <2>2, ArrivedIs
<1>7. Arrived' = Arrived
  <2>1. ASSUME NEW x \in Ends, NEW k \in Nat PROVE Got(x, k)' <=> Got(x, k)
    <3>1. CASE x = e
      <4>1. rnext'[x] = n /\ rcv'[x] = rcv[e] \ (rnext[e] .. n - 1)
        BY <1>1, <1>3, <3>1
      <4>2. k < n => k < rnext[e] \/ k \in rnext[e] .. n - 1
        BY <1>4
      <4>3. k \in rnext[e] .. n - 1 => k < n
        BY <1>4
      <4>4. k < rnext[e] => k < n
        BY <1>4
      <4> QED
        BY <1>1, <3>1, <4>1, <4>2, <4>3, <4>4 DEF Got
    <3>2. CASE x # e
      BY <1>1, <1>3, <3>2 DEF Got
    <3> QED
      BY <3>1, <3>2
  <2>2. ASSUME NEW x \in Ends, NEW k PROVE k \in Arrived'[x] <=> k \in Arrived[x]
    <3>1. nxt[Peer(x)] \in Nat
      BY <1>3, Peers
    <3>2. k \in Arrived'[x] <=> k \in 0 .. nxt[Peer(x)] - 1 /\ Got(x, k)'
      BY <1>2, ArrivedIs
    <3>3. k \in Arrived[x] <=> k \in 0 .. nxt[Peer(x)] - 1 /\ Got(x, k)
      BY ArrivedIs
    <3>4. k \in 0 .. nxt[Peer(x)] - 1 => k \in Nat
      BY <3>1
    <3> QED
      BY <2>1, <3>2, <3>3, <3>4
  <2> QED
    BY <2>2, ArrivedIs
<1>8. n \in rnext[e] + 1 .. nxt[Peer(e)]
  BY <1>4, <1>5
<1> QED
  BY <1>1, <1>2, <1>6, <1>7, <1>8 DEF Line!Read

(* What an end handles is something it hears.                                *)
LEMMA LineHear ==
  ASSUME KcpInv, NEW e \in Ends, NEW window \in SUBSET snd[e], Handles(e, window),
         UNCHANGED history
  PROVE  Line!Hear(e)
<1>1. Sends(e, window) /\ Takes(e) /\ Covered(e, window)
  BY DEF Handles
<1>2. /\ nxt \in [Ends -> Nat] /\ snd \in [Ends -> SUBSET Nat]
      /\ snd[e] \subseteq una[e] .. nxt[e] - 1 /\ una[e] \in Nat
      /\ Peer(e) \in Ends /\ Peer(Peer(e)) = e
  BY Peers DEF KcpInv, TypeOK
<1>3. nxt' = nxt /\ rnext' = rnext /\ called' = called /\ hurried' = hurried
  BY <1>1 DEF Sends, Takes, history
<1> DEFINE new == Arrived'[e]
           gone == snd[e] \ snd'[e]
<1>4. new \in SUBSET (0 .. nxt[Peer(e)] - 1)
  BY <1>3, ArrivedIs
<1>5. ASSUME NEW n \in gone PROVE Line!MayLetGo(e, n)
  <2>1. n \in snd[e] /\ n \notin snd'[e]
    BY DEF gone
  <2>2. n \in 0 .. nxt[e] - 1
    BY <1>2, <2>1
  <2>3. Sure(e) => Got(Peer(e), n)
    BY <1>1, <2>1, <2>2 DEF Covered, Sends
  <2>4. Sure(e) => n \in Arrived[Peer(e)]
    BY <1>2, <2>2, <2>3, ArrivedIs
  <2> QED
    BY <2>4 DEF Sure, Line!MayLetGo
<1>6. snd' = [snd EXCEPT ![e] = snd[e] \ gone]
  <2>1. snd' \in [Ends -> SUBSET Nat] /\ snd'[e] \subseteq snd[e]
    BY <1>1 DEF Sends
  <2>2. snd'[e] = snd[e] \ gone
    BY <2>1
  <2>3. \A x \in Ends \ {e} : snd'[x] = snd[x]
    BY <1>1 DEF Sends
  <2> HIDE DEF gone
  <2> QED
    BY <1>2, <2>1, <2>2, <2>3
<1>7. Arrived' = [Arrived EXCEPT ![e] = Arrived[e] \cup new]
  <2>1. ASSUME NEW x \in Ends \ {e} PROVE Arrived'[x] = Arrived[x]
    <3>1. rcv'[x] = rcv[x]
      BY <1>1 DEF Takes
    <3>2. \A k : Got(x, k)' <=> Got(x, k)
      BY <1>3, <3>1 DEF Got
    <3>3. \A k : k \in Arrived'[x] <=> k \in Arrived[x]
      BY <1>3, <3>2, ArrivedIs
    <3> QED
      BY <3>3
  <2>2. Arrived[e] \subseteq Arrived'[e]
    <3>1. rcv[e] \subseteq rcv'[e]
      BY <1>1 DEF Takes
    <3>2. \A k : Got(e, k) => Got(e, k)'
      BY <1>3, <3>1 DEF Got
    <3> QED
      BY <1>3, <3>2, ArrivedIs
  <2>3. Arrived'[e] = Arrived[e] \cup new
    BY <2>2
  <2> HIDE DEF new
  <2> QED
    BY <2>1, <2>3, ArrivedIs
<1>8. gone \in SUBSET snd[e]
  OBVIOUS
<1> HIDE DEF new, gone
<1> QED
  BY <1>3, <1>4, <1>5, <1>6, <1>7, <1>8 DEF Line!Hear

(* A step that leaves the windows alone and closes or gives up, or neither.  *)
LEMMA LineRest ==
  ASSUME KcpInv, UNCHANGED <<sending, receiving>>
  PROVE  /\ UNCHANGED history => UNCHANGED Line!lineVars
         /\ \A e \in Ends : called' = called \cup {e} /\ hurried' = hurried => Line!Close(e)
         /\ \A e \in Ends : e \in called /\ hurried' = hurried \cup {e} /\ called' = called
                               => Line!GiveUp(e)
<1>1. UNCHANGED <<snd, nxt, rcv, rnext>>
  BY DEF sending, receiving
<1>2. Arrived' = Arrived
  BY <1>1, SameArrived
<1> QED
  BY <1>1, <1>2 DEF history, Line!lineVars, Line!Close, Line!GiveUp

LEMMA LineInit == Init => Line!Init
<1> SUFFICES ASSUME Init PROVE Line!Init
  OBVIOUS
<1>1. /\ nxt = [e \in Ends |-> 0] /\ rnext = [e \in Ends |-> 0] /\ snd = [e \in Ends |-> {}]
      /\ called = {} /\ hurried = {}
  BY DEF Init, All
<1>2. ASSUME NEW e \in Ends PROVE Arrived[e] = {}
  <2>1. nxt[Peer(e)] = 0
    BY <1>1, Peers
  <2>2. 0 .. nxt[Peer(e)] - 1 = {}
    BY <2>1
  <2> QED
    BY <2>2, ArrivedIs
<1>3. Arrived = [e \in Ends |-> {}]
  BY <1>2, ArrivedIs
<1> QED
  BY <1>1, <1>3 DEF Line!Init

LEMMA LineStep == KcpInv /\ [Next]_vars => [Line!Next]_(Line!lineVars)
<1> SUFFICES ASSUME KcpInv, [Next]_vars PROVE Line!Next \/ UNCHANGED Line!lineVars
  OBVIOUS
<1>1. ASSUME NEW e \in Ends, Write(e) PROVE Line!Next
  BY <1>1, LineWrite DEF Line!Next
<1>2. ASSUME NEW e \in Ends, ReadData(e) PROVE Line!Next
  BY <1>2, LineRead DEF Line!Next
<1>3. ASSUME NEW e \in Ends, CloseReads(e) PROVE Line!Next
  <2>1. UNCHANGED <<sending, receiving>> /\ called' = called \cup {e} /\ hurried' = hurried
    BY <1>3 DEF CloseReads
  <2> QED
    BY <2>1, LineRest DEF Line!Next
<1>4. ASSUME NEW e \in Ends, Stores(e, "app") \/ Stores(e, "flush") PROVE Line!Next
  <2>1. UNCHANGED history
    BY <1>4 DEF Stores
  <2>2. PICK window \in SUBSET snd[e] : Handles(e, window)
    BY <1>4, StoresHandles
  <2> QED
    BY <2>1, <2>2, LineHear DEF Line!Next
<1>5. ASSUME NEW e \in Ends, InputStores(e) PROVE Line!Next
  <2>1. UNCHANGED history
    BY <1>5 DEF InputStores
  <2>2. PICK window \in SUBSET snd[e] : Handles(e, window)
    BY <1>5, InputStoresHandles
  <2> QED
    BY <2>1, <2>2, LineHear DEF Line!Next
<1>6. ASSUME NEW e \in Ends, NEW late \in BOOLEAN, FlushDecides(e, late)
      PROVE  Line!Next \/ UNCHANGED Line!lineVars
  <2>1. UNCHANGED <<sending, receiving>> /\ called' = called
    BY <1>6 DEF FlushDecides
  <2>2. CASE st[e] = "ReadyToClose" /\ snd[e] # {} /\ late
    <3>1. hurried' = hurried \cup {e}
      BY <1>6, <2>2 DEF FlushDecides
    <3>2. e \in called
      BY <2>2 DEF KcpInv, Earned
    <3> QED
      BY <2>1, <3>1, <3>2, LineRest DEF Line!Next
  <2>3. CASE ~(st[e] = "ReadyToClose" /\ snd[e] # {} /\ late)
    <3>1. UNCHANGED history
      BY <1>6, <2>1, <2>3 DEF FlushDecides, history
    <3> QED
      BY <2>1, <3>1, LineRest
  <2> QED
    BY <2>2, <2>3
<1>7. ASSUME NEW e \in Ends, FlushTerminates(e) \/ FlushSends(e)
      PROVE  UNCHANGED Line!lineVars
  <2>1. UNCHANGED <<sending, receiving>> /\ UNCHANGED history
    BY <1>7 DEF FlushTerminates, FlushSends
  <2> QED
    BY <2>1, LineRest
<1>8. ASSUME NEW m \in net, Receive(m) PROVE Line!Next \/ UNCHANGED Line!lineVars
  <2>1. m.to \in Ends /\ UNCHANGED history
    BY <1>8, DatagramTypes DEF KcpInv, TypeOK, Receive
  <2>2. CASE Decision(st[m.to], m) = None
    <3>1. PICK window \in SUBSET snd[m.to] : Handles(m.to, window)
      BY <1>8, <2>2, ReceiveHandles
    <3> QED
      BY <2>1, <3>1, LineHear DEF Line!Next
  <2>3. CASE Decision(st[m.to], m) # None
    <3>1. UNCHANGED <<sending, receiving>>
      BY <1>8, <2>3 DEF Receive
    <3> QED
      BY <2>1, <3>1, LineRest
  <2> QED
    BY <2>2, <2>3
<1>9. ASSUME NEW m \in net, Lose(m) PROVE UNCHANGED Line!lineVars
  <2>1. UNCHANGED <<sending, receiving>> /\ UNCHANGED history
    BY <1>9 DEF Lose
  <2> QED
    BY <2>1, LineRest
<1>10. CASE UNCHANGED vars
  <2>1. UNCHANGED <<sending, receiving>> /\ UNCHANGED history
    BY <1>10 DEF vars
  <2> QED
    BY <2>1, LineRest
<1> QED
  BY <1>1, <1>2, <1>3, <1>4, <1>5, <1>6, <1>7, <1>8, <1>9, <1>10 DEF Next

(* Between the applications the two windows and what repeats, delays or loses  *)
(* their datagrams are a reliable line: what is read is what was written, in   *)
(* order and once (ReadMultiBuffer, ProcessSegment), and the sender lets go of *)
(* a segment only when the peer has it, was closed, or the sender gave up.     *)
THEOREM LineImplemented == Spec => ImplementsLine
<1>1. Init => Line!Init
  BY LineInit
<1>2. KcpInv /\ [Next]_vars => [Line!Next]_(Line!lineVars)
  BY LineStep
<1> QED
  BY <1>1, <1>2, KcpInductive, PTL DEF Spec, ImplementsLine, Line!Spec

=============================================================================
