--------------------------- MODULE RealityPrecheck --------------------------
(***************************************************************************)
(* The QUIC precheck in front of quic-go                                   *)
(* (transport/internet/splithttp/reality_precheck_conn.go): one read loop  *)
(* owns the UDP socket, holds the datagrams of an unknown client until its *)
(* ClientHello is complete, then sends the flow either to the AUTH queue   *)
(* that quic-go reads or to the relay.  A reaper, Close and quic-go's      *)
(* reader run beside it.                                                   *)
(*                                                                         *)
(* The read loop keeps the *precheckClientState it found under c.mu and    *)
(* uses it after the unlock, when Close may have replaced the map: `table' *)
(* is the key set of c.states, `state' holds the objects, and the object   *)
(* of the read loop's current client may be an orphan.                     *)
(*                                                                         *)
(* Datagrams are records.  `kind' says what the classifier and the parser  *)
(* make of the bytes; an "initial" carries a set of CRYPTO fragments, each *)
(* a position of the ClientHello and whether its bytes are those of a      *)
(* hello the verifier accepts.                                             *)
(***************************************************************************)
EXTENDS Naturals, Sequences, FiniteSets

CONSTANTS
  Clients,          \* client addresses (addr.String())
  IPs, IPOf,        \* addrIPKey of each client address
  Pieces,           \* the CRYPTO fragments a ClientHello is cut into
  Inputs,           \* the datagrams that may arrive
  MaxStates,        \* precheckMaxStates
  MaxPerIP,         \* precheckMaxPerIP
  QueueSize,        \* precheckQueueSize
  MaxPendingPkts,   \* precheckMaxPendingPkts
  MaxPendingBytes,  \* precheckMaxPendingBytes
  Timeout,          \* relayTimeout(), in ticks
  BatchSize,        \* precheckReadBatchSize
  MaxArrivals,      \* bound: datagrams that arrive in one behaviour
  None              \* nil

Kinds == {"short",      \* obviousNonInitialV1
          "noninitial", \* Initial-shaped, but the parser says it is none
          "malformed",  \* an Initial that does not decrypt, or with bad frames
          "initial"}    \* an Initial whose CRYPTO fragments parse

Fragments == [at: Pieces, genuine: BOOLEAN]

ASSUME ClientsFinite == IsFiniteSet(Clients) /\ None \notin Clients
ASSUME IPOfClients == IPOf \in [Clients -> IPs]
ASSUME InputsAssumption ==
  Inputs \subseteq [client: Clients, kind: Kinds, frags: SUBSET Fragments, size: Nat]
ASSUME LimitAssumption ==
  /\ MaxStates \in Nat /\ MaxPerIP \in Nat /\ QueueSize \in Nat
  /\ MaxPendingPkts \in Nat /\ MaxPendingBytes \in Nat
  /\ Timeout \in Nat \ {0} /\ BatchSize \in Nat \ {0} /\ MaxArrivals \in Nat

VARIABLES
  table,     \* keys of c.states
  state,     \* the precheckClientState object of each client (`born', the
             \* datagram that created it, is history)
  ipCount,   \* c.perIP (a missing key counts 0)
  queue,     \* c.queue
  loop,      \* the read loop: where it is, its datagram, its flush in progress
  batch,     \* datagrams of the current ReadBatch not handled yet
  arrived,   \* history: datagrams read from the socket so far, in order
  served,    \* history: datagrams quic-go took from the queue
  relayed,   \* history: datagrams handed to the relay
  lost,      \* history: datagrams dropped, and why
  stage      \* progress of Close, of the reaper and of quic-go's reader

vars == <<table, state, ipCount, queue, loop, batch, arrived, served, relayed, lost, stage>>

EmptyState == [phase |-> "pending", age |-> 0, life |-> 0, pending |-> <<>>,
               bytes |-> 0, crypto |-> {}, born |-> 0]
AtRest == [at |-> "read", pkt |-> 0, flush |-> <<>>, to |-> "none"]

Ids == 1..MaxArrivals
ClientOf(id) == arrived[id].client
Held(c) == {state[c].pending[i] : i \in DOMAIN state[c].pending}
Count(ip) == Cardinality({c \in table : IPOf[c] = ip})

States == [phase: {"pending", "auth", "relay"}, age: 0..(Timeout + 1), life: 0..(Timeout + 1),
           pending: Seq(Ids), bytes: Nat, crypto: SUBSET Fragments, born: Ids \cup {0}]

LoopStates == [at: {"read", "decide", "flush", "exit"}, pkt: Ids \cup {0},
               flush: Seq(Ids), to: {"none", "auth", "relay"}]

Stages == [close: {"open", "closing", "reset", "shut"},
           reaper: {"running", "done"}, quic: {"running", "done"}]

TypeOK ==
  /\ table \subseteq Clients
  /\ state \in [Clients -> States]
  /\ ipCount \in [IPs -> Nat]
  /\ queue \in Seq(Ids)
  /\ loop \in LoopStates
  /\ batch \in 0..BatchSize
  /\ arrived \in Seq(Inputs)
  /\ served \in Seq(Ids)
  /\ relayed \in Seq(Ids)
  /\ lost \subseteq (Ids \X {"noninitial", "full", "closed", "idle"})
  /\ stage \in Stages

Init ==
  /\ table = {}
  /\ state = [c \in Clients |-> EmptyState]
  /\ ipCount = [ip \in IPs |-> 0]
  /\ queue = <<>>
  /\ loop = AtRest
  /\ batch = 0
  /\ arrived = <<>>
  /\ served = <<>>
  /\ relayed = <<>>
  /\ lost = {}
  /\ stage = [close |-> "open", reaper |-> "running", quic |-> "running"]

-----------------------------------------------------------------------------
(* handlePacket: the read from the socket and the section under c.mu.      *)

AtLimit(c) == Cardinality(table) >= MaxStates \/ ipCount[IPOf[c]] >= MaxPerIP
Undecided(c) == c \notin table \/ state[c].phase = "pending"

(* A datagram arrives: the first of a ReadBatch, or the next of the current *)
(* one, which is handled even when the socket has been closed meanwhile.    *)
Arrives(d) ==
  /\ loop.at = "read"
  /\ Len(arrived) < MaxArrivals
  /\ arrived' = Append(arrived, d)
  /\ \/ /\ batch = 0 /\ stage.close # "shut"
        /\ batch' \in {n \in 0..(BatchSize - 1) : Len(arrived) + n < MaxArrivals}
     \/ batch > 0 /\ batch' = batch - 1

NewId == Len(arrived) + 1

(* Before the decision, anything that is obviously no Initial is dropped. *)
DropObvious(d) ==
  /\ Arrives(d)
  /\ Undecided(d.client) /\ d.kind = "short"
  /\ lost' = lost \cup {<<NewId, "noninitial">>}
  /\ UNCHANGED <<table, state, ipCount, queue, loop, served, relayed, stage>>

(* No room for a state: confirmed non-Initials are dropped, the rest is *)
(* relayed without a state that would remember the decision.            *)
DropAtLimit(d) ==
  /\ Arrives(d)
  /\ d.client \notin table /\ d.kind = "noninitial" /\ AtLimit(d.client)
  /\ lost' = lost \cup {<<NewId, "noninitial">>}
  /\ UNCHANGED <<table, state, ipCount, queue, loop, served, relayed, stage>>

(* Mutant: at capacity, junk is relayed as well. *)
RelayAtLimitUnparsed(d) ==
  /\ Arrives(d)
  /\ d.client \notin table /\ d.kind # "short" /\ AtLimit(d.client)
  /\ loop' = [at |-> "flush", pkt |-> NewId, flush |-> <<NewId>>, to |-> "relay"]
  /\ UNCHANGED <<table, state, ipCount, queue, served, relayed, lost, stage>>

RelayAtLimit(d) ==
  /\ Arrives(d)
  /\ d.client \notin table /\ d.kind \notin {"short", "noninitial"} /\ AtLimit(d.client)
  /\ loop' = [at |-> "flush", pkt |-> NewId, flush |-> <<NewId>>, to |-> "relay"]
  /\ UNCHANGED <<table, state, ipCount, queue, served, relayed, lost, stage>>

(* A new client gets a pending state. *)
NewClient(d) ==
  /\ Arrives(d)
  /\ d.client \notin table /\ d.kind # "short" /\ ~AtLimit(d.client)
  /\ table' = table \cup {d.client}
  /\ state' = [state EXCEPT ![d.client] = [EmptyState EXCEPT !.born = NewId]]
  /\ ipCount' = [ipCount EXCEPT ![IPOf[d.client]] = @ + 1]
  /\ loop' = [at |-> "decide", pkt |-> NewId, flush |-> <<>>, to |-> "none"]
  /\ UNCHANGED <<queue, served, relayed, lost, stage>>

(* A known client: refresh lastSeen; a decided flow needs no parsing. *)
KnownClient(d) ==
  /\ Arrives(d)
  /\ d.client \in table
  /\ Undecided(d.client) => d.kind # "short"
  /\ state' = [state EXCEPT ![d.client].age = 0]
  /\ loop' = IF Undecided(d.client)
             THEN [at |-> "decide", pkt |-> NewId, flush |-> <<>>, to |-> "none"]
             ELSE [at |-> "flush", pkt |-> NewId, flush |-> <<NewId>>,
                   to |-> state[d.client].phase]
  /\ UNCHANGED <<table, ipCount, queue, served, relayed, lost, stage>>

HandlePacket(d) ==
  \/ DropObvious(d)
  \/ DropAtLimit(d)
  \/ RelayAtLimit(d)
  \/ NewClient(d)
  \/ KnownClient(d)

-----------------------------------------------------------------------------
(* decidePending: parsing and reassembly are local to the read loop; the   *)
(* decision is stored under c.mu.                                          *)

Current == ClientOf(loop.pkt)
Packet == arrived[loop.pkt]

(* Mutants: any bytes make a hello; the limits are checked late. *)
CompleteEarly(frags) == frags # {}
HoldLimitLate ==
  \/ Len(state[Current].pending) > MaxPendingPkts
  \/ state[Current].bytes + Packet.size > MaxPendingBytes + 1
  \/ state[Current].life > Timeout

Conflict(frags) == \E f, g \in frags : f.at = g.at /\ f.genuine # g.genuine
Complete(frags) == {f.at : f \in frags} = Pieces
Verified(frags) == \A f \in frags : f.genuine

(* The CRYPTO stream of the current client with the current datagram in it. *)
Stream == state[Current].crypto \cup Packet.frags

HoldLimit ==
  \/ Len(state[Current].pending) + 1 > MaxPendingPkts
  \/ state[Current].bytes + Packet.size > MaxPendingBytes
  \/ state[Current].life > Timeout

(* The decision on the current datagram. *)
Verdict ==
  CASE Packet.kind = "noninitial" -> "forget"
    [] Packet.kind # "noninitial" /\ (Packet.kind = "malformed" \/ Conflict(Stream)) -> "relay"
    [] Packet.kind = "initial" /\ ~Conflict(Stream) /\ ~Complete(Stream) ->
         IF HoldLimit THEN "relay" ELSE "hold"
    [] OTHER -> IF Verified(Stream) THEN "auth" ELSE "relay"

(* forgetEmptyPending: junk must not keep a state that holds nothing. *)
(* Mutant: forgetEmptyPending does not ask whether the map still holds st. *)
ForgetOrphan ==
  /\ loop.at = "decide" /\ Verdict = "forget"
  /\ IF state[Current].pending = <<>> /\ state[Current].crypto = {}
     THEN /\ table' = table \ {Current}
          /\ ipCount' = [ipCount EXCEPT ![IPOf[Current]] = @ - 1]
     ELSE UNCHANGED <<table, ipCount>>
  /\ state' = IF Current \in table' THEN state ELSE [state EXCEPT ![Current] = EmptyState]
  /\ lost' = lost \cup {<<loop.pkt, "noninitial">>}
  /\ loop' = AtRest
  /\ UNCHANGED <<queue, batch, arrived, served, relayed, stage>>

ForgetEmptyPending ==
  /\ loop.at = "decide" /\ Verdict = "forget"
  /\ IF /\ Current \in table
        /\ state[Current].pending = <<>> /\ state[Current].crypto = {}
     THEN /\ table' = table \ {Current}
          /\ ipCount' = [ipCount EXCEPT ![IPOf[Current]] = @ - 1]
     ELSE UNCHANGED <<table, ipCount>>
  /\ state' = IF Current \in table' THEN state ELSE [state EXCEPT ![Current] = EmptyState]
  /\ lost' = lost \cup {<<loop.pkt, "noninitial">>}
                   \cup {<<id, "closed">> : id \in IF Current \in table THEN {} ELSE Held(Current)}
  /\ loop' = AtRest
  /\ UNCHANGED <<queue, batch, arrived, served, relayed, stage>>

(* The ClientHello is incomplete: hold the datagram.  An orphan state dies *)
(* here with what it holds.                                                 *)
Hold ==
  /\ loop.at = "decide" /\ Verdict = "hold"
  /\ IF Current \in table
     THEN /\ state' = [state EXCEPT ![Current].pending = Append(@, loop.pkt),
                                    ![Current].bytes = @ + Packet.size,
                                    ![Current].crypto = Stream]
          /\ UNCHANGED lost
     ELSE /\ state' = [state EXCEPT ![Current] = EmptyState]
          /\ lost' = lost \cup {<<id, "closed">> : id \in Held(Current) \cup {loop.pkt}}
  /\ loop' = AtRest
  /\ UNCHANGED <<table, ipCount, queue, batch, arrived, served, relayed, stage>>

(* Mutants: the current datagram goes before those that were held; the *)
(* decision is flushed but not stored.                                   *)
DecideSwapped ==
  /\ loop.at = "decide" /\ Verdict \in {"auth", "relay"}
  /\ state' = [state EXCEPT ![Current].phase = Verdict, ![Current].pending = <<>>,
                            ![Current].bytes = 0, ![Current].crypto = {}]
  /\ loop' = [loop EXCEPT !.at = "flush", !.to = Verdict,
                          !.flush = <<loop.pkt>> \o state[Current].pending]
  /\ UNCHANGED <<table, ipCount, queue, batch, arrived, served, relayed, lost, stage>>

DecideUnstored ==
  /\ loop.at = "decide" /\ Verdict \in {"auth", "relay"}
  /\ state' = [state EXCEPT ![Current].pending = <<>>, ![Current].bytes = 0, ![Current].crypto = {}]
  /\ loop' = [loop EXCEPT !.at = "flush", !.to = Verdict,
                          !.flush = Append(state[Current].pending, loop.pkt)]
  /\ UNCHANGED <<table, ipCount, queue, batch, arrived, served, relayed, lost, stage>>

(* AUTH or RELAY: store the decision, then flush what is held and the *)
(* current datagram in arrival order.                                  *)
Decide ==
  /\ loop.at = "decide" /\ Verdict \in {"auth", "relay"}
  /\ state' = [state EXCEPT ![Current].phase = Verdict, ![Current].pending = <<>>,
                            ![Current].bytes = 0, ![Current].crypto = {}]
  /\ loop' = [loop EXCEPT !.at = "flush", !.to = Verdict,
                          !.flush = Append(state[Current].pending, loop.pkt)]
  /\ UNCHANGED <<table, ipCount, queue, batch, arrived, served, relayed, lost, stage>>

(* One datagram of the flush is done; an orphan state dies with the last. *)
FlushNext ==
  /\ loop' = IF Len(loop.flush) = 1 THEN AtRest ELSE [loop EXCEPT !.flush = Tail(@)]
  /\ state' = IF Len(loop.flush) = 1 /\ Current \notin table
              THEN [state EXCEPT ![Current] = EmptyState] ELSE state
  /\ UNCHANGED <<table, ipCount, batch, arrived, served, stage>>

(* enqueue: a select over the queue, c.closed and default. *)
Enqueue ==
  /\ loop.at = "flush" /\ loop.to = "auth"
  /\ \/ /\ Len(queue) < QueueSize
        /\ queue' = Append(queue, Head(loop.flush))
        /\ UNCHANGED lost
     \/ /\ stage.close # "open"
        /\ lost' = lost \cup {<<Head(loop.flush), "closed">>}
        /\ UNCHANGED queue
     \/ /\ Len(queue) >= QueueSize /\ stage.close = "open"
        /\ lost' = lost \cup {<<Head(loop.flush), "full">>}
        /\ UNCHANGED queue
  /\ FlushNext
  /\ UNCHANGED relayed

(* relay.relayClientToDest: RealityRelay says what becomes of the datagram. *)
HandToRelay ==
  /\ loop.at = "flush" /\ loop.to = "relay"
  /\ relayed' = Append(relayed, Head(loop.flush))
  /\ FlushNext
  /\ UNCHANGED <<queue, lost>>

(* The socket fails or is closed: the read loop calls Close and returns. *)
ReadFails ==
  /\ loop.at = "read" /\ batch = 0
  /\ loop' = [AtRest EXCEPT !.at = "exit"]
  /\ stage' = IF stage.close = "open" THEN [stage EXCEPT !.close = "closing"] ELSE stage
  /\ UNCHANGED <<table, state, ipCount, queue, batch, arrived, served, relayed, lost>>

-----------------------------------------------------------------------------
(* quic-go's reader, the reaper, Close and the clock.                      *)

(* dequeue: when the queue is not empty and c.closed is closed, select may *)
(* take either.                                                            *)
QuicReads ==
  /\ stage.quic = "running" /\ queue # <<>>
  /\ served' = Append(served, Head(queue))
  /\ queue' = Tail(queue)
  /\ UNCHANGED <<table, state, ipCount, loop, batch, arrived, relayed, lost, stage>>

QuicSeesClosed ==
  /\ stage.quic = "running" /\ stage.close # "open"
  /\ stage' = [stage EXCEPT !.quic = "done"]
  /\ UNCHANGED <<table, state, ipCount, queue, loop, batch, arrived, served, relayed, lost>>

InHand(c) == loop.at \in {"decide", "flush"} /\ Current = c

(* Clients leave the map; a state the read loop works on stays as an orphan. *)
Remove(gone, why) ==
  /\ table' = table \ gone
  /\ state' = [c \in Clients |-> IF c \in gone /\ ~InHand(c) THEN EmptyState ELSE state[c]]
  /\ lost' = lost \cup {<<id, why>> : id \in UNION {Held(c) : c \in {g \in gone : ~InHand(g)}}}

(* Mutant: perIP is not decremented. *)
ReapUncounted ==
  /\ stage.reaper = "running"
  /\ \E c \in table : state[c].age > Timeout
  /\ Remove({c \in table : state[c].age > Timeout}, "idle")
  /\ UNCHANGED <<ipCount, queue, loop, batch, arrived, served, relayed, stage>>

Reap ==
  /\ stage.reaper = "running"
  /\ LET idle == {c \in table : state[c].age > Timeout} IN
       /\ idle # {}
       /\ Remove(idle, "idle")
       /\ ipCount' = [ip \in IPs |-> ipCount[ip] - Cardinality({c \in idle : IPOf[c] = ip})]
  /\ UNCHANGED <<queue, loop, batch, arrived, served, relayed, stage>>

ReaperExits ==
  /\ stage.reaper = "running" /\ stage.close # "open"
  /\ stage' = [stage EXCEPT !.reaper = "done"]
  /\ UNCHANGED <<table, state, ipCount, queue, loop, batch, arrived, served, relayed, lost>>

(* closeOnce.Do: close(c.closed); then relay.Close(); then fresh maps under *)
(* c.mu; PacketConn.Close comes last.                                       *)
CloseBegins ==
  /\ stage.close = "open"
  /\ stage' = [stage EXCEPT !.close = "closing"]
  /\ UNCHANGED <<table, state, ipCount, queue, loop, batch, arrived, served, relayed, lost>>

CloseResets ==
  /\ stage.close = "closing"
  /\ Remove(table, "closed")
  /\ ipCount' = [ip \in IPs |-> 0]
  /\ stage' = [stage EXCEPT !.close = "reset"]
  /\ UNCHANGED <<queue, loop, batch, arrived, served, relayed>>

(* Mutant: Close waits for the read loop before it closes the socket. *)
CloseSocketWaits ==
  /\ stage.close = "reset" /\ loop.at = "exit"
  /\ stage' = [stage EXCEPT !.close = "shut"]
  /\ UNCHANGED <<table, state, ipCount, queue, loop, batch, arrived, served, relayed, lost>>

CloseSocket ==
  /\ stage.close = "reset"
  /\ stage' = [stage EXCEPT !.close = "shut"]
  /\ UNCHANGED <<table, state, ipCount, queue, loop, batch, arrived, served, relayed, lost>>

(* Time passes.  The read loop never blocks while it handles a datagram, so *)
(* that takes less than the idle timeout.                                    *)
Timely == loop.at \in {"decide", "flush"} => state[Current].age < Timeout
Aging == \E c \in table : state[c].age <= Timeout \/ state[c].life <= Timeout
Age ==
  /\ state' = [c \in Clients |->
       IF c \notin table THEN state[c]
       ELSE [state[c] EXCEPT !.age = IF @ > Timeout THEN @ ELSE @ + 1,
                             !.life = IF @ > Timeout THEN @ ELSE @ + 1]]
  /\ UNCHANGED <<table, ipCount, queue, loop, batch, arrived, served, relayed, lost, stage>>
Tick == Timely /\ Aging /\ Age

-----------------------------------------------------------------------------
DecidePending == ForgetEmptyPending \/ Hold \/ Decide
Flush == Enqueue \/ HandToRelay

Next ==
  \/ \E d \in Inputs : HandlePacket(d)
  \/ DecidePending
  \/ Flush
  \/ ReadFails
  \/ QuicReads
  \/ QuicSeesClosed
  \/ Reap
  \/ ReaperExits
  \/ CloseBegins
  \/ CloseResets
  \/ CloseSocket
  \/ Tick

Spec == Init /\ [][Next]_vars

-----------------------------------------------------------------------------
(* Safety.                                                                 *)

(* c.perIP is the number of states of each address: creation, the forgetting *)
(* of empty states, reaping and Close move the two together.                 *)
PerIPCounts == \A ip \in IPs : ipCount[ip] = Count(ip)

(* The state table and each address stay within their limits. *)
WithinLimits ==
  /\ Cardinality(table) <= MaxStates
  /\ \A ip \in IPs : Count(ip) <= MaxPerIP

(* quic-go sees only flows that proved themselves: whoever has a datagram in *)
(* the AUTH queue has sent every piece of a hello the verifier accepts.       *)
Sent(c) == UNION {arrived[i].frags : i \in {j \in DOMAIN arrived :
                     arrived[j].client = c /\ arrived[j].kind = "initial"}}
Proved(c) == {f.at : f \in {g \in Sent(c) : g.genuine}} = Pieces
AdmittedProved ==
  /\ \A i \in DOMAIN queue : Proved(ClientOf(queue[i]))
  /\ \A i \in DOMAIN served : Proved(ClientOf(served[i]))

ToQuic == served \o queue

(* As long as a client's state lives, its flow takes one path: nothing the *)
(* state has seen goes both ways, and nothing leaves before the decision.   *)
StickyPath ==
  \A c \in table :
    LET Since(s) == {i \in DOMAIN s : ClientOf(s[i]) = c /\ s[i] >= state[c].born} IN
    /\ state[c].phase # "auth" => Since(ToQuic) = {}
    /\ state[c].phase # "relay" => Since(relayed) = {}

(* What an undecided flow holds is bounded, in datagrams and in bytes. *)
HoldBounded ==
  \A c \in Clients :
    /\ Len(state[c].pending) <= MaxPendingPkts
    /\ state[c].bytes <= MaxPendingBytes

(* The precheck implements FlowGate: whatever holding, flushing, reaping and *)
(* Close do, it disposes of a datagram once, passes on proved clients only    *)
(* and lets no datagram of a client overtake an earlier one.                  *)
Ran(s) == {s[i] : i \in DOMAIN s}
Waiting == {id \in DOMAIN arrived :
             id \notin Ran(ToQuic) \cup Ran(relayed) \cup {l[1] : l \in lost}}
Gate == INSTANCE FlowGate WITH waiting <- Waiting, passed <- ToQuic, forwarded <- relayed
ImplementsGate == Gate!Spec

-----------------------------------------------------------------------------
(* The inductive invariant behind AdmittedProved.                          *)

(* While the read loop works on a datagram, it has one. *)
LoopOK ==
  /\ Len(arrived) <= MaxArrivals
  /\ loop.at \in {"decide", "flush"} => loop.pkt \in DOMAIN arrived
  /\ loop.at = "flush" => loop.flush # <<>> /\ loop.to # "none"

Owned(s, c) == \A i \in DOMAIN s : s[i] \in DOMAIN arrived /\ ClientOf(s[i]) = c

(* What a state has collected came from its own client, and a flow marked *)
(* AUTH has proved itself.                                                 *)
StatesAuth ==
  \A c \in Clients :
    /\ state[c].crypto \subseteq Sent(c)
    /\ Owned(state[c].pending, c)
    /\ state[c].phase = "auth" => Proved(c)

(* So is what the read loop is flushing its client's, and proved for AUTH. *)
LoopAuth ==
  /\ loop.at = "decide" => Packet.kind # "short"
  /\ loop.at = "flush" => Owned(loop.flush, Current)
  /\ loop.at = "flush" /\ loop.to = "auth" => Proved(Current)

Enqueued(s) == \A i \in DOMAIN s : s[i] \in DOMAIN arrived /\ Proved(ClientOf(s[i]))

(* What an AUTH decision rests on, from the datagrams collected for it to *)
(* the queue: the inductive form of AdmittedProved.                        *)
AuthInv == StatesAuth /\ LoopAuth /\ Enqueued(queue) /\ Enqueued(served)

=============================================================================
