----------------------------- MODULE UploadQueue -----------------------------
(***************************************************************************)
(* The upload queue of an XHTTP session                                    *)
(* (transport/internet/splithttp/upload_queue.go).                         *)
(*                                                                         *)
(* HTTP handlers push: a packet-up POST carries a payload and a sequence   *)
(* number, a stream-up request hands over its whole body as a Reader.  The *)
(* proxy reads, one Read at a time; the reaper of the session or whoever   *)
(* ends the connection closes.  The handlers share with the reader only    *)
(* the atomic pointer `reader', the channel and `closed'; the heap and     *)
(* nextSeq belong to Read.                                                 *)
(***************************************************************************)
EXTENDS Naturals, Sequences, FiniteSets

CONSTANTS
  Posts,       \* requests with a payload, of the session's client
  Streams,     \* requests that hand over their body
  SeqOf,       \* Packet.Seq of each post (several, when a request is repeated)
  LenOf,       \* units of payload of each post, and of the body of each stream
  MaxPackets,  \* scMaxBufferedPosts
  None         \* nil

Requests == Posts \cup Streams

ASSUME RequestsAssumption ==
  IsFiniteSet(Requests) /\ Posts \cap Streams = {} /\ None \notin Requests
ASSUME PacketAssumption == SeqOf \in [Posts -> Nat] /\ LenOf \in [Requests -> Nat \ {0}]
ASSUME LimitAssumption == MaxPackets \in Nat \ {0}

VARIABLES
  reader,     \* h.reader
  channel,    \* h.pushedPackets
  heap,       \* h.heap: the requests in it
  offset,     \* how much of its payload (or body) has been read
  nextSeq,    \* h.nextSeq
  close,      \* h.closed and the progress of Close
  hungUp,     \* streams whose httpServerConn is done
  handler,    \* where the handler of each request is
  read,       \* where Read is; "end" after io.EOF or an error
  delivered   \* history: what the proxy has read, unit by unit

vars == <<reader, channel, heap, offset, nextSeq, close, hungUp, handler, read, delivered>>

Closed == close # "open"

(* A stream's Packet has the zero values: Seq 0 and no payload. *)
Seqno(r) == IF r \in Posts THEN SeqOf[r] ELSE 0
Left(r) == IF r \in Posts THEN LenOf[r] - offset[r] ELSE 0

TypeOK ==
  /\ reader \in Streams \cup {None}
  /\ channel \in Seq(Requests)
  /\ heap \subseteq Requests
  /\ offset \in [Requests -> Nat]
  /\ nextSeq \in Nat
  /\ close \in {"open", "marked", "done"}
  /\ hungUp \subseteq Streams
  /\ handler \in [Requests -> {"idle", "select", "sent", "ok", "refused", "ended"}]
  /\ read \in {"out", "check", "wait", "pop", "gap", "stream", "end"}
  /\ delivered \in Seq([from: Requests, unit: Nat])

Init ==
  /\ reader = None
  /\ channel = <<>>
  /\ heap = {}
  /\ offset = [r \in Requests |-> 0]
  /\ nextSeq = 0
  /\ close = "open"
  /\ hungUp = {}
  /\ handler = [r \in Requests |-> "idle"]
  /\ read = "out"
  /\ delivered = <<>>

-----------------------------------------------------------------------------
(* Push, and the stream-up handler around it.                              *)

(* Mutants: a failed CompareAndSwap goes unnoticed; `closed' is not looked at *)
(* again after the send.                                                      *)
PushStartsLoose(r) ==
  /\ handler[r] = "idle"
  /\ IF reader # None /\ r \in Posts
     THEN handler' = [handler EXCEPT ![r] = "refused"] /\ UNCHANGED reader
     ELSE /\ handler' = [handler EXCEPT ![r] = "select"]
          /\ reader' = IF r \in Streams THEN r ELSE reader
  /\ UNCHANGED <<channel, heap, offset, nextSeq, close, hungUp, read, delivered>>

PushReturnsUnchecked(r) ==
  /\ handler[r] = "sent"
  /\ handler' = [handler EXCEPT ![r] = "ok"]
  /\ UNCHANGED <<reader, channel, heap, offset, nextSeq, close, hungUp, read, delivered>>

(* Once a stream is attached every other push fails; a stream attaches itself *)
(* by CompareAndSwap before it is sent through the channel.                   *)
PushStarts(r) ==
  /\ handler[r] = "idle"
  /\ IF reader # None
     THEN handler' = [handler EXCEPT ![r] = "refused"] /\ UNCHANGED reader
     ELSE /\ handler' = [handler EXCEPT ![r] = "select"]
          /\ reader' = IF r \in Streams THEN r ELSE reader
  /\ UNCHANGED <<channel, heap, offset, nextSeq, close, hungUp, read, delivered>>

(* The select: the channel when it has room, or closed. *)
PushSends(r) ==
  /\ handler[r] = "select" /\ Len(channel) < MaxPackets
  /\ channel' = Append(channel, r)
  /\ handler' = [handler EXCEPT ![r] = "sent"]
  /\ UNCHANGED <<reader, heap, offset, nextSeq, close, hungUp, read, delivered>>

PushSeesClosed(r) ==
  /\ handler[r] = "select" /\ Closed
  /\ handler' = [handler EXCEPT ![r] = "refused"]
  /\ UNCHANGED <<reader, channel, heap, offset, nextSeq, close, hungUp, read, delivered>>

(* After the send Push looks at closed again: 200 or an error. *)
PushReturns(r) ==
  /\ handler[r] = "sent"
  /\ handler' = [handler EXCEPT ![r] = IF Closed THEN "refused" ELSE "ok"]
  /\ UNCHANGED <<reader, channel, heap, offset, nextSeq, close, hungUp, read, delivered>>

(* The handler of an accepted stream stays until the httpServerConn is done *)
(* or the client has gone; then the body can be read no more.               *)
StreamEnds(r) ==
  /\ r \in Streams /\ handler[r] = "ok"
  /\ handler' = [handler EXCEPT ![r] = "ended"]
  /\ hungUp' = hungUp \cup {r}
  /\ UNCHANGED <<reader, channel, heap, offset, nextSeq, close, read, delivered>>

Push(r) == PushStarts(r) \/ PushSends(r) \/ PushSeesClosed(r) \/ PushReturns(r)

-----------------------------------------------------------------------------
(* Close.                                                                  *)

CloseMarks ==
  /\ close = "open"
  /\ close' = "marked"
  /\ UNCHANGED <<reader, channel, heap, offset, nextSeq, hungUp, handler, read, delivered>>

CloseHangsUp ==
  /\ close = "marked"
  /\ close' = "done"
  /\ hungUp' = hungUp \cup ({reader} \ {None})
  /\ UNCHANGED <<reader, channel, heap, offset, nextSeq, handler, read, delivered>>

-----------------------------------------------------------------------------
(* Read.                                                                   *)

ReadStarts ==
  /\ read = "out"
  /\ read' = IF reader # None THEN "stream" ELSE "check"
  /\ UNCHANGED <<reader, channel, heap, offset, nextSeq, close, hungUp, handler, delivered>>

ReadChecks ==
  /\ read = "check"
  /\ read' = CASE Closed -> "end"
               [] ~Closed /\ heap = {} -> "wait"
               [] OTHER -> "pop"
  /\ UNCHANGED <<reader, channel, heap, offset, nextSeq, close, hungUp, handler, delivered>>

(* Blocked in either select when closed. *)
ReadSeesClosed ==
  /\ read \in {"wait", "gap"} /\ Closed
  /\ read' = "end"
  /\ UNCHANGED <<reader, channel, heap, offset, nextSeq, close, hungUp, handler, delivered>>

(* The first select looks for a Reader, the one behind a gap does not. *)
ReadReceives ==
  /\ read \in {"wait", "gap"} /\ channel # <<>>
  /\ channel' = Tail(channel)
  /\ IF read = "wait" /\ Head(channel) \in Streams
     THEN read' = "stream" /\ UNCHANGED heap
     ELSE read' = "pop" /\ heap' = heap \cup {Head(channel)}
  /\ UNCHANGED <<reader, offset, nextSeq, close, hungUp, handler, delivered>>

(* What heap.Pop may return; which of several equal ones is up to the heap. *)
Least == {r \in heap : \A q \in heap : Seqno(r) <= Seqno(q)}

(* Mutants: a packet that was read in pieces does not advance nextSeq; the   *)
(* rest of a partial read is lost; the limit comes late; a packet popped too  *)
(* early is not put back.                                                     *)
DeliverStuck ==
  /\ read = "pop"
  /\ \E r \in Least : \E n \in 0..Left(r) :
       /\ Seqno(r) = nextSeq
       /\ n > 0 \/ Left(r) = 0
       /\ offset' = [offset EXCEPT ![r] = @ + n]
       /\ delivered' = delivered \o [i \in 1..n |-> [from |-> r, unit |-> offset[r] + i]]
       /\ IF n < Left(r)
          THEN UNCHANGED <<heap, nextSeq>>
          ELSE /\ heap' = heap \ {r}
               /\ nextSeq' = IF offset[r] = 0 THEN nextSeq + 1 ELSE nextSeq
  /\ read' = "out"
  /\ UNCHANGED <<reader, channel, close, hungUp, handler>>

DeliverTruncates ==
  /\ read = "pop"
  /\ \E r \in Least : \E n \in 0..Left(r) :
       /\ Seqno(r) = nextSeq
       /\ n > 0 \/ Left(r) = 0
       /\ delivered' = delivered \o [i \in 1..n |-> [from |-> r, unit |-> offset[r] + i]]
       /\ heap' = heap \ {r} /\ nextSeq' = nextSeq + 1
  /\ read' = "out"
  /\ UNCHANGED <<reader, channel, offset, close, hungUp, handler>>

TooLargeLate == Cardinality(heap) > MaxPackets + 2
TooLarge == Cardinality(heap) > MaxPackets + 1

MeetGapLosing ==
  /\ read = "pop"
  /\ \E r \in Least :
       /\ Seqno(r) > nextSeq
       /\ heap' = heap \ {r}
       /\ read' = IF TooLarge THEN "end" ELSE "gap"
  /\ UNCHANGED <<reader, channel, offset, nextSeq, close, hungUp, handler, delivered>>

(* The packet that is due: as much of it as the caller's buffer takes. *)
Deliver ==
  /\ read = "pop"
  /\ \E r \in Least : \E n \in 0..Left(r) :
       /\ Seqno(r) = nextSeq
       /\ n > 0 \/ Left(r) = 0
       /\ offset' = [offset EXCEPT ![r] = @ + n]
       /\ delivered' = delivered \o [i \in 1..n |-> [from |-> r, unit |-> offset[r] + i]]
       /\ IF n < Left(r)
          THEN UNCHANGED <<heap, nextSeq>>
          ELSE heap' = heap \ {r} /\ nextSeq' = nextSeq + 1
  /\ read' = "out"
  /\ UNCHANGED <<reader, channel, close, hungUp, handler>>

(* A packet whose number has passed is dropped; with the heap empty Read *)
(* returns nothing.                                                       *)
DropStale ==
  /\ read = "pop"
  /\ \E r \in Least :
       /\ Seqno(r) < nextSeq
       /\ heap' = heap \ {r}
       /\ read' = IF heap = {r} THEN "out" ELSE "pop"
  /\ UNCHANGED <<reader, channel, offset, nextSeq, close, hungUp, handler, delivered>>

(* A packet is missing: wait for it, or give up when too many wait already. *)
MeetGap ==
  /\ read = "pop"
  /\ \E r \in Least :
       /\ Seqno(r) > nextSeq
       /\ IF TooLarge
          THEN read' = "end" /\ heap' = heap \ {r}
          ELSE read' = "gap" /\ UNCHANGED heap
  /\ UNCHANGED <<reader, channel, offset, nextSeq, close, hungUp, handler, delivered>>

(* reader.Read: a unit of the body, when the client sends one, or its end. *)
ReadBody ==
  /\ read = "stream"
  /\ handler[reader] \notin {"ended", "refused"} /\ offset[reader] < LenOf[reader]
  /\ offset' = [offset EXCEPT ![reader] = @ + 1]
  /\ delivered' = Append(delivered, [from |-> reader, unit |-> offset'[reader]])
  /\ read' = "out"
  /\ UNCHANGED <<reader, channel, heap, nextSeq, close, hungUp, handler>>

ReadBodyEnds ==
  /\ read = "stream"
  /\ handler[reader] \in {"ended", "refused"} \/ offset[reader] = LenOf[reader]
  /\ read' = "end"
  /\ UNCHANGED <<reader, channel, heap, offset, nextSeq, close, hungUp, handler, delivered>>

Read ==
  \/ ReadStarts \/ ReadChecks \/ ReadSeesClosed \/ ReadReceives
  \/ Deliver \/ DropStale \/ MeetGap \/ ReadBodyEnds

-----------------------------------------------------------------------------
Next ==
  \/ \E r \in Requests : Push(r) \/ StreamEnds(r)
  \/ Read
  \/ ReadBody
  \/ CloseMarks
  \/ CloseHangsUp

Spec == Init /\ [][Next]_vars

(* Handlers in Push run on, the proxy reads until it meets the end and then  *)
(* closes, a stream that was hung up ends; clients need not send and a select *)
(* with both ways open takes each of them sometimes.                          *)
Fairness ==
  /\ \A r \in Requests :
       /\ WF_vars(PushSends(r)) /\ WF_vars(PushSeesClosed(r)) /\ WF_vars(PushReturns(r))
       /\ WF_vars(r \in hungUp /\ StreamEnds(r))
  /\ WF_vars(Read)
  /\ WF_vars(ReadSeesClosed)
  /\ WF_vars(read = "end" /\ CloseMarks)
  /\ WF_vars(CloseHangsUp)

FairSpec == Spec /\ Fairness

-----------------------------------------------------------------------------
(* Safety.                                                                 *)

(* Repeated posts, where there are any, fit into one read each. *)
RepeatsAreShort ==
  \A p, q \in Posts : p # q /\ SeqOf[p] = SeqOf[q] => LenOf[p] = 1 /\ LenOf[q] = 1

(* The proxy reads the payloads in the order of their numbers, from 0 on, *)
(* every unit of each exactly once, whatever order they were pushed in.    *)
Follows(a, b) ==
  \/ b.from = a.from /\ b.unit = a.unit + 1
  \/ a.unit = LenOf[a.from] /\ b.unit = 1 /\ SeqOf[b.from] = SeqOf[a.from] + 1
FromPosts == {i \in DOMAIN delivered : delivered[i].from \in Posts}
InOrder ==
  RepeatsAreShort =>
    \A i \in FromPosts :
      IF i = 1 THEN SeqOf[delivered[1].from] = 0 /\ delivered[1].unit = 1
      ELSE Follows(delivered[i - 1], delivered[i])

(* Packet-up and stream-up never mix: the proxy reads from at most one stream *)
(* and, once it has, no payload any more.                                      *)
OneStream ==
  \A i, j \in DOMAIN delivered :
    i < j /\ delivered[i].from \in Streams => delivered[j].from = delivered[i].from

(* A post that was answered 200 is still there until its number has passed, *)
(* as long as the session lives.                                             *)
Kept(p) ==
  \/ p \in heap
  \/ \E i \in DOMAIN channel : channel[i] = p
  \/ SeqOf[p] < nextSeq
AckedIsKept == \A p \in Posts : handler[p] = "ok" /\ read # "end" => Kept(p)

(* What one session holds for a missing packet is bounded. *)
HeapBounded == Cardinality(heap) <= MaxPackets + 2 /\ Len(channel) <= MaxPackets

-----------------------------------------------------------------------------
(* The inductive forms of the last three.                                  *)

(* Read waits for the channel only while the heap has room for one more. *)
HeapInv ==
  /\ HeapBounded
  /\ read = "gap" => Cardinality(heap) <= MaxPackets + 1
  /\ read = "wait" => heap = {}

KeptInv == \A p \in Posts : handler[p] \in {"sent", "ok"} /\ read # "end" => Kept(p)

(* A stream is attached before anyone can see it, and once it is read from *)
(* Read never comes back to the heap.                                       *)
TakeOver ==
  /\ \A r \in Streams : handler[r] = "select" => reader = r
  /\ \A i \in DOMAIN channel : channel[i] \in Streams => reader # None
  /\ read = "stream" => reader # None
  /\ \A i \in DOMAIN delivered : delivered[i].from \in Streams =>
       delivered[i].from = reader /\ read \in {"out", "stream", "end"}

QueueInv == TypeOK /\ HeapInv /\ KeptInv /\ TakeOver /\ OneStream

(* The queue implements OrderedStream: with handlers, reader and Close running *)
(* freely, the proxy reads one unbroken stream, from the requests that were    *)
(* pushed, and nobody is turned away without cause.                            *)
Told(h) == CASE h = "idle" -> "none"
             [] h \in {"select", "sent"} -> "pending"
             [] h \in {"ok", "ended"} -> "ok"
             [] h = "refused" -> "refused"
Stream == INSTANCE OrderedStream WITH
  answer <- [r \in Requests |-> Told(handler[r])], source <- reader, closed <- Closed,
  over <- read = "end", out <- delivered, Ordered <- RepeatsAreShort
ImplementsStream == Stream!Spec

-----------------------------------------------------------------------------
(* Liveness.                                                               *)

(* Close releases everyone: handlers blocked in Push, the handler of a stream *)
(* that was being attached meanwhile, and the reader.                          *)
Waits(r) == handler[r] \in {"select", "sent"} \/ (r \in Streams /\ handler[r] = "ok")
CloseReleases ==
  /\ \A r \in Requests : (Closed /\ Waits(r)) ~> ~Waits(r)
  /\ Closed ~> (read = "end")

(* Answered posts without a gap before them are read, unless the session ends *)
(* or turns to a stream.                                                       *)
Complete(p) == \A s \in 0..SeqOf[p] : \E q \in Posts : SeqOf[q] = s /\ handler[q] = "ok"
Delivered ==
  \A p \in Posts : Complete(p) ~> (SeqOf[p] < nextSeq \/ Closed \/ read = "end" \/ reader # None)

=============================================================================
