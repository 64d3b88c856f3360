-------------------------------- MODULE Kcp --------------------------------
(***************************************************************************)
(* mKCP: two ends of one conversation over a network that loses, repeats   *)
(* and reorders datagrams.  A payload is its segment number.  Each end has *)
(* a sending window, a receiving window, a list of acknowledgements that   *)
(* it repeats until the peer has moved on, and a state.                    *)
(*                                                                         *)
(* The state is a bare atomic that three goroutines change: the one that   *)
(* calls Close, the one that handles input, and the updaters, which call   *)
(* flush.  Each reads the state, decides, and stores its decision later,   *)
(* whatever happened meanwhile.                                            *)
(*                                                                         *)
(* Time is left out: a timer may have run out or not whenever flush looks  *)
(* at it, a segment may be due or not.  A flush that sends several         *)
(* segments is several steps, and a lost datagram is one never delivered,  *)
(* so congestion and remote windows, which only limit how much a flush     *)
(* sends, need no state.  Numbers do not wrap.                             *)
(***************************************************************************)
EXTENDS Integers, FiniteSets

CONSTANTS Load,        \* bound: segments the application of each end writes
          Closers,     \* bound: the ends whose application calls Close
          SendWindow,  \* windowSize of the sending worker
          RecvWindow,  \* windowSize of the receiving worker
          MaxNet       \* bound: datagrams under way

Ends   == {"client", "server"}
Actors == {"app", "input", "flush"}
States == {"Active", "ReadyToClose", "PeerClosed", "Terminating", "PeerTerminating",
           "Terminated"}
None   == "none"
Peer(e) == IF e = "client" THEN "server" ELSE "client"

ASSUME KcpAssumption == /\ Load \in [Ends -> Nat] /\ Closers \subseteq Ends
                        /\ SendWindow \in Nat /\ RecvWindow \in Nat \ {0} /\ MaxNet \in Nat

VARIABLES st,      \* state of each end
          plan,    \* the state each actor is about to store, or None
          inbox,   \* the datagram, if any, whose handling waits for the input's store
          snd,     \* numbers in the sending window
          nxt,     \* nextNumber of the sending worker
          una,     \* firstUnacknowledged
          rcv,     \* numbers in the receiving window
          rnext,   \* nextNumber of the receiving worker: all below were read
          acks,    \* numbers in the acknowledgement list
          net,     \* datagrams under way
          released,\* ends that ran Terminate
          called,  \* history: ends whose Close was called
          hurried  \* history: ends that gave up waiting for acknowledgements

sending   == <<snd, nxt, una>>
receiving == <<rcv, rnext, acks>>
history   == <<called, hurried>>
vars == <<st, plan, inbox, sending, receiving, net, released, history>>

All(v) == [e \in Ends |-> v]
Init == /\ st = All("Active") /\ plan = [e \in Ends |-> [a \in Actors |-> None]]
        /\ inbox = All({}) /\ snd = All({}) /\ nxt = All(0) /\ una = All(0)
        /\ rcv = All({}) /\ rnext = All(0) /\ acks = All({}) /\ net = {} /\ released = {}
        /\ called = {} /\ hurried = {}

Set(f, e, v) == f' = [f EXCEPT ![e] = v]
Plan(e, a, s) == plan' = [plan EXCEPT ![e][a] = s]

-----------------------------------------------------------------------------
(* SetState: the store, CloseWrite, and Terminate.                         *)

ClosesWrite(s) == s \in {"PeerClosed", "Terminating", "PeerTerminating", "Terminated"}

SetState(e, s) ==
    /\ Set(st, e, s)
    /\ Set(snd, e, IF ClosesWrite(s) THEN {} ELSE snd[e])
    /\ released' = IF s = "Terminated" THEN released \cup {e} ELSE released

-----------------------------------------------------------------------------
(* The application.                                                        *)

\* writeMultiBufferInternal with Push: one segment.  An application does not
\* write any more once it has called Close.
Write(e) == /\ st[e] = "Active" /\ e \notin called /\ nxt[e] < Load[e] /\ Cardinality(snd[e]) <= SendWindow
            /\ Set(snd, e, snd[e] \cup {nxt[e]}) /\ Set(nxt, e, nxt[e] + 1)
            /\ UNCHANGED <<st, plan, inbox, una, receiving, net, released, history>>

\* IsDataAvailable.
HasData(e) == rnext[e] \in rcv[e]
Reads(e)   == st[e] \notin {"ReadyToClose", "Terminating", "Terminated"}

\* A read takes all segments up to the first number n that is missing.
ReadData(e) == /\ Reads(e) /\ HasData(e)
               /\ \E n \in rnext[e] + 1 .. rnext[e] + RecvWindow :
                      /\ rnext[e] .. n - 1 \subseteq rcv[e] /\ n \notin rcv[e]
                      /\ Set(rcv, e, rcv[e] \ (rnext[e] .. n - 1)) /\ Set(rnext, e, n)
               /\ UNCHANGED <<st, plan, inbox, sending, acks, net, released, history>>

CloseTo(s) == CASE s = "Active" -> "ReadyToClose"
                [] s = "PeerClosed" -> "Terminating"
                [] s = "PeerTerminating" -> "Terminated"
                [] OTHER -> None

\* Close, called by the application or by flush after 30 s of silence, looks at
\* the state ...
CloseReads(e) == /\ e \in Closers \ called /\ called' = called \cup {e}
                 /\ Plan(e, "app", CloseTo(st[e]))
                 /\ UNCHANGED <<st, inbox, sending, receiving, net, released, hurried>>

\* ... and stores what follows from what it saw.
Stores(e, a) == /\ plan[e][a] # None /\ Plan(e, a, None)
                /\ SetState(e, plan[e][a])
                /\ UNCHANGED <<inbox, nxt, una, receiving, net, history>>

-----------------------------------------------------------------------------
(* Input.                                                                  *)

OnPeerClosed(s) == CASE s = "ReadyToClose" -> "Terminating"
                     [] s = "Active" -> "PeerClosed"
                     [] OTHER -> None

OnTerminate(s) == CASE s \in {"Active", "PeerClosed"} -> "PeerTerminating"
                    [] s = "ReadyToClose" -> "Terminating"
                    [] s = "Terminating" -> "Terminated"
                    [] OTHER -> None

\* Only an end that is ready to close sets the close option, and only one that
\* is terminating sends the terminate command, so at most one of them applies.
Decision(s, m) == IF m.kind = "terminate" THEN OnTerminate(s)
                  ELSE IF m.close THEN OnPeerClosed(s) ELSE None

\* SendingWindow.Clear and AckList.Clear drop what is below a number.
WindowFrom_OffByOne(window, n) == {k \in window : k > n}
WindowFrom(window, n) == {k \in window : k >= n}

AcksFrom_OffByOne(list, n) == {k \in list : k > n}
AcksFrom(list, n) == {k \in list : k >= n}

\* FindFirstUnacknowledged.
FirstOf(window, next) == IF window = {} THEN next
                         ELSE CHOOSE n \in window : \A k \in window : n <= k

\* ProcessReceivingNext, then the numbers of an acknowledgement.
Acknowledge(e, window, next, nums) ==
    /\ Set(snd, e, WindowFrom(window, next) \ nums)
    /\ Set(una, e, FirstOf(snd'[e], nxt[e]))
    /\ UNCHANGED nxt

InWindow(e, n) == n \in rnext[e] .. rnext[e] + RecvWindow - 1

\* ReceivingWorker.ProcessSegment.
TakeData(e, m) ==
    /\ IF InWindow(e, m.num)
       THEN /\ Set(acks, e, AcksFrom(acks[e], m.una) \cup {m.num})
            /\ Set(rcv, e, rcv[e] \cup {m.num})
       ELSE UNCHANGED <<acks, rcv>>
    /\ UNCHANGED rnext

\* What follows the change of state, with the window it left.
Process(e, m, window) ==
    \/ /\ m.kind = "data" /\ TakeData(e, m)
       /\ Set(snd, e, window) /\ UNCHANGED <<nxt, una>>
    \/ /\ m.kind = "ack" /\ UNCHANGED receiving
       /\ IF e \in released THEN Set(snd, e, window) /\ UNCHANGED <<nxt, una>>
          ELSE Acknowledge(e, window, m.rnext, m.nums)
    \/ /\ m.kind \in {"ping", "terminate"}
       /\ Acknowledge(e, window, m.rnext, {})
       /\ Set(acks, e, AcksFrom(acks[e], m.una)) /\ UNCHANGED <<rcv, rnext>>

\* A datagram arrives, and may arrive again until it is lost.  Without a
\* decision it is handled at once.
Receive(m) ==
    LET e == m.to IN
    /\ inbox[e] = {} /\ e \notin released /\ UNCHANGED net
    /\ IF Decision(st[e], m) = None THEN Process(e, m, snd[e]) /\ UNCHANGED <<plan, inbox>>
       ELSE /\ Set(inbox, e, {m}) /\ Plan(e, "input", Decision(st[e], m))
            /\ UNCHANGED <<sending, receiving>>
    /\ UNCHANGED <<st, released, history>>

\* The decision is stored and the datagram handled.
InputStores(e) ==
    LET s == plan[e]["input"] window == IF ClosesWrite(s) THEN {} ELSE snd[e] IN
    /\ Set(inbox, e, {}) /\ Plan(e, "input", None)
    /\ Set(st, e, s)
    /\ released' = IF s = "Terminated" THEN released \cup {e} ELSE released
    /\ \E m \in inbox[e] : Process(e, m, window)
    /\ UNCHANGED <<net, history>>

\* The network drops it, or has no further copy of it.
Lose(m) == /\ net' = net \ {m}
           /\ UNCHANGED <<st, plan, inbox, sending, receiving, released, history>>

-----------------------------------------------------------------------------
(* flush, called by both updaters; the ping updater does so every few      *)
(* seconds until the connection is Terminated.                             *)

Send(m) == Cardinality(net \cup {m}) <= MaxNet /\ net' = net \cup {m}

Closing(e) == st[e] = "ReadyToClose"
Data(e, n) == [to |-> Peer(e), kind |-> "data", num |-> n, una |-> una[e],
               close |-> Closing(e)]
Ack(e)     == [to |-> Peer(e), kind |-> "ack", rnext |-> rnext[e], nums |-> acks[e],
               close |-> Closing(e)]
Ping(e, k) == [to |-> Peer(e), kind |-> k, rnext |-> rnext[e], una |-> una[e],
               close |-> Closing(e)]

Flushing(e) == plan[e]["flush"] = None /\ st[e] # "Terminated"

\* A closing end waits for its window to empty, for at most 15 s.
WaitedEnough_Never(e, late) == TRUE
WaitedEnough_Forever(e, late) == snd[e] = {}
WaitedEnough(e, late) == snd[e] = {} \/ late

\* The change of state flush decides on; late: the state's timer has run out.
FlushTo(e, late) == CASE st[e] = "ReadyToClose" /\ WaitedEnough(e, late) -> "Terminating"
                      [] st[e] = "Terminating" /\ late -> "Terminated"
                      [] st[e] = "PeerTerminating" /\ late -> "Terminating"
                      [] OTHER -> None

FlushDecides(e, late) ==
    /\ Flushing(e) /\ FlushTo(e, late) # None /\ Plan(e, "flush", FlushTo(e, late))
    /\ hurried' = IF st[e] = "ReadyToClose" /\ snd[e] # {} /\ late THEN hurried \cup {e} ELSE hurried
    /\ UNCHANGED <<st, inbox, sending, receiving, net, released, called>>

FlushTerminates(e) == /\ Flushing(e) /\ st[e] = "Terminating" /\ Send(Ping(e, "terminate"))
                      /\ UNCHANGED <<st, plan, inbox, sending, receiving, released, history>>

\* Acknowledgements, segments that are due, and a ping.  A flush that has just
\* turned PeerTerminating into Terminating still does this.
FlushSends(e) == /\ Flushing(e)
                 /\ \/ acks[e] # {} /\ Send(Ack(e))
                    \/ \E n \in snd[e] : Send(Data(e, n))
                    \/ Send(Ping(e, "ping"))
                 /\ UNCHANGED <<st, plan, inbox, sending, receiving, released, history>>

-----------------------------------------------------------------------------

Next == \/ \E e \in Ends : \/ Write(e) \/ ReadData(e) \/ CloseReads(e)
                           \/ Stores(e, "app") \/ Stores(e, "flush") \/ InputStores(e)
                           \/ \E late \in BOOLEAN : FlushDecides(e, late)
                           \/ FlushTerminates(e) \/ FlushSends(e)
        \/ \E m \in net : Receive(m) \/ Lose(m)

Spec == Init /\ [][Next]_vars

\* Goroutines run and the ping updater flushes until the timers have run out;
\* nothing is assumed of the network or of the applications.
FairSpec == /\ Spec
            /\ \A e \in Ends : /\ WF_vars(Stores(e, "app")) /\ WF_vars(Stores(e, "flush"))
                               /\ WF_vars(InputStores(e))
                               /\ WF_vars(FlushDecides(e, TRUE))

-----------------------------------------------------------------------------
(* Properties.                                                             *)

Datagrams ==
    [to : Ends, kind : {"data"}, num : Nat, una : Nat, close : BOOLEAN]
    \cup [to : Ends, kind : {"ack"}, rnext : Nat, nums : SUBSET Nat, close : BOOLEAN]
    \cup [to : Ends, kind : {"ping", "terminate"}, rnext : Nat, una : Nat, close : BOOLEAN]

\* Type invariant; the windows are bounded and the receiving window is where the
\* reader is.
TypeOK == /\ st \in [Ends -> States] /\ plan \in [Ends -> [Actors -> States \cup {None}]]
          /\ {nxt, una, rnext} \subseteq [Ends -> Nat]
          /\ {snd, rcv, acks} \subseteq [Ends -> SUBSET Nat]
          /\ \A e \in Ends : /\ snd[e] \subseteq una[e] .. nxt[e] - 1
                             /\ Cardinality(snd[e]) <= SendWindow + 1
                             /\ \A n \in rcv[e] : InWindow(e, n)
          /\ net \subseteq Datagrams /\ inbox \in [Ends -> SUBSET Datagrams]
          /\ released \cup called \cup hurried \subseteq Ends

Got(e, n) == n < rnext[e] \/ n \in rcv[e]

\* Until the peer closes or the sender gives up waiting, a segment leaves the
\* sending window only when the peer has it, whatever the network repeats,
\* delays or reorders, and also while the sender is closing.
NothingLost ==
    \A e \in Ends : Peer(e) \notin called /\ e \notin hurried =>
        \A n \in 0 .. nxt[e] - 1 : n \in snd[e] \/ Got(Peer(e), n)

\* A segment the peer has got and the sender still repeats is one the peer still
\* acknowledges: it is not resent for ever.
AckIsKept == \A e \in Ends : \A n \in snd[e] :
                 Got(Peer(e), n) => n \in acks[Peer(e)] \/ n < rnext[Peer(e)]

\* A reader that meets the end of file in PeerTerminating, its window empty, has
\* read all that was written before the peer's Close, unless the peer gave up
\* waiting.  (ReadMultiBuffer looks at the window and then at the state; here it
\* is one look.)
EndIsClean ==
    \A e \in Ends \ called : st[e] = "PeerTerminating" /\ ~HasData(e)
        => Peer(e) \in hurried \/ rnext[e] = nxt[Peer(e)]

\* What each end has of its peer's segments, read or not.
Arrived == [e \in Ends |-> {n \in 0 .. nxt[Peer(e)] - 1 : Got(e, n)}]

Line == INSTANCE SegmentLine WITH
            written <- nxt, kept <- snd, arrived <- Arrived, read <- rnext,
            closed <- called, hasty <- hurried

\* The two windows, the acknowledgements and the states implement a line between
\* the applications: what is read is what was written, in order and once, and a
\* segment is let go of only when it is there or nobody waits for it any more.
ImplementsLine == Line!Spec

\* An end that is past PeerClosed, or was closed, becomes Terminated by its own
\* timers, however the network and the peer behave; a close that was overtaken
\* by the peer's may end in PeerClosed.
ClosingEnds == \A e \in Ends :
    st[e] \in {"ReadyToClose", "Terminating", "PeerTerminating"}
        ~> st[e] \in {"Terminated", "PeerClosed"}

\* connection.go:459: "Close closes the connection."
CloseCloses == \A e \in Ends : e \in called ~> st[e] = "Terminated"

=============================================================================
