--------------------------- MODULE RealityListener ---------------------------
(***************************************************************************)
(* The XHTTP/3 REALITY packet conn as a whole: the precheck with the relay  *)
(* it owns.  The read loop calls relayClientToDest inside flushPending and  *)
(* does nothing else until it returns; Close of the precheck calls Close of *)
(* the relay between close(c.closed) and the reset of its own maps; both    *)
(* idle out after the same params.FallbackTimeout but are swept by reapers  *)
(* of their own; a panic of any goroutine ends the process.                 *)
(***************************************************************************)
EXTENDS RealityPrecheck

CONSTANTS
  NCand, Refusing, Undialable,  \* the destination's candidates, as RealityRelay has them
  MaxEntries,                   \* realityRelayMaxEntries
  Sockets                       \* bound: sockets alive at the same time

VARIABLES
  flows, flowCount,             \* keys of r.entries, r.perIP
  entry, socket, cur, tried, fate, relayStage, panicked

R == INSTANCE RealityRelay WITH table <- flows, ipCount <- flowCount, stage <- relayStage

relayVars == <<flows, entry, flowCount, socket, cur, tried, fate, relayStage, panicked>>
listenerVars == <<vars, relayVars>>

ListenerInit == Init /\ R!Init

-----------------------------------------------------------------------------
(* The read loop: a call into the relay is under way while cur # None.     *)

ReadLoopOutsideRelay ==
  /\ ~panicked /\ cur = None
  /\ \/ \E d \in Inputs : HandlePacket(d)
     \/ DecidePending
     \/ Enqueue
     \/ ReadFails
  /\ UNCHANGED relayVars

CallRelay ==
  /\ HandToRelay
  /\ R!RelayClientToDest(Current)

InsideRelay == R!ReadLoopStep /\ UNCHANGED vars

(* quic-go's reader and the two reapers. *)
Quic ==
  /\ ~panicked
  /\ QuicReads \/ QuicSeesClosed
  /\ UNCHANGED relayVars

PrecheckReaper ==
  /\ ~panicked
  /\ Reap \/ ReaperExits
  /\ UNCHANGED relayVars

RelayReaper == (R!Reap \/ R!ReaperExits) /\ UNCHANGED vars

(* Close, step by step. *)
CloseStarts == ~panicked /\ CloseBegins /\ UNCHANGED relayVars

CloseRelay ==
  /\ stage.close = "closing"
  /\ R!CloseBegins \/ R!CloseEntries
  /\ UNCHANGED vars

CloseGoesOn ==
  /\ ~panicked /\ relayStage.close = "closed"
  /\ CloseResets
  /\ UNCHANGED relayVars

CloseEnds == ~panicked /\ CloseSocket /\ UNCHANGED relayVars

(* destToClient: replies fail for sure once the server socket is closed. *)
Readers ==
  /\ \E s \in Sockets : R!IcmpArrives(s) \/ R!ReaderStep(s)
  /\ UNCHANGED vars

(* One clock for both tables. *)
ClockTicks ==
  /\ ~panicked /\ Timely /\ R!Timely
  /\ Aging \/ R!Aging
  /\ Age /\ R!Age

ListenerNext ==
  \/ ReadLoopOutsideRelay
  \/ CallRelay
  \/ InsideRelay
  \/ Quic
  \/ PrecheckReaper
  \/ RelayReaper
  \/ CloseStarts
  \/ CloseRelay
  \/ CloseGoesOn
  \/ CloseEnds
  \/ Readers
  \/ ClockTicks

ListenerSpec == ListenerInit /\ [][ListenerNext]_listenerVars

(* The goroutines run and time passes; arrivals, replies and the first Close *)
(* are the environment's.                                                     *)
Fairness ==
  /\ WF_listenerVars(ReadLoopOutsideRelay /\ (loop.at # "read" \/ batch > 0 \/ stage.close = "shut"))
  /\ WF_listenerVars(CallRelay)
  /\ WF_listenerVars(InsideRelay)
  /\ WF_listenerVars(~panicked /\ QuicReads /\ UNCHANGED relayVars)
  /\ WF_listenerVars(~panicked /\ QuicSeesClosed /\ UNCHANGED relayVars)
  /\ WF_listenerVars(PrecheckReaper)
  /\ WF_listenerVars(RelayReaper)
  /\ WF_listenerVars(CloseRelay)
  /\ WF_listenerVars(CloseGoesOn)
  /\ WF_listenerVars(CloseEnds)
  /\ WF_listenerVars(\E s \in Sockets : (R!ReadClosed(s) \/ R!ReadRefused(s)) /\ UNCHANGED vars)
  /\ WF_listenerVars(ClockTicks)

FairSpec == ListenerSpec /\ Fairness

-----------------------------------------------------------------------------
(* Only a client that has sent something shaped like a QUIC v1 Initial gets a *)
(* socket to the destination, even when the precheck is at capacity: junk     *)
(* costs the server no entry in the relay.                                    *)
NoSocketForJunk ==
  \A c \in flows : \E i \in DOMAIN arrived :
    arrived[i].client = c /\ arrived[i].kind \notin {"short", "noninitial"}

(* Every datagram the read loop takes is disposed of, wherever it has to go: *)
(* the loop comes back to the socket (or the process has panicked).           *)
Busy == loop.at \in {"decide", "flush"} \/ cur # None
ReadLoopReturns == Busy ~> (~Busy \/ panicked)

(* With a destination that works somewhere, Close of the conn ends the read   *)
(* loop, both reapers and quic-go's reader, except where Close of the relay   *)
(* meets a flow the read loop has inserted and not dialled: it then panics on *)
(* the nil socket and the process ends (CloseNeverPanics).                     *)
ShutdownCompletes ==
  R!Healthy # {} /\ stage.close # "open" ~>
    \/ panicked /\ R!MetUndialled
    \/ /\ loop.at = "exit" /\ cur = None /\ stage.reaper = "done" /\ stage.quic = "done"
       /\ relayStage.reaper = "done"

-----------------------------------------------------------------------------
(* What a comment promises and the code does not do.                        *)

(* reality_relay.go:240: "Close tears down all relayed flows and stops the    *)
(* reaper"; where the read loop is about to dial a flow, with a destination   *)
(* that works, it calls Close on a nil *net.UDPConn instead.                  *)
CloseNeverPanics == R!Healthy # {} /\ relayStage.close = "closed" => ~panicked

=============================================================================
