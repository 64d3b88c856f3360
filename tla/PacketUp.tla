------------------------------ MODULE PacketUp ------------------------------
(***************************************************************************)
(* The XHTTP client: dials that share the XMUX pool, one of which uploads  *)
(* in packet-up mode, that is through the pipe, whose reader cuts what it  *)
(* finds into posts.  The other dials are stream-one connections.  A post  *)
(* is answered, or fails at any moment (the network, the server, or the    *)
(* transport having been closed under it); a failed post interrupts the    *)
(* pipe.  A post counts as written once its request is on the wire.        *)
(***************************************************************************)
EXTENDS Pipe, Xmux

CONSTANTS Dials,    \* dials
          Main,     \* the packet-up dial
          Up,       \* its upload goroutine
          MaxPost,  \* maxUploadSize, in units
          MaxFaults \* bound: failed requests and expired clients of a behaviour

ASSUME UpAssumption == /\ Main \in Dials /\ Users = Dials \cup {Up} /\ MaxPost \in Nat \ {0}
                       /\ MaxFaults \in Nat /\ IsFiniteSet(Dials) /\ Nobody \notin Users

Posts == 1 .. MaxUnits
None  == 0

VARIABLES dpc,      \* where each dial is
          client,   \* its xmuxClient
          late,     \* history: dials that registered with a client already retired
          upc,      \* where the upload goroutine is
          dyn,      \* dynamicXmuxClient
          rest,     \* remainder
          stop,     \* doSplit of the current read is false
          seq,      \* posts made
          first,    \* first post of the current read
          chunk, on,\* units of each post that is under way, and its client
          post,     \* what became of each post
          faults,   \* failed requests and expired clients so far
          answered  \* history: units of answered posts

dialVars == <<dpc, client, late>>
upVars   == <<upc, dyn, rest, stop, seq, first, chunk, on, post, answered>>
vars     == <<pipeVars, xmuxVars, dialVars, upVars, faults>>

Init == /\ PipeInit /\ XmuxInit
        /\ dpc = [d \in Dials |-> "get"] /\ client = [d \in Dials |-> None] /\ late = {}
        /\ upc = "off" /\ dyn = None /\ rest = 0 /\ stop = FALSE /\ seq = 0 /\ first = 1
        /\ chunk = [k \in Posts |-> 0] /\ on = [k \in Posts |-> None]
        /\ post = [k \in Posts |-> "none"] /\ answered = 0 /\ faults = 0

DialAt(d, l) == dpc' = [dpc EXCEPT ![d] = l]
Fault        == faults < MaxFaults /\ faults' = faults + 1
PostAt(k, l) == post' = [post EXCEPT ![k] = l]

-----------------------------------------------------------------------------
(* Dial, and Close of the connection it returns.                           *)

DialGets(d) == /\ dpc[d] = "get" /\ Retire(d) /\ DialAt(d, "pick")
               /\ UNCHANGED <<pipeVars, client, late, upVars, faults>>

DialPicks(d) == /\ dpc[d] = "pick" /\ DialAt(d, "got")
                /\ \E c \in Clients : Pick(d, c) /\ client' = [client EXCEPT ![d] = c]
                /\ UNCHANGED <<pipeVars, late, upVars, faults>>

DialRegisters(d) == /\ dpc[d] = "got" /\ AddRunning(client[d]) /\ DialAt(d, "added")
                    /\ late' = IF client[d] \in notUsed THEN late \cup {d} ELSE late
                    /\ UNCHANGED <<pipeVars, client, upVars, faults>>

\* OpenStream; the packet-up dial also starts its upload goroutine.
DialOpens(d) == /\ dpc[d] = "added" /\ DialAt(d, "open") /\ UseRequest(client[d])
                /\ IF d = Main THEN upc' = "read" /\ dyn' = client[d] /\ ReadCall
                   ELSE UNCHANGED <<upc, dyn, pipeVars>>
                /\ UNCHANGED <<pool, made, running, leftUse, broken, expired, notUsed,
                               shut, getter, retiring, client, late, rest, stop, seq, first,
                               chunk, on, post, answered, faults>>

\* The download request fails: the client is not to be used again.
StreamFails(d) == /\ dpc[d] = "open" /\ client[d] \notin broken /\ Fault
                  /\ broken' = broken \cup {client[d]}
                  /\ UNCHANGED <<pipeVars, pool, made, running, leftUse, leftReq, expired,
                                 notUsed, shut, getter, retiring, dialVars, upVars>>

OnCloseAgain(d) == dpc[d] \in {"open", "closed"}
OnCloseOnce(d)  == dpc[d] = "open"

DialCloses(d) == /\ OnCloseOnce(d) /\ Release(client[d]) /\ DialAt(d, "released")
                 /\ UNCHANGED <<pipeVars, client, late, upVars, faults>>

DialReleased(d) == /\ dpc[d] = "released" /\ MaybeClose(client[d])
                   /\ DialAt(d, IF d = Main THEN "closing" ELSE "closed")
                   /\ UNCHANGED <<pipeVars, client, late, upVars, faults>>

\* onClose is over; the writer of the packet-up dial is the pipe's.
DialClosed(d) == /\ dpc[d] = "closing" /\ DialAt(d, "closed") /\ PipeClose
                 /\ UNCHANGED <<xmuxVars, client, late, upVars, faults>>

-----------------------------------------------------------------------------
(* The upload goroutine.                                                   *)

\* ReadMultiBuffer returned data, or the upload is over.
UpHasRead == /\ upc = "read" /\ rpc \in {"data", "end"} /\ rpc' = "idle" /\ got' = 0
             /\ IF rpc = "end" THEN upc' = "off" /\ UNCHANGED <<rest, stop, first>>
                ELSE upc' = "split" /\ rest' = got /\ stop' = FALSE /\ first' = seq + 1
             /\ UNCHANGED <<state, pending, signals, done, wpc, size, accepted,
                            xmuxVars, dialVars, dyn, seq, chunk, on, post, answered, faults>>

\* SplitSize takes the next chunk; the last allowed request makes the loop look
\* for another client first.
Splits(n) == IF n < MaxPost THEN n ELSE MaxPost

UpSplits == /\ upc = "split" /\ rest > 0 /\ ~stop
            /\ seq' = seq + 1 /\ chunk' = [chunk EXCEPT ![seq + 1] = Splits(rest)]
            /\ rest' = rest - chunk'[seq + 1]
            /\ UseRequest(dyn)
            /\ upc' = IF leftReq'[dyn] = 0 \/ dyn \in expired THEN "get" ELSE "post"
            /\ UNCHANGED <<pipeVars, pool, made, running, leftUse, broken, expired, notUsed,
                           shut, getter, retiring, dialVars, dyn, stop, first, on, post,
                           answered, faults>>

UpReadsOn == /\ upc = "split" /\ (rest = 0 \/ stop) /\ upc' = "read" /\ rest' = 0
             /\ ReadCall
             /\ UNCHANGED <<xmuxVars, dialVars, dyn, stop, seq, first, chunk, on, post,
                            answered, faults>>

UpGets == /\ upc = "get" /\ Retire(Up) /\ upc' = "pick"
          /\ UNCHANGED <<pipeVars, dialVars, dyn, rest, stop, seq, first, chunk, on, post, answered, faults>>

\* The new client is used without AddRunning.
UpPicks == /\ upc = "pick" /\ upc' = "post"
           /\ \E c \in Clients : Pick(Up, c) /\ dyn' = c
           /\ UNCHANGED <<pipeVars, dialVars, rest, stop, seq, first, chunk, on, post, answered, faults>>

UpPosts == /\ upc = "post" /\ upc' = "sent" /\ PostAt(seq, "sending")
           /\ on' = [on EXCEPT ![seq] = dyn]
           /\ UNCHANGED <<pipeVars, xmuxVars, dialVars, dyn, rest, stop, seq, first, chunk,
                          answered, faults>>

\* wroteRequest.
UpGoesOn == /\ upc = "sent" /\ post[seq] # "sending" /\ upc' = "split"
            /\ UNCHANGED <<pipeVars, xmuxVars, dialVars, dyn, rest, stop, seq, first, chunk, on,
                           post, answered, faults>>

-----------------------------------------------------------------------------
(* PostPacket.                                                             *)

PostWritten(k) == /\ post[k] = "sending" /\ PostAt(k, "written")
                  /\ UNCHANGED <<pipeVars, xmuxVars, dialVars, upc, dyn, rest, stop, seq,
                                 first, chunk, on, answered, faults>>

\* Nothing refers to a post that is over.
PostOver(k, l) == /\ PostAt(k, l) /\ chunk' = [chunk EXCEPT ![k] = 0]
                  /\ on' = [on EXCEPT ![k] = None]

PostAnswered(k) == /\ post[k] = "written" /\ PostOver(k, "ok")
                   /\ answered' = answered + chunk[k]
                   /\ UNCHANGED <<pipeVars, xmuxVars, dialVars, upc, dyn, rest, stop, seq,
                                  first, faults>>

\* An error, after which the client is not to be used again, or a bad status.
PostFails(k) == /\ post[k] \in {"sending", "written"} /\ PostOver(k, "failing") /\ Fault
                /\ broken' \in {broken, broken \cup {on[k]}}
                /\ UNCHANGED <<pipeVars, pool, made, running, leftUse, leftReq, expired,
                               notUsed, shut, getter, retiring, dialVars, upc, dyn, rest,
                               stop, seq, first, answered>>

\* Interrupt, and doSplit of the read the post belongs to.
PostInterrupts(k) == /\ post[k] = "failing" /\ PostAt(k, "failed") /\ PipeInterrupt
                     /\ stop' = (stop \/ k >= first)
                     /\ UNCHANGED <<xmuxVars, dialVars, upc, dyn, rest, seq, first, chunk, on,
                                    answered, faults>>

Writing == /\ dpc[Main] = "open" /\ wpc = "idle" /\ \E n \in 1 .. MaxWrite : WriteTry(n)
           /\ UNCHANGED <<xmuxVars, dialVars, upVars, faults>>
WriterStep == WriteStep /\ UNCHANGED <<xmuxVars, dialVars, upVars, faults>>
ReaderStep == ReadStep /\ UNCHANGED <<xmuxVars, dialVars, upVars, faults>>
Expiry(c) == Expire(c) /\ Fault /\ UNCHANGED <<pipeVars, dialVars, upVars>>

DialStep(d) == \/ DialGets(d) \/ DialPicks(d) \/ DialRegisters(d) \/ DialOpens(d)
               \/ DialReleased(d) \/ DialClosed(d)
UpStep == \/ UpHasRead \/ UpSplits \/ UpReadsOn \/ UpGets \/ UpPicks \/ UpPosts
          \/ UpGoesOn
PostStep(k) == PostWritten(k) \/ PostAnswered(k) \/ PostInterrupts(k)

Next == \/ \E d \in Dials : DialStep(d) \/ DialCloses(d) \/ StreamFails(d)
        \/ UpStep \/ ReaderStep \/ WriterStep \/ Writing
        \/ \E k \in Posts : PostStep(k) \/ PostFails(k)
        \/ \E c \in Clients : Expiry(c)

Spec == Init /\ [][Next]_vars

\* Goroutines run and requests come to an end; nothing makes a dial close.
FairSpec == /\ Spec /\ WF_vars(UpStep \/ ReaderStep) /\ WF_vars(WriterStep)
            /\ \A d \in Dials : WF_vars(DialStep(d))
            /\ \A k \in Posts : WF_vars(PostStep(k))

-----------------------------------------------------------------------------
(* Properties.                                                             *)

\* Type invariant of the pipe, the pool, the dials and the upload.
TypeOK == /\ PipeTypeOK /\ XmuxTypeOK
          /\ dpc \in [Dials -> {"get", "pick", "got", "added", "open", "released", "closing",
                                "closed"}]
          /\ client \in [Dials -> Clients \cup {None}] /\ late \subseteq Dials
          /\ upc \in {"off", "read", "split", "get", "pick", "post", "sent"}
          /\ dyn \in Clients \cup {None} /\ rest \in 0 .. MaxUnits /\ stop \in BOOLEAN
          /\ seq \in 0 .. MaxUnits /\ first \in 1 .. MaxUnits + 1
          /\ chunk \in [Posts -> 0 .. MaxPost] /\ on \in [Posts -> Clients \cup {None}]
          /\ answered \in 0 .. MaxUnits
          /\ post \in [Posts -> {"none", "sending", "written", "ok", "failing", "failed"}]

Failed == \E k \in Posts : post[k] \in {"failing", "failed"}

\* A connection whose dial registered with its client before the pool retired
\* it keeps that client's transport until it is closed itself.
OpenDialKeepsTransport ==
    \A d \in Dials : dpc[d] = "open" /\ d \notin late => client[d] \notin shut

\* A retired client that no dial uses any more has been closed, or its retirer
\* is about to close it, although Running and NotUsed are not changed together.
RetiredIsShut ==
    \A c \in notUsed \ (shut \cup retiring) :
        \E d \in Dials : client[d] = c /\ dpc[d] \in {"got", "added", "open", "released"}

\* Whatever the proxy's writes were told is accepted is posted and answered,
\* whether the connection stays open or is closed meanwhile, unless a post fails.
UploadCompletes == accepted > answered ~> (accepted = answered \/ Failed)

\* A writer that waits for room in the pipe goes on, with room or with an error.
WriterIsReleased == wpc = "blocked" ~> wpc # "blocked"

=============================================================================
