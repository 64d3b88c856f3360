--------------------------- MODULE XhttpSessions ---------------------------
(***************************************************************************)
(* The XHTTP server's sessions: the handlers of the requests that name one *)
(* session id, the table that maps the id to a session object, the reaper  *)
(* goroutine of each object, and the download side with the aggregation of *)
(* writes for HTTP/3.  Ids do not interact, so one id is enough; the object *)
(* behind it may change.  What the upload queue does with a post is the     *)
(* subject of UploadQueue; here it is open or closed.  A request that a     *)
(* check refuses (host, path, REALITY header, padding, mode, payload) may   *)
(* be refused before or after the session is looked up.                     *)
(***************************************************************************)
EXTENDS Naturals, FiniteSets

CONSTANTS Gets,       \* GET requests with the id (the download)
          Posts,      \* packet-up posts with the id
          Streams,    \* stream-up requests with the id
          Ones,       \* stream-one requests, which name no session
          MaxSessions,\* bound: session objects created
          MaxRequests,\* bound: requests of a behaviour
          Writers,    \* bound: the requests on whose download the proxy writes
          MaxWrites,  \* bound: download writes of a request
          Threshold   \* h3WriteAggregationThreshold, in writes

\* A request is of one kind, by its method and by what its path holds.
ASSUME SessionAssumption ==
    /\ {MaxSessions, MaxRequests, MaxWrites} \subseteq Nat /\ Threshold \in Nat \ {0}
    /\ Gets \cap (Posts \cup Streams) = {}
    /\ Ones \cap (Gets \cup Posts \cup Streams) = {}

Requests == Gets \cup Posts \cup Streams \cup Ones
Downs    == Gets \cup Ones     \* the requests that carry a download
Objects  == 1 .. MaxSessions
None     == 0

VARIABLES table,   \* the session object stored under the id, or None
          made,    \* session objects created so far
          full,    \* objects whose isFullyConnected is done
          closed,  \* objects whose upload queue is closed
          reaper,  \* the reaper goroutine of each object
          pc,      \* where each handler is
          sess,    \* the object a handler found, or None
          shared,  \* history: objects two GETs took, or one took too late
          isH3,    \* the listener serves HTTP/3
          over,    \* downloads whose httpServerConn is done
          written, \* writes accepted from the proxy
          buf,     \* writes in writeBuf
          sent,    \* writes handed to the ResponseWriter
          armed,   \* downloads whose flushTimer is set
          timers   \* flush callbacks that are still to run

down    == <<over, written, buf, sent, armed, timers>>
session == <<table, made, full, closed, reaper>>
vars    == <<session, down, pc, sess, shared, isH3>>

Init == /\ table = None /\ made = 0 /\ full = {} /\ closed = {}
        /\ reaper = [s \in Objects |-> "none"]
        /\ pc = [r \in Requests |-> "new"]
        /\ sess = [r \in Requests |-> None]
        /\ shared = {} /\ isH3 \in BOOLEAN /\ over = {} /\ armed = {}
        /\ written = [r \in Downs |-> 0] /\ buf = [r \in Downs |-> 0]
        /\ sent = [r \in Downs |-> 0] /\ timers = [r \in Downs |-> 0]

GoTo(r, l) == pc' = [pc EXCEPT ![r] = l]

-----------------------------------------------------------------------------
(* Every request: checks and upsertSession.                                *)

Arrives(r) == /\ pc[r] = "new"
              /\ Cardinality({q \in Requests : pc[q] # "new"}) < MaxRequests

Reject(r) == /\ \/ Arrives(r)
                \/ pc[r] = "handle" /\ r \in Posts \cup Streams
             /\ GoTo(r, IF r \in Downs THEN "refused" ELSE "end")
             /\ UNCHANGED <<session, down, sess, shared, isH3>>

\* The fast path of upsertSession; a stream-one request has no session.
Lookup(r) == /\ Arrives(r)
             /\ GoTo(r, IF r \in Ones \/ table # None THEN "handle" ELSE "create")
             /\ sess' = [sess EXCEPT ![r] = IF r \in Ones THEN None ELSE table]
             /\ UNCHANGED <<session, down, shared, isH3>>

\* Under sessionMu: another request may have created the session by now.
Create(r) == /\ pc[r] = "create" /\ GoTo(r, "handle")
             /\ LET s == made + 1
                IN IF table # None
                   THEN sess' = [sess EXCEPT ![r] = table] /\ UNCHANGED session
                   ELSE /\ s <= MaxSessions
                        /\ made' = s /\ table' = s
                        /\ reaper' = [reaper EXCEPT ![s] = "sleep"]
                        /\ sess' = [sess EXCEPT ![r] = s]
                        /\ UNCHANGED <<full, closed>>
             /\ UNCHANGED <<down, shared, isH3>>

-----------------------------------------------------------------------------
(* The uplink requests.                                                    *)

\* Push, answered 500 when the queue is closed and 200 otherwise.
Post(r) == /\ r \in Posts /\ pc[r] = "handle" /\ GoTo(r, "end")
           /\ UNCHANGED <<session, down, sess, shared, isH3>>

Stream(r) == /\ r \in Streams /\ pc[r] = "handle"
             /\ GoTo(r, IF sess[r] \in closed THEN "end" ELSE "streaming")
             /\ UNCHANGED <<session, down, sess, shared, isH3>>

\* The client ends the request, or Close of the queue ends its reader.
StreamEnds(r) == /\ pc[r] = "streaming" /\ GoTo(r, "end")
                 /\ UNCHANGED <<session, down, sess, shared, isH3>>

-----------------------------------------------------------------------------
(* The download.                                                           *)

\* isFullyConnected stops the reaper; the connection goes to the proxy.
Serve(r) == /\ r \in Downs /\ pc[r] = "handle" /\ GoTo(r, "serving")
            /\ full' = IF r \in Gets THEN full \cup {sess[r]} ELSE full
            /\ shared' = IF sess[r] \in full \/ (r \in Gets /\ reaper[sess[r]] # "sleep")
                         THEN shared \cup {sess[r]} ELSE shared
            /\ UNCHANGED <<table, made, closed, reaper, down, sess, isH3>>

\* flushWriteBuf; Stop of a timer fails when its callback has already begun.
FlushKeepsTimer(r, n) == /\ sent' = [sent EXCEPT ![r] = @ + n]
                         /\ buf' = [buf EXCEPT ![r] = 0]
                         /\ \E k \in {0, 1} : /\ k = 1 => r \in armed
                                              /\ timers' = [timers EXCEPT ![r] = @ - k]
                         /\ UNCHANGED armed
Flush(r, n) == /\ sent' = [sent EXCEPT ![r] = @ + n]
               /\ buf' = [buf EXCEPT ![r] = 0]
               /\ \E k \in {0, 1} : /\ k = 1 => r \in armed
                                    /\ timers' = [timers EXCEPT ![r] = @ - k]
               /\ armed' = armed \ {r}

FullAt(n)     == n >= Threshold

WritableAlways(r) == TRUE
Writable(r) == r \notin over

\* Write: straight through, or collected until Threshold or the idle timer.
Write(r) ==
    /\ r \in Downs \cap Writers /\ pc[r] \in {"serving", "delete", "end"}
    /\ written[r] < MaxWrites /\ Writable(r)
    /\ written' = [written EXCEPT ![r] = @ + 1]
    /\ \/ ~isH3 /\ sent' = [sent EXCEPT ![r] = @ + 1] /\ UNCHANGED <<buf, armed, timers>>
       \/ isH3 /\ FullAt(buf[r] + 1) /\ Flush(r, buf[r] + 1)
       \/ /\ isH3 /\ ~FullAt(buf[r] + 1)
          /\ buf' = [buf EXCEPT ![r] = @ + 1] /\ UNCHANGED sent
          /\ armed' = armed \cup {r}
          /\ timers' = [timers EXCEPT ![r] = IF r \in armed THEN @ ELSE @ + 1]
    /\ UNCHANGED <<session, over, pc, sess, shared, isH3>>

\* The idle timer's callback.
FlushTimer(r) ==
    /\ r \in Downs /\ timers[r] > 0
    /\ timers' = [timers EXCEPT ![r] = @ - 1] /\ armed' = armed \ {r}
    /\ IF r \in over THEN UNCHANGED <<sent, buf>>
       ELSE /\ sent' = [sent EXCEPT ![r] = @ + buf[r]]
            /\ buf' = [buf EXCEPT ![r] = 0]
    /\ UNCHANGED <<session, over, written, pc, sess, shared, isH3>>

CloseFlushes(r) == IF isH3 /\ r \notin over THEN Flush(r, buf[r])
                   ELSE UNCHANGED <<sent, buf, armed, timers>>

\* Close of the connection: its httpServerConn, then the upload queue.
CloseConn(r) == /\ CloseFlushes(r) /\ over' = over \cup {r}
                /\ closed' = IF r \in Gets THEN closed \cup {sess[r]} ELSE closed
                /\ UNCHANGED <<table, made, full, reaper, written, sess, shared, isH3>>

ProxyCloses(r) == /\ r \in Downs /\ pc[r] = "serving" /\ r \notin over
                  /\ CloseConn(r) /\ UNCHANGED pc

\* The client is gone, or the proxy closed the connection.
HandlerCloses(r) == /\ r \in Downs /\ pc[r] = "serving"
                    /\ CloseConn(r) /\ GoTo(r, IF r \in Gets THEN "delete" ELSE "end")

\* The deferred Delete: whatever object the id has now.
DeleteSession(r) == /\ pc[r] = "delete" /\ GoTo(r, "end") /\ table' = None
                    /\ UNCHANGED <<made, full, closed, reaper, down, sess, shared, isH3>>

-----------------------------------------------------------------------------
(* The reaper of an object: 30 s, then the select has taken one branch.     *)

ReapsAlways(s) == TRUE
Reaps(s) == s \notin full

ReaperWakes(s) == /\ reaper[s] = "sleep"
                  /\ reaper' = [reaper EXCEPT ![s] = IF Reaps(s) THEN "reap" ELSE "gone"]
                  /\ UNCHANGED <<table, made, full, closed, down, pc, sess, shared, isH3>>

ReaperDeletes(s) == /\ reaper[s] = "reap" /\ table' = None
                    /\ reaper' = [reaper EXCEPT ![s] = "close"]
                    /\ UNCHANGED <<made, full, closed, down, pc, sess, shared, isH3>>

ReaperForgets(s) == UNCHANGED closed
ReaperShuts(s)   == closed' = closed \cup {s}

ReaperCloses(s) == /\ reaper[s] = "close" /\ ReaperShuts(s)
                   /\ reaper' = [reaper EXCEPT ![s] = "gone"]
                   /\ UNCHANGED <<table, made, full, down, pc, sess, shared, isH3>>

Handle(r) == \/ Lookup(r) \/ Create(r) \/ Post(r) \/ Stream(r) \/ Serve(r)
             \/ DeleteSession(r)
Reap(s)   == ReaperWakes(s) \/ ReaperDeletes(s) \/ ReaperCloses(s)

Next == \/ \E r \in Requests : \/ Handle(r) \/ Reject(r) \/ StreamEnds(r) \/ Write(r)
                               \/ FlushTimer(r) \/ ProxyCloses(r) \/ HandlerCloses(r)
        \/ \E s \in Objects : Reap(s)

Spec == Init /\ [][Next]_vars

\* Handlers, timers and reapers run; a download ends some day; nothing makes a
\* client send its requests, but a handler that was entered goes on.
FairSpec == /\ Spec
            /\ \A r \in Requests : /\ WF_vars(pc[r] # "new" /\ Handle(r))
                                   /\ WF_vars(HandlerCloses(r))
                                   /\ WF_vars(FlushTimer(r))
                                   /\ WF_vars(sess[r] \in closed /\ StreamEnds(r))
            /\ \A s \in Objects : WF_vars(Reap(s))

-----------------------------------------------------------------------------
(* Properties.                                                             *)

\* Type invariant of the table, the reapers, the handlers and the downloads.
TypeOK == /\ table \in Objects \cup {None} /\ made \in 0 .. MaxSessions
          /\ full \subseteq Objects /\ closed \subseteq Objects
          /\ reaper \in [Objects -> {"none", "sleep", "reap", "close", "gone"}]
          /\ pc \in [Requests -> {"new", "create", "handle", "serving", "streaming",
                                  "delete", "end", "refused"}]
          /\ sess \in [Requests -> Objects \cup {None}] /\ shared \subseteq Objects
          /\ isH3 \in BOOLEAN /\ over \subseteq Downs
          /\ written \in [Downs -> 0 .. MaxWrites] /\ buf \in [Downs -> 0 .. Threshold - 1]
          /\ sent \in [Downs -> 0 .. MaxWrites] /\ armed \subseteq Downs
          /\ timers \in [Downs -> 0 .. MaxWrites]

\* While a GET that the proxy has not closed serves a session, the id leads to
\* that session and its queue is open: a post with the id reaches this proxy
\* connection.  Excepted are sessions that two GETs took, and ones a GET took
\* after their reaper had decided to remove them.
ServedIsReachable ==
    \A r \in Gets : pc[r] = "serving" /\ r \notin over /\ shared = {}
                       => table = sess[r] /\ sess[r] \notin closed

\* No write the proxy was told is done is stranded in the aggregation buffer: it
\* has reached the response when the connection is over, and until then it has a
\* timer to flush it, whichever of the timer's callbacks lost a race with a flush.
NothingStranded ==
    \A r \in Downs : IF r \in over THEN sent[r] = written[r] ELSE buf[r] > 0 => timers[r] > 0

\* Once its handler has returned the ResponseWriter is not touched again, by the
\* proxy's writes, its Close or a late flush callback.
SilentAfterReturn ==
    [][\A r \in Downs : pc[r] = "end" => sent'[r] = sent[r] /\ written'[r] = written[r]]_vars

\* A session object does not stay: its queue is closed in the end and the table
\* forgets it, whether a download came, never came, or raced the reaper.
SessionEnds == \A s \in Objects : (reaper[s] # "none") ~> (s \in closed /\ table # s)

=============================================================================
