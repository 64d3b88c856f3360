------------------------- MODULE XhttpSessionsProofs -------------------------
(***************************************************************************)
(* Proofs about XhttpSessions, for any requests, sessions and write sizes:  *)
(* a served session is the one the id leads to, no write is stranded in the *)
(* aggregation buffer, and a handler that returned leaves its response be.  *)
(***************************************************************************)
EXTENDS XhttpSessions, TLAPS

(* The GET has taken its session.                                            *)
Took(r) == r \in Gets /\ pc[r] \in {"serving", "delete", "end"}

(* The handlers are where their kind of request may be, with a session that   *)
(* was made.                                                                  *)
HandlersOK ==
  \A r \in Requests :
     /\ sess[r] <= made
     /\ pc[r] = "create" => r \notin Ones
     /\ pc[r] = "serving" => r \in Downs
     /\ pc[r] = "streaming" => r \in Streams
     /\ pc[r] = "delete" => r \in Gets
     /\ pc[r] \in {"handle", "serving", "delete"} /\ r \notin Ones => sess[r] \in Objects
     /\ Took(r) => sess[r] \in full

SessionsOK ==
  /\ table <= made
  /\ \A s \in Objects : /\ reaper[s] = "none" <=> s > made
                        /\ s \in full => s <= made
                        /\ s \in closed => s \in full \/ reaper[s] = "gone"

(* Somebody is still to remove the object from the table.                    *)
Pending(s) == \/ reaper[s] = "reap"
              \/ reaper[s] = "sleep" /\ s \notin full
              \/ \E r \in Gets : sess[r] = s /\ pc[r] \in {"serving", "delete"}

(* What holds until two GETs take an object, or one takes it too late: at     *)
(* most one remover is under way, and it is that of the object in the table.  *)
Unshared ==
  /\ \A s \in Objects : Pending(s) => table = s
  /\ \A r \in Gets : Took(r) => reaper[sess[r]] \in {"sleep", "gone"}
  /\ \A r, q \in Gets : Took(r) /\ Took(q) /\ sess[r] = sess[q] => r = q
  /\ \A r \in Gets : pc[r] = "serving" /\ r \notin over => sess[r] \notin closed

(* The aggregation buffer of a download, and the end of its handler.         *)
BufferOK(r) == /\ sent[r] + buf[r] = written[r]
               /\ timers[r] <= written[r]
               /\ r \in armed => timers[r] > 0
               /\ buf[r] > 0 => isH3 /\ r \notin over /\ r \in armed

DownTypes == /\ written \in [Downs -> 0 .. MaxWrites] /\ buf \in [Downs -> 0 .. Threshold - 1]
             /\ sent \in [Downs -> 0 .. MaxWrites] /\ timers \in [Downs -> 0 .. MaxWrites]
             /\ armed \subseteq Downs /\ over \subseteq Downs /\ isH3 \in BOOLEAN

DownsInv == DownTypes /\ \A r \in Downs : BufferOK(r)

Returned == \A r \in Downs : pc[r] \in {"delete", "end"} => r \in over

SessionTypes ==
  /\ table \in Objects \cup {None} /\ made \in 0 .. MaxSessions
  /\ full \subseteq Objects /\ closed \subseteq Objects
  /\ reaper \in [Objects -> {"none", "sleep", "reap", "close", "gone"}]
  /\ pc \in [Requests -> {"new", "create", "handle", "serving", "streaming",
                          "delete", "end", "refused"}]
  /\ sess \in [Requests -> Objects \cup {None}] /\ shared \subseteq Objects

TablesInv == SessionTypes /\ HandlersOK /\ SessionsOK /\ Returned

SessionsInv == TablesInv /\ DownsInv /\ (shared = {} => Unshared)

-----------------------------------------------------------------------------
(* The buffer.                                                               *)
LEMMA FlushKeeps ==
  ASSUME DownsInv, NEW r \in Downs, NEW n \in Nat, Flush(r, n),
         written' \in [Downs -> 0 .. MaxWrites], \A q \in Downs \ {r} : written'[q] = written[q],
         written[r] <= written'[r], sent[r] + n = written'[r],
         over' \in {over, over \cup {r}}, isH3' = isH3
  PROVE  DownsInv'
<1> USE SessionAssumption
<1>1. /\ DownTypes /\ \A q \in Downs : BufferOK(q)
      /\ sent' = [sent EXCEPT ![r] = @ + n] /\ buf' = [buf EXCEPT ![r] = 0] /\ armed' = armed \ {r}
  BY DEF DownsInv, Flush
<1>2. PICK k \in {0, 1} : (k = 1 => r \in armed) /\ timers' = [timers EXCEPT ![r] = @ - k]
  BY DEF Flush
<1>3. timers[r] - k \in 0 .. MaxWrites /\ timers[r] - k <= written'[r]
  BY <1>1, <1>2 DEF DownTypes, BufferOK
<1>4. DownTypes'
  BY <1>1, <1>2, <1>3 DEF DownTypes
<1>5. ASSUME NEW q \in Downs PROVE BufferOK(q)'
  <2>1. CASE q = r
    BY <1>1, <1>2, <1>3, <1>4, <2>1 DEF DownTypes, BufferOK
  <2>2. CASE q # r
    <3>1. /\ sent'[q] = sent[q] /\ buf'[q] = buf[q] /\ timers'[q] = timers[q]
          /\ written'[q] = written[q] /\ (q \in over' <=> q \in over) /\ (q \in armed' <=> q \in armed)
      BY <1>1, <1>2, <2>2 DEF DownTypes
    <3> QED
      BY <1>1, <3>1 DEF BufferOK
  <2> QED
    BY <2>1, <2>2
<1> QED
  BY <1>4, <1>5 DEF DownsInv

LEMMA WriteDowns ==
  ASSUME DownsInv, NEW r \in Requests, Write(r)
  PROVE  DownsInv'
<1> USE SessionAssumption
<1>1. /\ r \in Downs /\ r \notin over /\ written[r] < MaxWrites
      /\ written' = [written EXCEPT ![r] = @ + 1] /\ UNCHANGED <<over, isH3>>
      /\ DownTypes /\ \A q \in Downs : BufferOK(q)
  BY DEF Write, Writable, DownsInv
<1>2. /\ written' \in [Downs -> 0 .. MaxWrites] /\ written'[r] = written[r] + 1
      /\ written[r] \in Nat /\ buf[r] \in Nat /\ sent[r] \in Nat /\ timers[r] \in Nat
      /\ sent[r] + buf[r] = written[r] /\ MaxWrites \in Nat /\ timers[r] <= written[r]
  BY <1>1 DEF DownTypes, BufferOK
<1>3. ASSUME ~isH3, sent' = [sent EXCEPT ![r] = @ + 1], UNCHANGED <<buf, armed, timers>>
      PROVE  DownsInv'
  <2>1. buf[r] = 0 /\ sent[r] + 1 \in 0 .. MaxWrites
    BY <1>1, <1>2, <1>3 DEF BufferOK
  <2>2. DownTypes'
    BY <1>1, <1>2, <1>3, <2>1 DEF DownTypes
  <2>3. ASSUME NEW q \in Downs PROVE BufferOK(q)'
    BY <1>1, <1>2, <1>3, <2>1 DEF DownTypes, BufferOK
  <2> QED
    BY <2>2, <2>3 DEF DownsInv
<1>4. ASSUME isH3, Flush(r, buf[r] + 1) PROVE DownsInv'
  <2>1. buf[r] + 1 \in Nat /\ sent[r] + (buf[r] + 1) = written'[r] /\ written[r] <= written'[r]
    BY <1>2
  <2>2. \A q \in Downs \ {r} : written'[q] = written[q]
    BY <1>1 DEF DownTypes
  <2>3. PICK n \in Nat : n = buf[r] + 1
    BY <2>1
  <2>4. Flush(r, n)
    BY <1>4, <2>3 DEF Flush
  <2> QED
    BY <1>1, <1>2, <2>1, <2>2, <2>3, <2>4, FlushKeeps
<1>5. ASSUME isH3, ~FullAt(buf[r] + 1), buf' = [buf EXCEPT ![r] = @ + 1], UNCHANGED sent,
             armed' = armed \cup {r},
             timers' = [timers EXCEPT ![r] = IF r \in armed THEN @ ELSE @ + 1]
      PROVE  DownsInv'
  <2>1. /\ buf[r] + 1 \in 0 .. Threshold - 1 /\ timers'[r] \in 0 .. MaxWrites
        /\ timers'[r] > 0 /\ timers'[r] <= written'[r]
    BY <1>1, <1>2, <1>5 DEF DownTypes, BufferOK, FullAt
  <2>2. DownTypes'
    BY <1>1, <1>2, <1>5, <2>1 DEF DownTypes
  <2>3. ASSUME NEW q \in Downs PROVE BufferOK(q)'
    <3>1. CASE q = r
      BY <1>1, <1>2, <1>5, <2>1, <3>1 DEF DownTypes, BufferOK
    <3>2. CASE q # r
      BY <1>1, <1>5, <3>2 DEF DownTypes, BufferOK
    <3> QED
      BY <3>1, <3>2
  <2> QED
    BY <2>2, <2>3 DEF DownsInv
<1> QED
  BY <1>3, <1>4, <1>5 DEF Write

LEMMA TimerDowns ==
  ASSUME DownsInv, NEW r \in Requests, FlushTimer(r)
  PROVE  DownsInv'
<1> USE SessionAssumption
<1>1. /\ r \in Downs /\ timers[r] > 0 /\ timers' = [timers EXCEPT ![r] = @ - 1]
      /\ armed' = armed \ {r} /\ UNCHANGED <<over, isH3, written>>
      /\ DownTypes /\ \A q \in Downs : BufferOK(q)
  BY DEF FlushTimer, DownsInv
<1>2. timers[r] \in 0 .. MaxWrites /\ timers[r] <= written[r] /\ written[r] \in 0 .. MaxWrites
  BY <1>1 DEF DownTypes, BufferOK
<1>3. CASE r \in over
  <2>1. buf' = buf /\ sent' = sent /\ buf[r] = 0
    BY <1>1, <1>3 DEF FlushTimer, BufferOK, DownTypes
  <2>2. DownTypes'
    BY <1>1, <1>2, <2>1 DEF DownTypes
  <2>3. ASSUME NEW q \in Downs PROVE BufferOK(q)'
    BY <1>1, <1>2, <2>1 DEF DownTypes, BufferOK
  <2> QED
    BY <2>2, <2>3 DEF DownsInv
<1>4. CASE r \notin over
  <2>1. sent' = [sent EXCEPT ![r] = @ + buf[r]] /\ buf' = [buf EXCEPT ![r] = 0]
    BY <1>4 DEF FlushTimer
  <2>2. sent[r] + buf[r] = written[r] /\ sent[r] + buf[r] \in 0 .. MaxWrites
    BY <1>1, <1>2 DEF BufferOK
  <2>3. DownTypes'
    BY <1>1, <1>2, <2>1, <2>2 DEF DownTypes
  <2>4. ASSUME NEW q \in Downs PROVE BufferOK(q)'
    <3>1. CASE q = r
      BY <1>1, <1>2, <2>1, <2>2, <3>1 DEF DownTypes, BufferOK
    <3>2. CASE q # r
      BY <1>1, <2>1, <3>2 DEF DownTypes, BufferOK
    <3> QED
      BY <3>1, <3>2
  <2> QED
    BY <2>3, <2>4 DEF DownsInv
<1> QED
  BY <1>3, <1>4

LEMMA CloseDowns ==
  ASSUME DownsInv, NEW r \in Downs, CloseConn(r)
  PROVE  DownsInv'
<1>1. /\ over' = over \cup {r} /\ UNCHANGED <<written, isH3>>
      /\ DownTypes /\ \A q \in Downs : BufferOK(q)
  BY DEF CloseConn, DownsInv
<1>2. CASE isH3 /\ r \notin over
  <2>1. PICK n \in Nat : n = buf[r]
    BY <1>1, SessionAssumption DEF DownTypes
  <2>2. Flush(r, n)
    BY <1>2, <2>1 DEF CloseConn, CloseFlushes, Flush
  <2>3. /\ written' \in [Downs -> 0 .. MaxWrites] /\ \A q \in Downs \ {r} : written'[q] = written[q]
        /\ written[r] <= written'[r] /\ sent[r] + n = written'[r]
    BY <1>1, <2>1, SessionAssumption DEF DownTypes, BufferOK
  <2> QED
    BY <1>1, <2>2, <2>3, FlushKeeps
<1>3. CASE ~(isH3 /\ r \notin over)
  <2>1. UNCHANGED <<sent, buf, armed, timers>>
    BY <1>3 DEF CloseConn, CloseFlushes
  <2>2. ~(buf[r] > 0)
    BY <1>1, <1>3 DEF BufferOK
  <2> QED
    BY <1>1, <2>1, <2>2 DEF DownsInv, DownTypes, BufferOK
<1> QED
  BY <1>2, <1>3

LEMMA DownsStep ==
  ASSUME DownsInv, [Next]_vars
  PROVE  DownsInv'
<1>1. ASSUME UNCHANGED <<down, isH3>> PROVE DownsInv'
  BY <1>1 DEF down, DownsInv, DownTypes, BufferOK
<1>2. CASE UNCHANGED vars
  BY <1>1, <1>2 DEF vars
<1>3. ASSUME NEW r \in Requests, Handle(r) \/ Reject(r) \/ StreamEnds(r) PROVE DownsInv'
  BY <1>1, <1>3 DEF Handle, Lookup, Create, Post, Stream, Serve, DeleteSession, Reject, StreamEnds
<1>4. ASSUME NEW r \in Requests, ProxyCloses(r) \/ HandlerCloses(r) PROVE DownsInv'
  BY <1>4, CloseDowns DEF ProxyCloses, HandlerCloses
<1>5. ASSUME NEW s \in Objects, Reap(s) PROVE DownsInv'
  BY <1>1, <1>5 DEF Reap, ReaperWakes, ReaperDeletes, ReaperCloses
<1> QED
  BY <1>2, <1>3, <1>4, <1>5, WriteDowns, TimerDowns DEF Next

-----------------------------------------------------------------------------
(* The tables.  A step of a handler that touches no session.                 *)
LEMMA HandlerMoves ==
  ASSUME TablesInv, NEW r \in Requests, NEW l, pc' = [pc EXCEPT ![r] = l],
         UNCHANGED <<session, shared, over>>, l = "end" => r \notin Downs,
         \/ l \in {"end", "refused"} /\ sess' = sess
         \/ l = "streaming" /\ r \in Streams /\ sess' = sess
         \/ l = "create" /\ r \notin Ones /\ sess' = [sess EXCEPT ![r] = table]
         \/ /\ l = "handle" /\ sess' = [sess EXCEPT ![r] = IF r \in Ones THEN None ELSE table]
            /\ r \in Ones \/ table # None
  PROVE  TablesInv'
<1> USE SessionAssumption DEF None, Objects
<1>1. /\ SessionTypes /\ HandlersOK /\ SessionsOK /\ Returned
      /\ UNCHANGED <<table, made, full, closed, reaper>>
  BY DEF TablesInv, session
<1>2. SessionTypes'
  BY <1>1 DEF SessionTypes
<1>3. SessionsOK'
  BY <1>1 DEF SessionsOK
<1>4. Returned'
  BY <1>1 DEF Returned, SessionTypes
<1>5. ASSUME NEW q \in Requests
      PROVE  /\ sess'[q] <= made'
             /\ pc'[q] = "create" => q \notin Ones
             /\ pc'[q] = "serving" => q \in Downs
             /\ pc'[q] = "streaming" => q \in Streams
             /\ pc'[q] = "delete" => q \in Gets
             /\ pc'[q] \in {"handle", "serving", "delete"} /\ q \notin Ones => sess'[q] \in Objects
             /\ Took(q)' => sess'[q] \in full'
  <2>1. CASE q # r
    <3>1. pc'[q] = pc[q] /\ sess'[q] = sess[q]
      BY <1>1, <2>1 DEF SessionTypes
    <3> QED
      BY <1>1, <3>1 DEF HandlersOK, Took
  <2>2. CASE q = r
    BY <1>1, <2>2 DEF HandlersOK, SessionsOK, SessionTypes, Took, Downs
  <2> QED
    BY <2>1, <2>2
<1>6. HandlersOK'
  BY <1>5 DEF HandlersOK
<1> QED
  BY <1>2, <1>3, <1>4, <1>6 DEF TablesInv

LEMMA TablesStep ==
  ASSUME TablesInv, DownsInv, [Next]_vars
  PROVE  TablesInv'
<1> USE SessionAssumption DEF None, Objects, GoTo
<1>1. SessionTypes /\ HandlersOK /\ SessionsOK /\ Returned
  BY DEF TablesInv
<1>2. ASSUME UNCHANGED <<session, pc, sess, shared>>, over \subseteq over' PROVE TablesInv'
  BY <1>1, <1>2 DEF session, TablesInv, SessionTypes, HandlersOK, Took, SessionsOK, Returned
<1>3. CASE UNCHANGED vars
  BY <1>2, <1>3 DEF vars, down
<1>4. ASSUME NEW r \in Requests,
             Lookup(r) \/ Reject(r) \/ Post(r) \/ Stream(r) \/ StreamEnds(r)
      PROVE  TablesInv'
  <2>1. UNCHANGED <<session, shared, over>>
    BY <1>4 DEF Lookup, Reject, Post, Stream, StreamEnds, down
  <2>2. CASE Lookup(r)
    <3>1. CASE r \in Ones \/ table # None
      BY <2>1, <2>2, <3>1, HandlerMoves DEF Lookup
    <3>2. CASE ~(r \in Ones \/ table # None)
      BY <2>1, <2>2, <3>2, HandlerMoves DEF Lookup
    <3> QED
      BY <3>1, <3>2
  <2>3. CASE Reject(r)
    BY <2>1, <2>3, HandlerMoves DEF Reject
  <2>4. CASE Post(r)
    BY <2>1, <2>4, HandlerMoves DEF Post, Downs
  <2>5. CASE Stream(r)
    BY <2>1, <2>5, HandlerMoves DEF Stream, Downs
  <2>6. CASE StreamEnds(r)
    <3>1. r \in Streams
      BY <1>1, <2>6 DEF HandlersOK, StreamEnds
    <3> QED
      BY <2>1, <2>6, <3>1, HandlerMoves DEF StreamEnds, Downs
  <2> QED
    BY <1>4, <2>2, <2>3, <2>4, <2>5, <2>6
<1>5. ASSUME NEW r \in Requests, Create(r) PROVE TablesInv'
  <2>1. CASE table # None
    <3>1. r \notin Ones
      BY <1>1, <1>5 DEF HandlersOK, Create
    <3> QED
      BY <1>5, <2>1, <3>1, HandlerMoves DEF Create, session, down
  <2>2. CASE table = None
    <3>1. PICK s \in Objects : s = made + 1
      BY <1>1, <1>5, <2>2 DEF Create, SessionTypes
    <3>2. /\ pc[r] = "create" /\ pc' = [pc EXCEPT ![r] = "handle"]
          /\ made' = s /\ table' = s /\ reaper' = [reaper EXCEPT ![s] = "sleep"]
          /\ sess' = [sess EXCEPT ![r] = s]
          /\ UNCHANGED <<full, closed, shared, over>>
      BY <1>5, <2>2, <3>1 DEF Create, down
    <3>3. SessionTypes'
      BY <1>1, <3>1, <3>2 DEF SessionTypes
    <3>4. SessionsOK'
      BY <1>1, <3>1, <3>2 DEF SessionTypes, SessionsOK
    <3>5. Returned'
      BY <1>1, <3>2 DEF SessionTypes, Returned, Downs, Requests
    <3>6. HandlersOK'
      BY <1>1, <3>1, <3>2 DEF SessionTypes, HandlersOK, Took
    <3> QED
      BY <3>3, <3>4, <3>5, <3>6 DEF TablesInv
  <2> QED
    BY <2>1, <2>2
<1>6. ASSUME NEW r \in Requests, Serve(r) PROVE TablesInv'
  <2>1. /\ r \in Downs /\ pc[r] = "handle" /\ pc' = [pc EXCEPT ![r] = "serving"]
        /\ full' = (IF r \in Gets THEN full \cup {sess[r]} ELSE full)
        /\ shared' \in {shared, shared \cup {sess[r]}}
        /\ sess[r] \in full \/ r \in Gets \/ shared' = shared
        /\ UNCHANGED <<table, made, closed, reaper, sess, over>>
    BY <1>6 DEF Serve, down
  <2>2. r \in Gets => sess[r] \in Objects /\ sess[r] <= made
    BY <1>1, <2>1 DEF HandlersOK
  <2>3. SessionTypes'
    BY <1>1, <2>1, <2>2 DEF SessionTypes
  <2>4. SessionsOK'
    BY <1>1, <2>1, <2>2 DEF SessionsOK
  <2>5. Returned'
    BY <1>1, <2>1 DEF SessionTypes, Returned, Downs, Requests
  <2>6. HandlersOK'
    BY <1>1, <2>1, <2>2 DEF SessionTypes, HandlersOK, Took
  <2> QED
    BY <2>3, <2>4, <2>5, <2>6 DEF TablesInv
<1>7. ASSUME NEW r \in Requests, ProxyCloses(r) \/ HandlerCloses(r) PROVE TablesInv'
  <2>1. /\ r \in Downs /\ pc[r] = "serving" /\ over' = over \cup {r}
        /\ closed' = (IF r \in Gets THEN closed \cup {sess[r]} ELSE closed)
        /\ \/ pc' = pc
           \/ pc' = [pc EXCEPT ![r] = IF r \in Gets THEN "delete" ELSE "end"]
        /\ UNCHANGED <<table, made, full, reaper, sess, shared>>
    BY <1>7 DEF ProxyCloses, HandlerCloses, CloseConn
  <2>2. r \in Gets => sess[r] \in Objects /\ sess[r] \in full
    BY <1>1, <2>1 DEF HandlersOK, Took
  <2>3. SessionTypes'
    BY <1>1, <2>1, <2>2 DEF SessionTypes
  <2>4. SessionsOK'
    BY <1>1, <2>1, <2>2 DEF SessionsOK
  <2>5. Returned'
    BY <1>1, <2>1 DEF SessionTypes, Returned, Downs, Requests
  <2>6. HandlersOK'
    BY <1>1, <2>1 DEF SessionTypes, HandlersOK, Took, Downs
  <2> QED
    BY <2>3, <2>4, <2>5, <2>6 DEF TablesInv
<1>8. ASSUME NEW r \in Requests, DeleteSession(r) PROVE TablesInv'
  <2>1. /\ pc[r] = "delete" /\ pc' = [pc EXCEPT ![r] = "end"] /\ table' = None
        /\ UNCHANGED <<made, full, closed, reaper, sess, shared, over>>
    BY <1>8 DEF DeleteSession, down
  <2>2. r \in Gets
    BY <1>1, <2>1 DEF HandlersOK
  <2>3. SessionTypes' /\ SessionsOK'
    BY <1>1, <2>1 DEF SessionTypes, SessionsOK
  <2>4. Returned'
    BY <1>1, <2>1 DEF SessionTypes, Returned, Downs, Requests
  <2>5. HandlersOK'
    BY <1>1, <2>1, <2>2 DEF SessionTypes, HandlersOK, Took
  <2> QED
    BY <2>3, <2>4, <2>5 DEF TablesInv
<1>9. ASSUME NEW s \in Objects, Reap(s) PROVE TablesInv'
  <2>1. UNCHANGED <<made, full, pc, sess, shared, over>>
    BY <1>9 DEF Reap, ReaperWakes, ReaperDeletes, ReaperCloses, down
  <2>2. /\ reaper[s] # "none" /\ table' \in {table, None}
        /\ \/ closed' = closed /\ reaper[s] \in {"sleep", "reap"}
              /\ \E l \in {"reap", "gone", "close"} : reaper' = [reaper EXCEPT ![s] = l]
           \/ closed' = closed \cup {s} /\ reaper' = [reaper EXCEPT ![s] = "gone"]
    BY <1>9 DEF Reap, ReaperWakes, ReaperDeletes, ReaperCloses, ReaperShuts
  <2>3. SessionTypes'
    BY <1>1, <2>1, <2>2 DEF SessionTypes
  <2>4. SessionsOK'
    BY <1>1, <2>1, <2>2 DEF SessionTypes, SessionsOK
  <2>5. Returned' /\ HandlersOK'
    BY <1>1, <2>1 DEF Returned, HandlersOK, Took
  <2> QED
    BY <2>3, <2>4, <2>5 DEF TablesInv
<1>10. ASSUME NEW r \in Requests, Write(r) \/ FlushTimer(r) PROVE TablesInv'
  BY <1>2, <1>10 DEF Write, FlushTimer
<1> QED
  BY <1>3, <1>4, <1>5, <1>6, <1>7, <1>8, <1>9, <1>10 DEF Next, Handle

-----------------------------------------------------------------------------
(* Reachability.  A step after which no session is shared or taken too late.  *)

(* A step that leaves the sessions and what was taken of them alone.          *)
LEMMA UnsharedKept ==
  ASSUME Unshared, UNCHANGED session, over \subseteq over',
         \A q \in Gets : Took(q)' => /\ Took(q) /\ sess'[q] = sess[q]
                                     /\ pc'[q] \in {"serving", "delete"} => pc[q] \in {"serving", "delete"}
                                     /\ pc'[q] = "serving" => pc[q] = "serving"
  PROVE  Unshared'
<1>1. UNCHANGED <<table, full, closed, reaper>>
  BY DEF session
<1>2. ASSUME NEW s \in Objects, Pending(s)' PROVE Pending(s)
  BY <1>1, <1>2 DEF Pending, Took
<1>3. \A r \in Gets : pc'[r] = "serving" => Took(r)'
  BY DEF Took
<1> QED
  BY <1>1, <1>2, <1>3 DEF Unshared

LEMMA UnsharedStep ==
  ASSUME TablesInv, shared = {} => Unshared, [Next]_vars, shared' = {}
  PROVE  Unshared'
<1> USE SessionAssumption DEF None, Objects, GoTo
<1>1. SessionTypes /\ HandlersOK /\ SessionsOK
  BY DEF TablesInv
<1>2. CASE UNCHANGED vars
  <2>1. Unshared /\ UNCHANGED <<session, over, pc, sess>>
    BY <1>2 DEF vars, down
  <2> QED
    BY <2>1, UnsharedKept DEF Took
<1>3. ASSUME NEW r \in Requests, UNCHANGED <<session, over, shared>>, ~Took(r),
             NEW l, pc' = [pc EXCEPT ![r] = l], r \in Gets => l \notin {"serving", "delete", "end"},
             \A q \in Requests \ {r} : sess'[q] = sess[q]
      PROVE  Unshared'
  <2>1. \A q \in Gets : Took(q)' => q # r
    BY <1>1, <1>3 DEF Took, SessionTypes, Requests
  <2>2. \A q \in Gets \ {r} : pc'[q] = pc[q] /\ sess'[q] = sess[q]
    BY <1>1, <1>3 DEF SessionTypes, Requests
  <2> QED
    BY <1>3, <2>1, <2>2, UnsharedKept DEF Took
<1>4. ASSUME NEW r \in Requests,
             Lookup(r) \/ Reject(r) \/ Post(r) \/ Stream(r) \/ StreamEnds(r)
      PROVE  Unshared'
  <2>1. UNCHANGED <<session, over, shared>> /\ \A q \in Requests \ {r} : sess'[q] = sess[q]
    BY <1>1, <1>4 DEF Lookup, Reject, Post, Stream, StreamEnds, down, SessionTypes
  <2>2. ~Took(r)
    BY <1>1, <1>4 DEF Lookup, Arrives, Reject, Post, Stream, StreamEnds, Took
  <2>3. \E l : pc' = [pc EXCEPT ![r] = l] /\ (r \in Gets => l \notin {"serving", "delete", "end"})
    BY <1>1, <1>4 DEF Lookup, Reject, Post, Stream, StreamEnds, Downs, HandlersOK
  <2> QED
    BY <2>1, <2>2, <2>3, <1>3
<1>5. ASSUME NEW r \in Requests, Create(r) PROVE Unshared'
  <2>1. /\ pc[r] = "create" /\ pc' = [pc EXCEPT ![r] = "handle"] /\ UNCHANGED <<over, shared>>
        /\ \A q \in Requests \ {r} : sess'[q] = sess[q]
    BY <1>1, <1>5 DEF Create, down, SessionTypes, session
  <2>2. CASE table # None
    BY <1>3, <1>5, <2>1, <2>2 DEF Create, Took
  <2>3. CASE table = None
    <3>1. /\ UNCHANGED <<full, closed>> /\ table' = made + 1
          /\ reaper' = [reaper EXCEPT ![made + 1] = "sleep"] /\ made + 1 \in Objects /\ Unshared
      BY <1>1, <1>5, <2>1, <2>3 DEF Create, SessionTypes
    <3>2. \A q \in Gets : /\ Took(q)' <=> Took(q)
                          /\ Took(q) => /\ sess'[q] = sess[q] /\ pc'[q] = pc[q]
                                        /\ sess[q] \in Objects /\ sess[q] # made + 1
      BY <1>1, <2>1 DEF SessionTypes, HandlersOK, SessionsOK, Took, Requests
    <3>3. \A s \in Objects : Pending(s)' => Pending(s) \/ s = made + 1
      BY <1>1, <3>1, <3>2 DEF Pending, Took, SessionTypes
    <3>4. \A q \in Gets : Took(q)' => reaper'[sess'[q]] = reaper[sess[q]]
      BY <1>1, <3>1, <3>2 DEF SessionTypes
    <3>5. \A q \in Gets : pc'[q] = "serving" => Took(q)'
      BY DEF Took
    <3> QED
      BY <2>1, <2>3, <3>1, <3>2, <3>3, <3>4, <3>5 DEF Unshared
  <2> QED
    BY <2>2, <2>3
<1>6. ASSUME NEW r \in Requests, Serve(r) PROVE Unshared'
  <2>1. /\ r \in Downs /\ pc[r] = "handle" /\ pc' = [pc EXCEPT ![r] = "serving"]
        /\ full' = (IF r \in Gets THEN full \cup {sess[r]} ELSE full)
        /\ sess[r] \notin full /\ (r \in Gets => reaper[sess[r]] = "sleep") /\ Unshared
        /\ UNCHANGED <<table, closed, reaper, sess, over>>
    BY <1>6 DEF Serve, down
  <2>2. r \in Gets => sess[r] \in Objects /\ Pending(sess[r])
    BY <1>1, <2>1 DEF HandlersOK, Pending, Requests
  <2>3. \A q \in Gets : Took(q)' <=> Took(q) \/ q = r
    BY <1>1, <2>1 DEF SessionTypes, Took, Requests
  <2>4. \A s \in Objects : Pending(s)' => Pending(s) \/ (r \in Gets /\ s = sess[r])
    BY <1>1, <2>1 DEF SessionTypes, Pending, Requests
  <2>5. \A q \in Gets : Took(q) => sess[q] \in full
    BY <1>1 DEF HandlersOK, Requests
  <2>6. r \in Gets => sess[r] \notin closed
    BY <1>1, <2>1, <2>2 DEF SessionsOK
  <2>7. \A q \in Gets : q # r => pc'[q] = pc[q]
    BY <1>1, <2>1 DEF SessionTypes, Requests
  <2> QED
    BY <2>1, <2>2, <2>3, <2>4, <2>5, <2>6, <2>7 DEF Unshared
<1>7. ASSUME NEW r \in Requests, ProxyCloses(r) \/ HandlerCloses(r) PROVE Unshared'
  <2>1. /\ pc[r] = "serving" /\ over' = over \cup {r}
        /\ closed' = (IF r \in Gets THEN closed \cup {sess[r]} ELSE closed)
        /\ \/ pc' = pc
           \/ pc' = [pc EXCEPT ![r] = IF r \in Gets THEN "delete" ELSE "end"]
        /\ UNCHANGED <<table, full, reaper, sess>> /\ Unshared
    BY <1>7 DEF ProxyCloses, HandlerCloses, CloseConn
  <2>2. \A q \in Gets : (Took(q)' <=> Took(q)) /\ (pc'[q] = "serving" => pc[q] = "serving" /\ Took(q))
    BY <1>1, <2>1 DEF SessionTypes, Took, Requests
  <2>3. \A s \in Objects : Pending(s)' => Pending(s)
    BY <1>1, <2>1 DEF SessionTypes, Pending, Requests
  <2>4. r \in Gets => Took(r)
    BY <2>1 DEF Took
  <2> QED
    BY <2>1, <2>2, <2>3, <2>4 DEF Unshared
<1>8. ASSUME NEW r \in Requests, DeleteSession(r) PROVE Unshared'
  <2>1. /\ r \in Gets /\ pc[r] = "delete" /\ pc' = [pc EXCEPT ![r] = "end"] /\ table' = None
        /\ UNCHANGED <<full, closed, reaper, sess, over>> /\ Unshared
    BY <1>1, <1>8 DEF DeleteSession, HandlersOK, down
  <2>2. /\ \A q \in Gets : /\ Took(q)' <=> Took(q)
                           /\ pc'[q] = "serving" => pc[q] = "serving"
        /\ \A q \in Gets : pc'[q] \in {"serving", "delete"} => pc[q] = pc'[q] /\ q # r
    BY <1>1, <2>1 DEF SessionTypes, Took, Requests
  <2>3. sess[r] \in Objects /\ sess[r] \in full /\ Took(r) /\ Pending(sess[r])
    BY <1>1, <2>1 DEF HandlersOK, Took, Pending
  <2>4. reaper[sess[r]] \in {"sleep", "gone"} /\ table = sess[r]
    BY <2>1, <2>3 DEF Unshared
  <2>5. ASSUME NEW s \in Objects, Pending(s)' PROVE FALSE
    <3>1. Pending(s)
      BY <2>1, <2>2, <2>5 DEF Pending
    <3>2. s = sess[r]
      BY <2>1, <2>4, <3>1 DEF Unshared
    <3>3. PICK q \in Gets : sess[q] = s /\ pc'[q] \in {"serving", "delete"}
      BY <2>1, <2>3, <2>4, <2>5, <3>2 DEF Pending
    <3>4. Took(q) /\ q # r
      BY <2>2, <3>3 DEF Took
    <3> QED
      BY <2>1, <2>3, <3>2, <3>3, <3>4 DEF Unshared
  <2> QED
    BY <2>1, <2>2, <2>5 DEF Unshared
<1>9. ASSUME NEW s \in Objects, Reap(s) PROVE Unshared'
  <2>1. UNCHANGED <<made, full, pc, sess, shared, over>> /\ Unshared
    BY <1>9 DEF Reap, ReaperWakes, ReaperDeletes, ReaperCloses, down
  <2>2. \A q \in Gets : /\ Took(q)' <=> Took(q)
                        /\ Took(q) => sess[q] \in full
                        /\ Took(q) => sess[q] \in Objects /\ reaper[sess[q]] \in {"sleep", "gone"}
                        /\ pc[q] \in {"serving", "delete"} => Took(q)
    BY <1>1, <2>1 DEF SessionTypes, HandlersOK, Unshared, Took, Requests
  <2>3. CASE ReaperWakes(s)
    <3>1. /\ reaper[s] = "sleep" /\ UNCHANGED <<table, closed>>
          /\ reaper' = [reaper EXCEPT ![s] = IF s \notin full THEN "reap" ELSE "gone"]
      BY <2>3 DEF ReaperWakes, Reaps
    <3>2. \A t \in Objects : Pending(t)' => Pending(t)
      BY <1>1, <2>1, <3>1 DEF SessionTypes, Pending
    <3>3. \A q \in Gets : Took(q) => reaper'[sess[q]] \in {"sleep", "gone"}
      BY <1>1, <2>2, <3>1 DEF SessionTypes
    <3> QED
      BY <2>1, <2>2, <3>1, <3>2, <3>3 DEF Unshared
  <2>4. CASE ReaperDeletes(s)
    <3>1. /\ reaper[s] = "reap" /\ table' = None /\ UNCHANGED closed
          /\ reaper' = [reaper EXCEPT ![s] = "close"]
      BY <2>4 DEF ReaperDeletes
    <3>2. ASSUME NEW t \in Objects, Pending(t)' PROVE FALSE
      <4>1. Pending(t) /\ Pending(s)
        BY <1>1, <2>1, <3>1, <3>2 DEF SessionTypes, Pending
      <4>2. t = s
        BY <2>1, <4>1 DEF Unshared
      <4>3. PICK q \in Gets : sess[q] = s /\ pc[q] \in {"serving", "delete"}
        BY <1>1, <2>1, <3>1, <3>2, <4>2 DEF SessionTypes, Pending
      <4> QED
        BY <2>2, <3>1, <4>3
    <3>3. \A q \in Gets : Took(q) => reaper'[sess[q]] \in {"sleep", "gone"}
      BY <1>1, <2>2, <3>1 DEF SessionTypes
    <3> QED
      BY <2>1, <2>2, <3>1, <3>2, <3>3 DEF Unshared
  <2>5. CASE ReaperCloses(s)
    <3>1. /\ reaper[s] = "close" /\ closed' = closed \cup {s} /\ UNCHANGED table
          /\ reaper' = [reaper EXCEPT ![s] = "gone"]
      BY <2>5 DEF ReaperCloses, ReaperShuts
    <3>2. \A t \in Objects : Pending(t)' => Pending(t)
      BY <1>1, <2>1, <3>1 DEF SessionTypes, Pending
    <3>3. \A q \in Gets : Took(q) => sess[q] # s /\ reaper'[sess[q]] \in {"sleep", "gone"}
      BY <1>1, <2>2, <3>1 DEF SessionTypes
    <3> QED
      BY <2>1, <2>2, <3>1, <3>2, <3>3 DEF Unshared
  <2> QED
    BY <1>9, <2>3, <2>4, <2>5 DEF Reap
<1>10. ASSUME NEW r \in Requests, Write(r) \/ FlushTimer(r) PROVE Unshared'
  <2>1. Unshared /\ UNCHANGED <<session, over, pc, sess>>
    BY <1>10 DEF Write, FlushTimer
  <2> QED
    BY <2>1, UnsharedKept DEF Took
<1> QED
  BY <1>2, <1>4, <1>5, <1>6, <1>7, <1>8, <1>9, <1>10 DEF Next, Handle

-----------------------------------------------------------------------------
(* The theorems.                                                             *)
LEMMA SessionsStart == Init => SessionsInv
<1> USE SessionAssumption DEF None, Objects
<1> SUFFICES ASSUME Init PROVE SessionsInv
  OBVIOUS
<1>1. SessionTypes
  BY DEF Init, SessionTypes
<1>2. HandlersOK /\ SessionsOK /\ Returned
  BY DEF Init, HandlersOK, SessionsOK, Returned, Took, Requests, Downs
<1>3. DownTypes
  BY DEF Init, DownTypes
<1>4. \A r \in Downs : BufferOK(r)
  BY DEF Init, BufferOK
<1>5. Unshared
  BY DEF Init, Unshared, Pending, Took, Requests
<1> QED
  BY <1>1, <1>2, <1>3, <1>4, <1>5 DEF SessionsInv, TablesInv, DownsInv

LEMMA SessionsStep == SessionsInv /\ [Next]_vars => SessionsInv'
  BY DownsStep, TablesStep, UnsharedStep DEF SessionsInv

LEMMA SessionsInvariant == Spec => []SessionsInv
  BY SessionsStart, SessionsStep, PTL DEF Spec

(* The table, the reapers, the handlers and the downloads keep their types.   *)
THEOREM SessionsTyped == Spec => []TypeOK
<1>1. SessionsInv => TypeOK
  BY DEF SessionsInv, TablesInv, DownsInv, SessionTypes, DownTypes, TypeOK
<1> QED
  BY <1>1, SessionsInvariant, PTL

(* While a GET that the proxy has not closed serves a session, upsertSession   *)
(* hands that session, open, to every request with the id; as long as no two   *)
(* GETs took one object and none took one that its reaper was removing.        *)
THEOREM ServedIsReachableHolds == Spec => []ServedIsReachable
<1>1. SessionsInv => ServedIsReachable
  <2> SUFFICES ASSUME SessionsInv, NEW r \in Gets, pc[r] = "serving", r \notin over, shared = {}
               PROVE  table = sess[r] /\ sess[r] \notin closed
    BY DEF ServedIsReachable
  <2>1. Unshared /\ sess[r] \in Objects
    BY SessionAssumption DEF SessionsInv, TablesInv, HandlersOK, Requests
  <2>2. Pending(sess[r])
    BY DEF Pending
  <2> QED
    BY <2>1, <2>2 DEF Unshared
<1> QED
  BY <1>1, SessionsInvariant, PTL

(* A write the proxy was told is done has reached the response when the        *)
(* connection is over, and has a flush callback to come until then, whichever   *)
(* of the callbacks lost its race with flushWriteBuf.                          *)
THEOREM NothingStrandedHolds == Spec => []NothingStranded
<1>1. SessionsInv => NothingStranded
  <2> SUFFICES ASSUME SessionsInv, NEW r \in Downs
               PROVE  IF r \in over THEN sent[r] = written[r] ELSE buf[r] > 0 => timers[r] > 0
    BY DEF NothingStranded
  <2>1. /\ BufferOK(r) /\ sent[r] \in Nat /\ buf[r] \in Nat
    BY SessionAssumption DEF SessionsInv, DownsInv, DownTypes
  <2> QED
    BY <2>1 DEF BufferOK
<1> QED
  BY <1>1, SessionsInvariant, PTL

(* Once ServeHTTP has returned, no Write, Close or late flush callback touches  *)
(* its ResponseWriter: the connection was over before, and its buffer empty.    *)
THEOREM SilentAfterReturnHolds == Spec => SilentAfterReturn
<1>1. ASSUME SessionsInv, [Next]_vars, NEW r \in Downs, pc[r] = "end"
      PROVE  sent'[r] = sent[r] /\ written'[r] = written[r]
  <2>1. r \in over /\ DownTypes
    BY <1>1 DEF SessionsInv, DownsInv, TablesInv, Returned
  <2>2. CASE UNCHANGED vars
    BY <2>2 DEF vars, down
  <2>3. ASSUME NEW q \in Requests, Handle(q) \/ Reject(q) \/ StreamEnds(q)
        PROVE  UNCHANGED <<sent, written>>
    BY <2>3 DEF Handle, Lookup, Create, Post, Stream, Serve, DeleteSession, Reject, StreamEnds, down
  <2>4. ASSUME NEW q \in Requests, Write(q) PROVE sent'[r] = sent[r] /\ written'[r] = written[r]
    <3>1. q # r
      BY <2>1, <2>4 DEF Write, Writable
    <3> QED
      BY <2>1, <2>4, <3>1 DEF Write, Flush, DownTypes
  <2>5. ASSUME NEW q \in Requests, FlushTimer(q) PROVE sent'[r] = sent[r] /\ written'[r] = written[r]
    BY <2>1, <2>5 DEF FlushTimer, DownTypes
  <2>6. ASSUME NEW q \in Requests, ProxyCloses(q) \/ HandlerCloses(q)
        PROVE  sent'[r] = sent[r] /\ written'[r] = written[r]
    BY <2>1, <2>6 DEF ProxyCloses, HandlerCloses, CloseConn, CloseFlushes, Flush, DownTypes
  <2>7. ASSUME NEW s \in Objects, Reap(s) PROVE UNCHANGED <<sent, written>>
    BY <2>7 DEF Reap, ReaperWakes, ReaperDeletes, ReaperCloses, down
  <2> QED
    BY <1>1, <2>2, <2>3, <2>4, <2>5, <2>6, <2>7 DEF Next
<1>2. SessionsInv /\ [Next]_vars =>
        [\A r \in Downs : pc[r] = "end" => sent'[r] = sent[r] /\ written'[r] = written[r]]_vars
  BY <1>1
<1> QED
  BY <1>2, SessionsInvariant, PTL DEF Spec, SilentAfterReturn

==============================================================================
