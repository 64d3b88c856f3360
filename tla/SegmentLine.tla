----------------------------- MODULE SegmentLine -----------------------------
(***************************************************************************)
(* What a conversation promises to the applications at its two ends,       *)
(* whatever lies between them: each reads what the other wrote, segment    *)
(* after segment, without a gap and no segment twice.  The writer keeps a  *)
(* segment until it has arrived, unless the reader was closed or the       *)
(* writer, closed itself, gave up waiting.  A segment that arrived does    *)
(* not get lost any more, and a closed end writes nothing.                 *)
(***************************************************************************)
EXTENDS Integers

CONSTANTS Ends, Peer(_)

VARIABLES written,  \* number of segments each end wrote
          kept,     \* those it has not let go of
          arrived,  \* those of its peer that are there
          read,     \* number of segments each end read
          closed,
          hasty     \* ends that gave up waiting

lineVars == <<written, kept, arrived, read, closed, hasty>>

Init == /\ written = [e \in Ends |-> 0] /\ read = [e \in Ends |-> 0]
        /\ kept = [e \in Ends |-> {}] /\ arrived = [e \in Ends |-> {}]
        /\ closed = {} /\ hasty = {}

Write(e) == /\ e \notin closed
            /\ written' = [written EXCEPT ![e] = @ + 1]
            /\ kept' = [kept EXCEPT ![e] = @ \cup {written[e]}]
            /\ UNCHANGED <<arrived, read, closed, hasty>>

MayLetGo(e, n) == n \in arrived[Peer(e)] \/ Peer(e) \in closed \/ e \in hasty

(* Segments arrive at an end, and it lets go of some of its own.             *)
Hear(e) == \E new \in SUBSET (0 .. written[Peer(e)] - 1), gone \in SUBSET kept[e] :
               /\ \A n \in gone : MayLetGo(e, n)
               /\ arrived' = [arrived EXCEPT ![e] = @ \cup new]
               /\ kept' = [kept EXCEPT ![e] = @ \ gone]
               /\ UNCHANGED <<written, read, closed, hasty>>

Read(e) == \E n \in read[e] + 1 .. written[Peer(e)] :
               /\ read[e] .. n - 1 \subseteq arrived[e]
               /\ read' = [read EXCEPT ![e] = n]
               /\ UNCHANGED <<written, kept, arrived, closed, hasty>>

Close(e) == closed' = closed \cup {e} /\ UNCHANGED <<written, kept, arrived, read, hasty>>

GiveUp(e) == /\ e \in closed /\ hasty' = hasty \cup {e}
             /\ UNCHANGED <<written, kept, arrived, read, closed>>

Next == \E e \in Ends : Write(e) \/ Hear(e) \/ Read(e) \/ Close(e) \/ GiveUp(e)

Spec == Init /\ [][Next]_lineVars
=============================================================================
