---------------------------- MODULE OrderedStream ----------------------------
(***************************************************************************)
(* What an XHTTP session promises to the two sides of its upload, without  *)
(* saying how: its proxy reads the payloads of the posts in the order of   *)
(* their numbers, each from its first unit to its last, or turns to the    *)
(* body of the one stream that was attached and reads nothing but that from *)
(* then on.  What was read is never taken back, nothing is read after the   *)
(* end, and a request is turned away only when a stream was attached before *)
(* it or the session has been closed.                                        *)
(***************************************************************************)
EXTENDS Naturals, Sequences

CONSTANTS
  Posts, Streams, SeqOf, LenOf, None,
  Ordered  \* whether every number leaves only one way to go on

VARIABLES
  answer,  \* what each request was told
  source,  \* the stream that was attached
  closed,
  over,    \* the reader has met the end
  out      \* what was read, unit by unit

streamVars == <<answer, source, closed, over, out>>

Init ==
  /\ answer = [r \in Posts \cup Streams |-> "none"]
  /\ source = None
  /\ closed = FALSE /\ over = FALSE
  /\ out = <<>>

Told(r, from, to) == answer[r] = from /\ answer' = [answer EXCEPT ![r] = to]

Take(r) ==
  /\ source = None
  /\ Told(r, "none", "pending")
  /\ source' = IF r \in Streams THEN r ELSE None
  /\ UNCHANGED <<closed, over, out>>

Accept(r) ==
  /\ ~closed
  /\ Told(r, "pending", "ok")
  /\ UNCHANGED <<source, closed, over, out>>

TurnAway(r) ==
  /\ \/ source # None /\ Told(r, "none", "refused")
     \/ closed /\ Told(r, "pending", "refused")
  /\ UNCHANGED <<source, closed, over, out>>

Close ==
  /\ closed' = TRUE
  /\ UNCHANGED <<answer, source, over, out>>

(* Where reading may begin, and how it may go on. *)
Begins(b) ==
  /\ b.from \in Posts => (Ordered => SeqOf[b.from] = 0 /\ b.unit = 1)
  /\ b.from \in Streams => b.unit = 1

GoesOn(a, b) ==
  \/ /\ a.from \in Posts /\ b.from \in Posts
     /\ Ordered => \/ b.from = a.from /\ b.unit = a.unit + 1
                   \/ /\ a.unit = LenOf[a.from] /\ b.unit = 1
                      /\ SeqOf[b.from] = SeqOf[a.from] + 1
  \/ a.from \in Posts /\ b.from \in Streams /\ b.unit = 1
  \/ a.from \in Streams /\ b.from = a.from /\ b.unit = a.unit + 1

MayRead(s, i) ==
  /\ answer[s[i].from] # "none"
  /\ s[i].from \in Posts \cup {source}
  /\ s[i].unit \in 1..LenOf[s[i].from]
  /\ IF i = 1 THEN Begins(s[1]) ELSE GoesOn(s[i - 1], s[i])

Read ==
  /\ ~over
  /\ Len(out) <= Len(out')
  /\ \A i \in 1..Len(out) : out'[i] = out[i]
  /\ \A i \in Len(out) + 1..Len(out') : MayRead(out', i)
  /\ UNCHANGED <<answer, source, closed, over>>

End ==
  /\ over' = TRUE
  /\ UNCHANGED <<answer, source, closed, out>>

Next ==
  \/ \E r \in Posts \cup Streams : Take(r) \/ Accept(r) \/ TurnAway(r)
  \/ Close
  \/ Read
  \/ End

Spec == Init /\ [][Next]_streamVars
=============================================================================
