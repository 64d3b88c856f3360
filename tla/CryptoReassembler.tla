------------------------- MODULE CryptoReassembler -------------------------
(***************************************************************************)
(* The reassembler of a client's CRYPTO stream: add, which keeps a list of *)
(* byte ranges, and clientHello, which looks for a complete hello at its   *)
(* beginning.  The list is compared with what it stands for, a partial     *)
(* function from positions to bytes.  The header is HeaderLen bytes, of    *)
(* which the first is the type and the last the length.                    *)
(***************************************************************************)
EXTENDS Integers, Sequences, FiniteSetsExt

CONSTANTS MaxCryptoBytes,   \* precheckMaxCryptoBytes
          MaxCryptoRanges,  \* precheckMaxCryptoRanges
          HeaderLen,        \* length of a handshake header (4 in the code)
          CryptoBytes       \* bound: the values of a byte

ASSUME ReassemblerAssumption ==
    /\ {MaxCryptoBytes, MaxCryptoRanges} \subseteq Nat /\ HeaderLen \in Nat \ {0, 1}
    /\ CryptoBytes \subseteq Nat

\* A range, like a fragment, is an offset and its bytes.
End(r) == r.off + Len(r.data)
ByteAt(r, p) == r.data[p - r.off + 1]

TooFar(frag) == frag.off > MaxCryptoBytes \/ Len(frag.data) > MaxCryptoBytes - frag.off

\* The first range that is not entirely before the fragment.
FirstTouched(rs, frag) ==
    Min({Len(rs) + 1} \cup {i \in DOMAIN rs : End(rs[i]) >= frag.off})

\* Mutant: a range that only touches is not merged.
Touches_Strictly(r, end) == r.off < end
Touches(r, end) == r.off <= end

\* The last of the ranges that overlap or touch the union so far.
LastTouched(rs, frag) ==
    LET first == FirstTouched(rs, frag)
        unionEnd(n) == Max({End(frag)} \cup {End(rs[i]) : i \in first .. n})
    IN  Max({n \in first - 1 .. Len(rs) :
               \A i \in first .. n : Touches(rs[i], unionEnd(i - 1))})

Overlap(r, s) == Max({r.off, s.off}) .. Min({End(r), End(s)}) - 1
Contradicts(r, s) == \E p \in Overlap(r, s) : ByteAt(r, p) # ByteAt(s, p)

\* The ranges and then the fragment are copied into one range.
Merge(touched, frag) ==
    LET all   == touched \cup {frag}
        start == Min({r.off : r \in all})
        end   == Max({End(r) : r \in all})
    IN  [off  |-> start,
         data |-> [i \in 1 .. end - start |->
                     LET p == start + i - 1
                     IN  IF p \in frag.off .. End(frag) - 1 THEN ByteAt(frag, p)
                         ELSE ByteAt(CHOOSE r \in touched : p \in r.off .. End(r) - 1, p)]]

\* The lengths of all ranges together.
UniqueBytes(rs) == Cardinality(UNION {{i} \X DOMAIN rs[i].data : i \in DOMAIN rs})

\* add: the new list, and whether there was no error.
AddFragment(rs, frag) ==
    LET first  == FirstTouched(rs, frag)
        last   == LastTouched(rs, frag)
        merged == SubSeq(rs, 1, first - 1)
                  \o <<Merge({rs[i] : i \in first .. last}, frag)>>
                  \o SubSeq(rs, last + 1, Len(rs))
    IN  IF TooFar(frag) THEN [ok |-> FALSE, ranges |-> rs]
        ELSE IF frag.data = <<>> THEN [ok |-> TRUE, ranges |-> rs]
        ELSE IF \E i \in first .. last : Contradicts(rs[i], frag)
             THEN [ok |-> FALSE, ranges |-> rs]
        ELSE [ok |-> Len(merged) <= MaxCryptoRanges /\ UniqueBytes(merged) <= MaxCryptoBytes,
              ranges |-> merged]

\* clientHello: an error, nothing yet, or the hello's length.
ClientHello(rs) ==
    IF rs = <<>> \/ rs[1].off # 0 \/ Len(rs[1].data) < HeaderLen THEN "incomplete"
    ELSE LET data == rs[1].data  total == HeaderLen + data[HeaderLen]
         IN  IF data[1] # 1 \/ data[HeaderLen] <= 0 \/ total > MaxCryptoBytes THEN "error"
             ELSE IF total > Len(data) THEN "incomplete" ELSE "hello"

-----------------------------------------------------------------------------
(* The reference: a partial function.                                      *)

Partial(S) == UNION {[D -> CryptoBytes] : D \in SUBSET S}
Contents   == Partial(0 .. MaxCryptoBytes - 1)
Bytes(r)   == [p \in r.off .. End(r) - 1 |-> ByteAt(r, p)]

\* Its maximal runs, in order.
Starts(f) == {p \in DOMAIN f : p - 1 \notin DOMAIN f}
Run(f, p) == LET end == CHOOSE q \in p .. MaxCryptoBytes : q \notin DOMAIN f /\ p .. q - 1 \subseteq DOMAIN f
             IN  [off |-> p, data |-> [i \in 1 .. end - p |-> f[p + i - 1]]]
Canonical(f) == [k \in 1 .. Cardinality(Starts(f)) |->
                   Run(f, CHOOSE p \in Starts(f) : Cardinality({q \in Starts(f) : q < p}) = k - 1)]

Agree(f, g) == \A p \in DOMAIN f \cap DOMAIN g : f[p] = g[p]
Join(f, g)  == [p \in DOMAIN f \cup DOMAIN g |-> IF p \in DOMAIN f THEN f[p] ELSE g[p]]

\* All fragments of at most a whole stream, inside the limit and beyond it.
CryptoFragments == [off : 0 .. MaxCryptoBytes + 1,
                    data : UNION {[1 .. n -> CryptoBytes] : n \in 0 .. MaxCryptoBytes - 1}]

\* A hello is there, with its last byte.
HelloIn(f) == /\ 0 .. HeaderLen - 1 \subseteq DOMAIN f
              /\ f[0] = 1 /\ f[HeaderLen - 1] \in 1 .. MaxCryptoBytes - HeaderLen
              /\ 0 .. HeaderLen + f[HeaderLen - 1] - 1 \subseteq DOMAIN f

\* add refuses exactly the fragments that contradict what arrived before, lie
\* beyond the limit or leave too many gaps; otherwise the list is the sorted
\* list of the maximal runs of all bytes so far, whatever the order, overlap and
\* repetition in which they came; and clientHello
\* reports a hello exactly when all its bytes are there.  Every list add can leave is canonical, so
\* this one step covers every sequence of fragments.
AddMatches ==
    \A f \in {g \in Contents : Cardinality(Starts(g)) <= MaxCryptoRanges} :
        \A frag \in CryptoFragments :
            LET new == AddFragment(Canonical(f), frag)
                all == Join(f, Bytes(frag))
            IN  /\ ClientHello(Canonical(f)) = "hello" <=> HelloIn(f)
                /\ new.ok <=> /\ frag.off + Len(frag.data) <= MaxCryptoBytes
                              /\ Agree(f, Bytes(frag))
                              /\ Cardinality(Starts(all)) <= MaxCryptoRanges
                /\ new.ok => new.ranges = Canonical(all)

=============================================================================
