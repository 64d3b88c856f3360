---------------------------- MODULE AddressCounts ----------------------------
(***************************************************************************)
(* Facts about counting the elements of a finite set by the value a         *)
(* function gives them: how the per-IP counters of the precheck and of the  *)
(* relay (perIP in reality_precheck_conn.go and reality_relay.go) follow    *)
(* their tables.                                                            *)
(***************************************************************************)
EXTENDS Integers, FiniteSetTheorems, TLAPS

(* The number of elements of S whose address is a. *)
AtAddress(S, f, a) == {x \in S : f[x] = a}

(* A counted set is finite and its count is a natural number no larger than  *)
(* the table: the per-IP counters are bounded by the table's size.            *)
LEMMA CountType ==
  ASSUME NEW S, NEW f, NEW a, IsFiniteSet(S)
  PROVE  /\ IsFiniteSet(AtAddress(S, f, a))
         /\ Cardinality(AtAddress(S, f, a)) \in Nat
         /\ Cardinality(AtAddress(S, f, a)) <= Cardinality(S)
<1>1. AtAddress(S, f, a) \in SUBSET S
  BY DEF AtAddress
<1> QED
  BY <1>1, FS_Subset, FS_CardinalityType

(* A table without entries counts nothing (Close resets both maps). *)
LEMMA CountEmpty ==
  ASSUME NEW f, NEW a
  PROVE  Cardinality(AtAddress({}, f, a)) = 0
<1>1. AtAddress({}, f, a) = {}
  BY DEF AtAddress
<1> QED
  BY <1>1, FS_EmptySet

(* A new entry adds one to the count of its own address only (perIP[ip]++). *)
LEMMA CountAdd ==
  ASSUME NEW S, NEW f, NEW a, NEW x, IsFiniteSet(S), x \notin S
  PROVE  Cardinality(AtAddress(S \cup {x}, f, a)) =
           IF f[x] = a THEN Cardinality(AtAddress(S, f, a)) + 1
                       ELSE Cardinality(AtAddress(S, f, a))
<1>1. IsFiniteSet(AtAddress(S, f, a)) /\ Cardinality(AtAddress(S, f, a)) \in Nat
  BY CountType
<1>0. x \notin AtAddress(S, f, a)
  BY DEF AtAddress
<1>2. CASE f[x] = a
  <2>1. AtAddress(S \cup {x}, f, a) = AtAddress(S, f, a) \cup {x}
    BY <1>2 DEF AtAddress
  <2>2. Cardinality(AtAddress(S, f, a) \cup {x}) = Cardinality(AtAddress(S, f, a)) + 1
    BY <1>0, <1>1, FS_AddElement
  <2> QED
    BY <1>2, <2>1, <2>2
<1>3. CASE f[x] # a
  <2>1. AtAddress(S \cup {x}, f, a) = AtAddress(S, f, a)
    BY <1>3 DEF AtAddress
  <2> QED
    BY <1>3, <2>1
<1> QED
  BY <1>2, <1>3

(* Removed entries take their own number off each count (perIP[ip]--). *)
LEMMA CountRemove ==
  ASSUME NEW S, NEW G, NEW f, NEW a, IsFiniteSet(S), G \subseteq S
  PROVE  Cardinality(AtAddress(S \ G, f, a)) =
           Cardinality(AtAddress(S, f, a)) - Cardinality(AtAddress(G, f, a))
<1>1. IsFiniteSet(AtAddress(S, f, a))
  BY CountType
<1>2. AtAddress(S \ G, f, a) = AtAddress(S, f, a) \ AtAddress(G, f, a)
  BY DEF AtAddress
<1>3. AtAddress(S, f, a) \cap AtAddress(G, f, a) = AtAddress(G, f, a)
  BY DEF AtAddress
<1>4. Cardinality(AtAddress(S, f, a) \ AtAddress(G, f, a)) =
        Cardinality(AtAddress(S, f, a)) - Cardinality(AtAddress(S, f, a) \cap AtAddress(G, f, a))
  BY <1>1, FS_Difference
<1> QED
  BY <1>2, <1>3, <1>4, Zenon

(* Likewise for one entry. *)
LEMMA CountRemoveOne ==
  ASSUME NEW S, NEW f, NEW a, NEW x \in S, IsFiniteSet(S)
  PROVE  Cardinality(AtAddress(S \ {x}, f, a)) =
           IF f[x] = a THEN Cardinality(AtAddress(S, f, a)) - 1
                       ELSE Cardinality(AtAddress(S, f, a))
<1>1. Cardinality(AtAddress(S \ {x}, f, a)) =
        Cardinality(AtAddress(S, f, a)) - Cardinality(AtAddress({x}, f, a))
  BY CountRemove, {x} \subseteq S
<1>2. Cardinality(AtAddress(S, f, a)) \in Nat
  BY CountType
<1>3. CASE f[x] = a
  <2>1. AtAddress({x}, f, a) = {x}
    BY <1>3 DEF AtAddress
  <2> QED
    BY <1>1, <1>3, <2>1, FS_Singleton
<1>4. CASE f[x] # a
  <2>1. AtAddress({x}, f, a) = {}
    BY <1>4 DEF AtAddress
  <2>2. Cardinality(AtAddress({x}, f, a)) = 0
    BY <2>1, FS_EmptySet
  <2> QED
    BY <1>1, <1>2, <1>4, <2>2
<1> QED
  BY <1>3, <1>4
=============================================================================
