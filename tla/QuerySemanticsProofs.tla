------------------------- MODULE QuerySemanticsProofs -------------------------
(***************************************************************************)
(* What the completion of an order amounts to, for every operation and     *)
(* every identity (validation/__init__.py:285-331).                        *)
(***************************************************************************)
EXTENDS QuerySemantics, FiniteSetTheorems, TLAPS

(* The k-th member of a finite set of integers *)

Rank(S, i) == Cardinality({j \in S : j <= i})

\* Different members have different ranks.
LEMMA RankFacts ==
  ASSUME NEW S, IsFiniteSet(S), S \subseteq Int
  PROVE  /\ Cardinality(S) \in Nat
         /\ \A i \in S : Rank(S, i) \in 1..Cardinality(S)
         /\ \A i, j \in S : Rank(S, i) = Rank(S, j) => i = j
<1> DEFINE upTo(j) == {x \in S : x <= j}
<1>1. \A i \in S : upTo(i) \in SUBSET S /\ i \in upTo(i) /\ Rank(S, i) = Cardinality(upTo(i))
  BY DEF Rank
<1>2. \A i, j \in S : i <= j => upTo(i) \in SUBSET upTo(j)
  <2> SUFFICES ASSUME NEW i \in S, NEW j \in S, i <= j PROVE upTo(i) \in SUBSET upTo(j)
    OBVIOUS
  <2>1. \A x \in Int : x <= i => x <= j
    OBVIOUS
  <2> QED BY <2>1
<1>3. \A i, j \in S : j \in upTo(i) => j <= i
  OBVIOUS
<1> HIDE DEF upTo
<1>4. \A i \in S : IsFiniteSet(upTo(i))
  BY <1>1, FS_Subset
<1>5. Cardinality(S) \in Nat
  BY FS_CardinalityType
<1>6. ASSUME NEW i \in S PROVE Rank(S, i) \in 1..Cardinality(S)
  <2>1. Rank(S, i) \in Nat /\ Rank(S, i) # 0
    BY <1>1, <1>4, FS_CardinalityType, FS_EmptySet
  <2>2. Rank(S, i) <= Cardinality(S)
    BY <1>1, FS_Subset
  <2> QED BY <1>5, <2>1, <2>2
<1>7. ASSUME NEW i \in S, NEW j \in S, i <= j, Rank(S, i) = Rank(S, j) PROVE i = j
  <2>1. upTo(j) = upTo(i)
    BY <1>1, <1>2, <1>4, <1>7, FS_Subset
  <2>2. j <= i
    BY <1>1, <1>3, <2>1
  <2> QED BY <1>7, <2>2
<1>8. \A i, j \in S : i <= j \/ j <= i
  OBVIOUS
<1> QED BY <1>5, <1>6, <1>7, <1>8

\* Every member of a set is the k-th of them for some k, and every k-th is a member.
LEMMA NthFacts ==
  ASSUME NEW S, IsFiniteSet(S), S \subseteq Int
  PROVE  /\ \A i \in S : \E k \in 1..Cardinality(S) : Nth(S, k) = i
         /\ \A k \in 1..Cardinality(S) : Nth(S, k) \in S
<1> DEFINE n == Cardinality(S)
           rank == [i \in S |-> Rank(S, i)]
<1>1. \A i \in S : Nth(S, Rank(S, i)) = i
  <2> SUFFICES ASSUME NEW i \in S PROVE Nth(S, Rank(S, i)) = i
    OBVIOUS
  <2>1. \A j \in S : Rank(S, j) = Rank(S, i) => j = i
    BY RankFacts
  <2>2. Nth(S, Rank(S, i)) = CHOOSE j \in S : Rank(S, j) = Rank(S, i)
    BY DEF Nth, Rank
  <2> QED BY <2>1, <2>2
<1>2. n \in Nat /\ \A i \in S : Rank(S, i) \in 1..n
  BY RankFacts
<1>3. rank \in Injection(S, 1..n)
  <2>1. rank \in [S -> 1..n]
    BY <1>2
  <2>2. \A i, j \in S : rank[i] = rank[j] => i = j
    BY RankFacts
  <2> HIDE DEF rank
  <2> QED BY <2>1, <2>2 DEF Injection, IsInjective
<1>4. IsFiniteSet(1..n) /\ Cardinality(1..n) = n
  <2>1. 1 \in Int /\ n \in Int
    BY <1>2
  <2>2. n = 0 \/ 1 <= n
    BY <1>2
  <2> HIDE DEF n
  <2>3. IsFiniteSet(1..n) /\ Cardinality(1..n) = IF 1 > n THEN 0 ELSE n - 1 + 1
    BY <2>1, FS_Interval
  <2> QED BY <2>1, <2>2, <2>3
<1>5. rank \in Surjection(S, 1..n)
  BY <1>3, <1>4, FS_Injection
<1>6. \A k \in 1..n : \E i \in S : Rank(S, i) = k
  BY <1>5 DEF Surjection
<1> QED BY <1>1, <1>2, <1>6
-----------------------------------------------------------------------------
(* The completed order *)

LEMMA Retyped ==
  ASSUME NEW A, NEW B, NEW w \in Seq(A), \A i \in 1..Len(w) : w[i] \in B
  PROVE  w \in Seq(B)
OBVIOUS

\* A list with a list of n more after it.
LEMMA Appended ==
  ASSUME NEW s, IsList(s), NEW n \in Nat, NEW f, f = [k \in 1..n |-> f[k]]
  PROVE  /\ IsList(s \o f)
         /\ Range(s \o f) = Range(s) \cup Range(f)
<1> DEFINE A == Range(s) \cup Range(f)
<1>1. s \in Seq(A) /\ DOMAIN s = 1..Len(s) /\ Len(s) \in Nat
  BY DEF IsList
<1>2. f \in Seq(A) /\ DOMAIN f = 1..n /\ Len(f) = n
  BY DEF Range
<1>3. s \o f \in Seq(A)
  BY <1>1, <1>2
<1> HIDE DEF A
<1>4. /\ Len(s \o f) = Len(s) + n
      /\ DOMAIN (s \o f) = 1..(Len(s) + n)
      /\ \A i \in 1..Len(s) : (s \o f)[i] = s[i]
      /\ \A k \in 1..n : (s \o f)[Len(s) + k] = f[k]
  BY <1>1, <1>2
<1>5. \A i \in 1..(Len(s) + n) :
        i \in 1..Len(s) \/ \E k \in 1..n : i = Len(s) + k
  <2> SUFFICES ASSUME NEW i \in 1..(Len(s) + n), i \notin 1..Len(s)
               PROVE  \E k \in 1..n : i = Len(s) + k
    OBVIOUS
  <2>1. i - Len(s) \in 1..n /\ i = Len(s) + (i - Len(s))
    BY <1>1
  <2> QED BY <2>1
<1>6. \A k \in 1..n : Len(s) + k \in 1..(Len(s) + n)
  BY <1>1
<1>7. \A i \in 1..Len(s) : i \in 1..(Len(s) + n)
  BY <1>1
<1>8. Range(s \o f) \subseteq Range(s) \cup Range(f)
  BY <1>1, <1>2, <1>4, <1>5 DEF Range
<1>9. Range(s) \subseteq Range(s \o f) /\ Range(f) \subseteq Range(s \o f)
  <2>1. ASSUME NEW i \in 1..Len(s) PROVE s[i] \in Range(s \o f)
    BY <1>4, <1>7 DEF Range
  <2>2. ASSUME NEW k \in 1..n PROVE f[k] \in Range(s \o f)
    BY <1>4, <1>6 DEF Range
  <2> QED BY <1>1, <1>2, <2>1, <2>2 DEF Range
<1>10. s \o f \in Seq(Range(s \o f))
  <2> DEFINE w == s \o f
  <2>1. \A i \in 1..Len(w) : w[i] \in Range(w)
    BY <1>3 DEF Range
  <2>2. w \in Seq(A)
    BY <1>3
  <2> HIDE DEF w
  <2> QED BY <2>1, <2>2, Retyped DEF w
<1> QED BY <1>8, <1>9, <1>10 DEF IsList

\* The tie-breakers are the identity fields the order does not have yet.
LEMMA TieBreakersFacts ==
  ASSUME NEW op, NEW identity, IsList(identity)
  PROVE  /\ \E n \in Nat : TieBreakers(op, identity)
                             = [k \in 1..n |-> TieBreakers(op, identity)[k]]
         /\ Range(TieBreakers(op, identity))
              = {TieBreaker(op, identity[i]) : i \in MissingAt(op, identity)}
<1> DEFINE missing == MissingAt(op, identity)
           n == Cardinality(missing)
           added == TieBreakers(op, identity)
<1>1. DOMAIN identity = 1..Len(identity) /\ Len(identity) \in Nat
  BY DEF IsList
<1>2. IsFiniteSet(missing) /\ missing \subseteq Int
  <2>1. missing \in SUBSET (1..Len(identity))
    BY <1>1 DEF MissingAt
  <2>2. IsFiniteSet(1..Len(identity))
    <3>1. 1 \in Int /\ Len(identity) \in Int
      BY <1>1
    <3> QED BY <3>1, FS_Interval
  <2> QED BY <2>1, <2>2, FS_Subset
<1>3. added = [k \in 1..n |-> TieBreaker(op, identity[Nth(missing, k)])]
  BY DEF TieBreakers
<1>4. n \in Nat
  BY <1>2, FS_CardinalityType
<1>5. /\ \A i \in missing : \E k \in 1..n : Nth(missing, k) = i
      /\ \A k \in 1..n : Nth(missing, k) \in missing
  BY <1>2, NthFacts
<1> HIDE DEF missing, n, added
<1>6. added = [k \in 1..n |-> added[k]]
  BY <1>3
<1>7. Range(added) = {TieBreaker(op, identity[i]) : i \in missing}
  BY <1>3, <1>5 DEF Range
<1> QED BY <1>4, <1>6, <1>7 DEF missing, added

Completed(op, identity) == op.order \o TieBreakers(op, identity)

\* A completed order sorts by what it sorted by and by identity fields, by each of
\* them under the qualifier of the operation or under none.
LEMMA CompletedOrder ==
  ASSUME NEW op, IsList(op.order), NEW identity, IsList(identity)
  PROVE  /\ IsList(Completed(op, identity))
         /\ \A name \in Range(identity) : \E sort \in Range(Completed(op, identity)) :
              sort.field.name = name /\ sort.field.on \in {Qualifier(op), Unqualified}
         /\ \A sort \in Range(Completed(op, identity)) :
              sort \in Range(op.order) \/ sort.field.name \in Range(identity)
<1> DEFINE added == TieBreakers(op, identity)
           order == Completed(op, identity)
<1>1. IsList(order) /\ Range(order) = Range(op.order) \cup Range(added)
  BY TieBreakersFacts, Appended DEF Completed
<1>2. Range(added) = {TieBreaker(op, identity[i]) : i \in MissingAt(op, identity)}
  BY TieBreakersFacts
<1> HIDE DEF added, order
<1>3. ASSUME NEW name \in Range(identity)
      PROVE  \E sort \in Range(order) :
               sort.field.name = name /\ sort.field.on \in {Qualifier(op), Unqualified}
  <2>1. CASE Ordered(op, name)
    BY <1>1, <2>1 DEF Ordered
  <2>2. CASE ~Ordered(op, name)
    <3>1. PICK i \in DOMAIN identity : identity[i] = name
      BY DEF Range
    <3>2. TieBreaker(op, name) \in Range(order)
      BY <1>1, <1>2, <2>2, <3>1 DEF MissingAt
    <3>3. TieBreaker(op, name).field.name = name /\ TieBreaker(op, name).field.on = Qualifier(op)
      BY DEF TieBreaker
    <3> QED BY <3>2, <3>3
  <2> QED BY <2>1, <2>2
<1>4. ASSUME NEW sort \in Range(added) PROVE sort.field.name \in Range(identity)
  <2>1. PICK i \in MissingAt(op, identity) : sort = TieBreaker(op, identity[i])
    BY <1>2, <1>4
  <2>2. sort.field.name = identity[i] /\ i \in DOMAIN identity
    BY <2>1 DEF TieBreaker, MissingAt
  <2> QED BY <2>2 DEF Range
<1> QED BY <1>1, <1>3, <1>4 DEF order

\* A field reference that resolves, under the qualifier of the operation or under
\* none, is looked up in the primary Resource.
LEMMA SortIsOfPrimary ==
  ASSUME NEW op, NEW v, op.primary.resource # Unqualified,
         NEW field, field.on \in {Qualifier(op), Unqualified}, FieldResolves(op, v, field)
  PROVE  op.primary.resource \in Candidates(op, field)
<1>1. op.primary.resource \in Resources(op)
  BY DEF Resources, Targets
<1>2. CASE field.on = Unqualified
  <2>1. Candidates(op, field) # {}
    BY DEF FieldResolves, KindsOf
  <2>2. Candidates(op, field) = Resources(op)
    BY <1>2, <2>1 DEF Candidates
  <2> QED BY <1>1, <2>2
<1>3. CASE field.on # Unqualified
  <2>1. field.on = op.primary.resource
    BY <1>3 DEF Qualifier
  <2> QED BY <1>1, <1>3, <2>1 DEF Candidates
<1> QED BY <1>2, <1>3
=============================================================================
