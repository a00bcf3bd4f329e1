------------------------ MODULE KeysetPaginationProofs ------------------------
(***************************************************************************)
(* Proofs about KeysetPagination, for every scan, table, page size and     *)
(* interference of writers.                                                *)
(***************************************************************************)
EXTENDS KeysetPagination, QuerySemanticsProofs, WellFoundedInduction

\* At most one row of a joined Collection goes with a Record.
SinglePartner == \A o \in Operations, p, q \in Partners : o.joins # {} => p = q

Completions == {EnsureOrder(o, Registry) : o \in Operations}

\* A set of natural numbers has a least one.
LEMMA LeastNatural ==
  ASSUME NEW S, S \subseteq Nat, S # {}
  PROVE  \E i \in S : \A j \in S : i <= j
<1>1. PICK i \in S : \A j \in S : <<j, i>> \notin OpToRel(<, Nat)
  BY NatLessThanWellFounded, WFMin
<1>2. \A j \in S : ~(j < i)
  BY <1>1 DEF OpToRel
<1> QED BY <1>2

(* The validated operation *)

LEMMA OperationFacts ==
  ASSUME op \in Completions
  PROVE  /\ op.page.size \in Nat \ {0}
         /\ IsList(op.order)
         /\ IsList(Identity) /\ IsInjective(Identity) /\ MutableField \notin Range(Identity)
         /\ \A sort \in Range(op.order) : sort.field.name \in Range(Identity) \cup {MutableField}
         /\ \A name \in Range(Identity) : \E sort \in Range(op.order) : sort.field.name = name
         /\ \A id \in Identities : id \in Seq(Int) /\ Len(id) = Len(Identity)
         /\ SinglePartner => \A p, q \in Matching : p = q
<1>1. PICK o \in Operations : op = EnsureOrder(o, Registry)
  BY DEF Completions
<1> DEFINE identity == PrimarySchema(o, Registry).identity
<1>2. /\ Paginated(o)
      /\ o = [f \in DOMAIN o |-> o[f]] /\ ScanFields \subseteq DOMAIN o
      /\ o.page.size \in Nat \ {0}
      /\ IsList(o.order) /\ IsList(identity) /\ IsInjective(identity)
      /\ MutableField \notin Range(identity)
      /\ \A sort \in Range(o.order) : sort.field.name \in Range(identity) \cup {MutableField}
      /\ \A id \in Identities : Len(id) = Len(identity)
  BY PaginationAssumption
<1>3. op = [o EXCEPT !.order = Completed(o, identity)]
  BY <1>1, <1>2 DEF EnsureOrder, Completed
<1>4. /\ op.primary = o.primary /\ op.joins = o.joins /\ op.page = o.page
      /\ op.order = Completed(o, identity)
  <2> HIDE DEF identity
  <2> QED BY <1>2, <1>3 DEF ScanFields
<1>5. Identity = identity
  BY <1>4 DEF Identity, PrimarySchema
<1> HIDE DEF identity
<1>6. /\ IsList(op.order)
      /\ \A name \in Range(identity) : \E sort \in Range(op.order) : sort.field.name = name
      /\ \A sort \in Range(op.order) :
           sort \in Range(o.order) \/ sort.field.name \in Range(identity)
  BY <1>2, <1>4, CompletedOrder
<1>7. SinglePartner => \A p, q \in Matching : p = q
  BY <1>4 DEF SinglePartner, Matching
<1> QED BY <1>2, <1>4, <1>5, <1>6, <1>7, PaginationAssumption

\* The positions of an order.
LEMMA OrderPositions ==
  ASSUME op \in Completions
  PROVE  Len(op.order) \in Nat /\ DOMAIN op.order = 1..Len(op.order)
BY OperationFacts DEF IsList
-----------------------------------------------------------------------------
(* Sort tuples *)

Tuples == [DOMAIN op.order -> Int]

\* The position of an identity field.
PositionOf(name) == CHOOSE i \in DOMAIN Identity : Identity[i] = name

LEMMA PositionFacts ==
  ASSUME op \in Completions
  PROVE  /\ \A name \in Range(Identity) :
              PositionOf(name) \in DOMAIN Identity /\ Identity[PositionOf(name)] = name
         /\ \A i \in DOMAIN Identity : PositionOf(Identity[i]) = i
         /\ DOMAIN Identity = 1..Len(Identity)
<1>1. \A name \in Range(Identity) : \E i \in DOMAIN Identity : Identity[i] = name
  BY DEF Range
<1>2. \A i, j \in DOMAIN Identity : Identity[i] = Identity[j] => i = j
  BY OperationFacts DEF IsInjective
<1>3. DOMAIN Identity = 1..Len(Identity)
  BY OperationFacts DEF IsList
<1> HIDE DEF Identity
<1> QED BY <1>1, <1>2, <1>3 DEF PositionOf

LEMMA ValueFacts ==
  ASSUME TypeOK, NEW row \in Selected, NEW sort \in Range(op.order)
  PROVE  ValueOf(row, sort.field) \in Int
<1>1. row[1] \in Identities /\ table[row[1]] \in Int
  BY PaginationAssumption DEF TypeOK, Selected, Live
<1>2. op \in Completions
  BY DEF TypeOK, Completions
<1>3. sort.field.name \in Range(Identity) \cup {MutableField}
  BY <1>2, OperationFacts
<1>4. CASE sort.field.name = MutableField
  BY <1>1, <1>4 DEF ValueOf
<1>5. CASE sort.field.name \in Range(Identity) /\ sort.field.name # MutableField
  <2>1. ValueOf(row, sort.field) = row[1][PositionOf(sort.field.name)]
    BY <1>5 DEF ValueOf, PositionOf
  <2>2. PositionOf(sort.field.name) \in 1..Len(row[1])
    BY <1>1, <1>2, <1>5, PositionFacts, OperationFacts
  <2>3. row[1] \in Seq(Int)
    BY <1>1, <1>2, OperationFacts
  <2> QED BY <2>1, <2>2, <2>3
<1> QED BY <1>3, <1>4, <1>5

LEMMA TupleType ==
  ASSUME TypeOK, NEW row \in Selected
  PROVE  SortTuple(row) \in Tuples /\ SortTuple(row) # Start
<1>1. op \in Completions
  BY DEF TypeOK, Completions
<1>2. Len(op.order) \in Nat /\ DOMAIN op.order = 1..Len(op.order)
  BY <1>1, OrderPositions
<1>3. \A i \in DOMAIN op.order : ValueOf(row, op.order[i].field) \in Int
  <2>1. \A i \in DOMAIN op.order : op.order[i] \in Range(op.order)
    BY DEF Range
  <2> QED BY <2>1, ValueFacts
<1>4. SortTuple(row) \in Tuples
  BY <1>3 DEF SortTuple, Tuples
<1>5. Tuples \subseteq Seq(Int)
  BY <1>2 DEF Tuples
<1> QED BY <1>4, <1>5, PaginationAssumption

LEMMA SameTuple ==
  ASSUME NEW s \in Seq(Int), NEW t \in Seq(Int), Len(s) = Len(t),
         \A i \in 1..Len(s) : s[i] = t[i]
  PROVE  s = t
OBVIOUS

\* Rows of one table with the same sort tuple are of the same Record, and there is
\* one row of it.
LEMMA UniqueTuple ==
  ASSUME TypeOK, SinglePartner, NEW row \in Selected, NEW other \in Selected,
         SortTuple(row) = SortTuple(other)
  PROVE  row = other
<1>1. op \in Completions
  BY DEF TypeOK, Completions
<1>2. /\ row = <<row[1], row[2]>> /\ other = <<other[1], other[2]>>
      /\ row[1] \in Identities /\ other[1] \in Identities
      /\ row[2] \in Matching /\ other[2] \in Matching
  BY DEF Selected, Live
<1>3. row[2] = other[2]
  BY <1>1, <1>2, OperationFacts
<1>4. \A i \in DOMAIN Identity : row[1][i] = other[1][i]
  <2> SUFFICES ASSUME NEW i \in DOMAIN Identity PROVE row[1][i] = other[1][i]
    OBVIOUS
  <2> DEFINE name == Identity[i]
  <2>1. name \in Range(Identity)
    BY DEF Range
  <2>2. PICK sort \in Range(op.order) : sort.field.name = name
    BY <1>1, <2>1, OperationFacts
  <2>3. PICK j \in DOMAIN op.order : op.order[j] = sort
    BY DEF Range
  <2>4. ValueOf(row, sort.field) = ValueOf(other, sort.field)
    <3>1. SortTuple(row)[j] = SortTuple(other)[j]
      OBVIOUS
    <3> QED BY <2>3, <3>1 DEF SortTuple
  <2>5. name # MutableField
    BY <1>1, <2>1, OperationFacts
  <2>6. PositionOf(name) = i
    BY <1>1, PositionFacts
  <2> HIDE DEF name
  <2>7. \A r : ValueOf(r, sort.field) = r[1][PositionOf(name)]
    BY <2>2, <2>5 DEF ValueOf, PositionOf
  <2> QED BY <2>4, <2>6, <2>7
<1>5. /\ row[1] \in Seq(Int) /\ other[1] \in Seq(Int)
      /\ Len(row[1]) = Len(Identity) /\ Len(other[1]) = Len(Identity)
      /\ DOMAIN Identity = 1..Len(Identity)
  BY <1>1, <1>2, OperationFacts, PositionFacts
<1>6. row[1] = other[1]
  BY <1>4, <1>5, SameTuple
<1> QED BY <1>2, <1>3, <1>6
-----------------------------------------------------------------------------
(* The order of sort tuples is a strict total order *)

LEMMA BeforeIrreflexive ==
  ASSUME NEW t \in Tuples
  PROVE  ~Before(t, t)
BY DEF Before, Precedes, Tuples

LEMMA BeforeTransitive ==
  ASSUME op \in Completions, NEW t \in Tuples, NEW u \in Tuples, NEW v \in Tuples,
         Before(t, u), Before(u, v)
  PROVE  Before(t, v)
<1>1. DOMAIN op.order = 1..Len(op.order) /\ Len(op.order) \in Nat
  BY OrderPositions
<1>2. PICK i \in DOMAIN op.order :
        Precedes(op.order[i].direction, t[i], u[i]) /\ \A j \in 1..(i - 1) : t[j] = u[j]
  BY DEF Before
<1>3. PICK k \in DOMAIN op.order :
        Precedes(op.order[k].direction, u[k], v[k]) /\ \A j \in 1..(k - 1) : u[j] = v[j]
  BY DEF Before
<1>4. \A j \in DOMAIN op.order : t[j] \in Int /\ u[j] \in Int /\ v[j] \in Int
  BY DEF Tuples
<1>5. CASE i < k
  <2>1. u[i] = v[i] /\ \A j \in 1..(i - 1) : u[j] = v[j]
    BY <1>1, <1>3, <1>5
  <2> QED BY <1>2, <2>1 DEF Before
<1>6. CASE k < i
  <2>1. t[k] = u[k] /\ \A j \in 1..(k - 1) : t[j] = u[j]
    BY <1>1, <1>2, <1>6
  <2> QED BY <1>3, <2>1 DEF Before
<1>7. CASE i = k
  <2>1. Precedes(op.order[i].direction, t[i], v[i])
    BY <1>2, <1>3, <1>4, <1>7 DEF Precedes
  <2> QED BY <1>2, <1>3, <1>7, <2>1 DEF Before
<1> QED BY <1>1, <1>5, <1>6, <1>7

LEMMA BeforeTotal ==
  ASSUME op \in Completions, NEW t \in Tuples, NEW u \in Tuples, t # u
  PROVE  Before(t, u) \/ Before(u, t)
<1> DEFINE differs == {i \in DOMAIN op.order : t[i] # u[i]}
<1>1. DOMAIN op.order = 1..Len(op.order) /\ Len(op.order) \in Nat
  BY OrderPositions
<1>2. differs \subseteq Nat /\ differs # {}
  BY <1>1 DEF Tuples
<1>3. PICK i \in differs : \A j \in differs : i <= j
  BY <1>2, LeastNatural
<1>4. \A j \in 1..(i - 1) : t[j] = u[j]
  BY <1>1, <1>3
<1>5. t[i] \in Int /\ u[i] \in Int /\ t[i] # u[i] /\ i \in DOMAIN op.order
  BY DEF Tuples
<1>6. \A d : Precedes(d, t[i], u[i]) \/ Precedes(d, u[i], t[i])
  BY <1>5 DEF Precedes
<1> QED BY <1>4, <1>5, <1>6 DEF Before
-----------------------------------------------------------------------------
(* Pages *)

LEMMA SelectedFinite == IsFiniteSet(Selected)
<1>1. IsFiniteSet(Live)
  BY PaginationAssumption, FS_Subset DEF Live
<1>2. IsFiniteSet(Matching)
  BY PaginationAssumption, FS_Singleton DEF Matching
<1> QED BY <1>1, <1>2, FS_Product DEF Selected

\* A page that holds a row holds one that no other row of it comes after.
LEMMA LastFacts ==
  ASSUME TypeOK, NEW page \in SUBSET Selected, page # {}
  PROVE  /\ LastOf(page) \in page
         /\ \A other \in page : ~Before(SortTuple(LastOf(page)), SortTuple(other))
<1> DEFINE after(row) == {other \in page : Before(SortTuple(row), SortTuple(other))}
           counts == {Cardinality(after(row)) : row \in page}
<1>1. op \in Completions
  BY DEF TypeOK, Completions
<1>2. IsFiniteSet(page)
  BY SelectedFinite, FS_Subset
<1>3. \A row \in page : after(row) \in SUBSET page
  OBVIOUS
<1>4. \A row, other \in page :
        other \in after(row) => after(other) \subseteq after(row) /\ other \notin after(other)
  <2> SUFFICES ASSUME NEW row \in page, NEW other \in page,
                      Before(SortTuple(row), SortTuple(other))
               PROVE  after(other) \subseteq after(row) /\ other \notin after(other)
    OBVIOUS
  <2>1. \A r \in page : SortTuple(r) \in Tuples
    BY TupleType
  <2>2. \A r \in page :
          Before(SortTuple(other), SortTuple(r)) => Before(SortTuple(row), SortTuple(r))
    BY <1>1, <2>1, BeforeTransitive
  <2>3. ~Before(SortTuple(other), SortTuple(other))
    BY <2>1, BeforeIrreflexive
  <2> QED BY <2>2, <2>3
<1>5. \A row \in page : after(row) = {other \in page : Before(SortTuple(row), SortTuple(other))}
  OBVIOUS
<1> HIDE DEF after
<1>6. \A row \in page : IsFiniteSet(after(row)) /\ Cardinality(after(row)) \in Nat
  BY <1>2, <1>3, FS_Subset, FS_CardinalityType
<1>7. PICK row \in page : \A other \in page : Cardinality(after(row)) <= Cardinality(after(other))
  <2>1. counts \subseteq Nat /\ counts # {}
    BY <1>6
  <2>2. PICK c \in counts : \A d \in counts : c <= d
    BY <2>1, LeastNatural
  <2>3. PICK r \in page : c = Cardinality(after(r))
    OBVIOUS
  <2> QED BY <2>2, <2>3
<1>8. after(row) = {}
  <2> SUFFICES ASSUME NEW other \in after(row) PROVE FALSE
    OBVIOUS
  <2>1. other \in page /\ after(other) \in SUBSET after(row) /\ after(other) # after(row)
    BY <1>3, <1>4
  <2>2. Cardinality(after(other)) < Cardinality(after(row))
    BY <1>6, <2>1, FS_Subset
  <2> QED BY <1>6, <1>7, <2>1, <2>2
<1>9. \A other \in page : ~Before(SortTuple(row), SortTuple(other))
  BY <1>5, <1>8
<1> QED BY <1>9 DEF LastOf

\* The cursor is at or after a row.
Passed(row) == cursor # Start /\ ~Before(cursor, SortTuple(row))

\* The cursor of a page comes strictly after the cursor before it, and leaves
\* behind every row of the page and every row that was behind it already.
LEMMA LastPassed ==
  ASSUME TypeOK, cursor # Start => cursor \in Tuples,
         NEW page \in SUBSET Remaining, page # {}
  PROVE  /\ LastOf(page) \in page
         /\ SortTuple(LastOf(page)) \in Tuples /\ SortTuple(LastOf(page)) # Start
         /\ cursor = Start \/ Before(cursor, SortTuple(LastOf(page)))
         /\ \A row \in Selected :
              Passed(row) \/ row \in page => ~Before(SortTuple(LastOf(page)), SortTuple(row))
<1> DEFINE t == SortTuple(LastOf(page))
<1>1. op \in Completions /\ page \in SUBSET Selected
  BY DEF TypeOK, Completions, Remaining
<1>2. LastOf(page) \in page /\ \A row \in page : ~Before(t, SortTuple(row))
  BY <1>1, LastFacts
<1>3. t \in Tuples /\ t # Start
  BY <1>1, <1>2, TupleType
<1>4. cursor = Start \/ Before(cursor, t)
  BY <1>2 DEF Remaining
<1> HIDE DEF t
<1>5. \A row \in Selected : Passed(row) => ~Before(t, SortTuple(row))
  <2> SUFFICES ASSUME NEW row \in Selected, Passed(row), Before(t, SortTuple(row)) PROVE FALSE
    OBVIOUS
  <2>1. cursor \in Tuples /\ Before(cursor, t) /\ ~Before(cursor, SortTuple(row))
    BY <1>4 DEF Passed
  <2>2. SortTuple(row) \in Tuples
    BY TupleType
  <2> QED BY <1>1, <1>3, <2>1, <2>2, BeforeTransitive
<1> QED BY <1>2, <1>3, <1>4, <1>5 DEF t
-----------------------------------------------------------------------------
(* TypeOK and SortTupleUnique *)

LEMMA InitTypeOK == Init => TypeOK
<1> SUFFICES ASSUME Init PROVE TypeOK
  OBVIOUS
<1> QED BY DEF Init, TypeOK

LEMMA NextTypeOK == TypeOK /\ [Next]_vars => TypeOK'
<1> SUFFICES ASSUME TypeOK, [Next]_vars PROVE TypeOK'
  OBVIOUS
<1>1. CASE Fetch
  <2>1. PICK page \in SUBSET Remaining :
          /\ returned' = [row \in Rows |-> returned[row] + (IF row \in page THEN 1 ELSE 0)]
          /\ cursor' = IF page = {} THEN cursor ELSE SortTuple(LastOf(page))
    BY <1>1 DEF Fetch
  <2>2. /\ UNCHANGED <<op, table, stable>>
        /\ Live' = Live
    BY <1>1 DEF Fetch, Live
  <2>3. returned' \in [Rows -> Nat]
    <3>1. \A row \in Rows : returned[row] + (IF row \in page THEN 1 ELSE 0) \in Nat
      BY DEF TypeOK
    <3> QED BY <2>1, <3>1
  <2>4. cursor' # Start => DOMAIN cursor' = DOMAIN op.order
    BY <2>1 DEF TypeOK, SortTuple
  <2> QED BY <2>2, <2>3, <2>4 DEF TypeOK
<1>2. ASSUME NEW id \in Identities, NEW value \in Values \cup {NoRow}, Write(id, value)
      PROVE  TypeOK'
  <2>1. /\ table' = [table EXCEPT ![id] = value]
        /\ stable' = stable \ {id}
        /\ UNCHANGED <<op, cursor, returned>>
    BY <1>2 DEF Write
  <2>2. stable' \subseteq Live'
    BY <2>1 DEF TypeOK, Live
  <2> QED BY <2>1, <2>2 DEF TypeOK
<1>3. CASE UNCHANGED vars
  BY <1>3 DEF vars, TypeOK, Live
<1> QED BY <1>1, <1>2, <1>3 DEF Next

\* The cursor is a tuple of the order, every count of pages a number, and what is
\* stable is in the table.
THEOREM TypeCorrect == Spec => []TypeOK
BY InitTypeOK, NextTypeOK, PTL DEF Spec

\* Where no Record has several partners, the sort tuple a cursor is bound to is
\* that of one row only, however the table is written
\* (validation/__init__.py:285-331).
THEOREM SortTuplesUnique ==
  ASSUME SinglePartner
  PROVE  Spec => []SortTupleUnique
<1>1. TypeOK => SortTupleUnique
  BY UniqueTuple DEF SortTupleUnique
<1> QED BY <1>1, TypeCorrect, PTL
-----------------------------------------------------------------------------
(* StableReadOnce *)

\* A row has been in a page, and in one only, when the cursor has passed it.
ReadOK(row) ==
  /\ returned[row] = IF Passed(row) THEN 1 ELSE 0
  /\ done => Passed(row)

IInv ==
  /\ TypeOK
  /\ cursor # Start => cursor \in Tuples
  /\ \A id \in stable, partner \in Matching : ReadOK(<<id, partner>>)

LEMMA InitIInv == Init => IInv
<1> SUFFICES ASSUME Init PROVE IInv
  OBVIOUS
<1>1. TypeOK
  BY InitTypeOK
<1>2. ASSUME NEW id \in stable, NEW partner \in Matching PROVE ReadOK(<<id, partner>>)
  <2>1. <<id, partner>> \in Rows
    BY DEF Init, Live, Matching, Rows
  <2> QED BY <2>1 DEF Init, ReadOK, Passed
<1> QED BY <1>1, <1>2 DEF IInv, Init

\* A page that is no smaller than what remains is all of it.
LEMMA WholePage ==
  ASSUME TypeOK, NEW page \in SUBSET Remaining, IsPage(page), Cardinality(page) < op.page.size
  PROVE  page = Remaining
<1>1. IsFiniteSet(Remaining)
  BY SelectedFinite, FS_Subset DEF Remaining
<1>2. op.page.size \in Nat
  BY OperationFacts DEF TypeOK, Completions
<1>3. Cardinality(page) = Cardinality(Remaining)
  <2>1. Cardinality(Remaining) \in Nat
    BY <1>1, FS_CardinalityType
  <2> QED BY <1>2, <2>1 DEF IsPage, Smaller
<1> QED BY <1>1, <1>3, FS_Subset

\* A page moves the cursor past its own rows, and past no other that remained.
LEMMA FetchOK ==
  ASSUME IInv, SinglePartner, Fetch, NEW id \in stable, NEW partner \in Matching
  PROVE  ReadOK(<<id, partner>>)'
<1> DEFINE row == <<id, partner>>
<1>1. PICK page \in SUBSET Remaining :
        /\ IsPage(page)
        /\ returned' = [r \in Rows |-> returned[r] + (IF r \in page THEN 1 ELSE 0)]
        /\ done' = (Cardinality(page) < op.page.size)
        /\ cursor' = IF page = {} THEN cursor ELSE SortTuple(LastOf(page))
  BY DEF Fetch
<1>2. TypeOK /\ op \in Completions /\ ReadOK(row) /\ ~done
  BY DEF IInv, TypeOK, Completions, Fetch
<1>3. row \in Selected /\ row \in Rows
  BY <1>2 DEF TypeOK, Selected, Live, Matching, Rows
<1>4. returned[row] = IF Passed(row) THEN 1 ELSE 0
  BY <1>2 DEF ReadOK
<1>5. /\ UNCHANGED <<op, table>>
      /\ SortTuple(row)' = SortTuple(row)
      /\ \A t, u : Before(t, u)' = Before(t, u)
  BY DEF Fetch, SortTuple, ValueOf, Before, Identity, PrimarySchema
<1> HIDE DEF row
<1>6. row \in Remaining <=> ~Passed(row)
  BY <1>3 DEF Remaining, Passed
<1>7. returned'[row] = returned[row] + (IF row \in page THEN 1 ELSE 0)
  BY <1>1, <1>3
<1>8. Passed(row)' <=> Passed(row) \/ row \in page
  <2>1. CASE page = {}
    BY <1>1, <1>5, <2>1 DEF Passed
  <2>2. CASE page # {}
    <3> DEFINE last == LastOf(page)
               t == SortTuple(last)
               u == SortTuple(row)
    <3>1. /\ last \in page /\ t \in Tuples /\ t # Start
          /\ \A r \in Selected : Passed(r) \/ r \in page => ~Before(t, SortTuple(r))
      BY <1>2, <2>2, LastPassed DEF IInv
    <3>2. u \in Tuples /\ last \in Selected
      BY <1>2, <1>3, <3>1, TupleType DEF Remaining
    <3>3. cursor' = t
      BY <1>1, <2>2
    <3>4. t = u => last = row
      BY <1>2, <1>3, <3>2, UniqueTuple
    <3> HIDE DEF last, t
    <3>5. Passed(row)' <=> ~Before(t, u)
      BY <1>5, <3>1, <3>3 DEF Passed
    <3>6. CASE Passed(row) \/ row \in page
      BY <1>3, <3>1, <3>5, <3>6
    <3>7. CASE row \in Remaining \ page
      <4>1. ~Before(u, t)
        BY <1>1, <3>1, <3>7 DEF IsPage, t, last
      <4>2. t # u
        BY <3>1, <3>4, <3>7
      <4> HIDE DEF u
      <4>3. Before(t, u)
        BY <1>2, <3>1, <3>2, <4>1, <4>2, BeforeTotal
      <4> QED BY <1>6, <3>5, <3>7, <4>3
    <3> QED BY <1>6, <3>6, <3>7
  <2> QED BY <2>1, <2>2
<1>9. row \in page => ~Passed(row)
  BY <1>6
<1>10. done' => Passed(row)'
  BY <1>1, <1>2, <1>6, <1>8, WholePage
<1>11. returned'[row] = IF Passed(row)' THEN 1 ELSE 0
  BY <1>4, <1>7, <1>8, <1>9
<1> QED BY <1>10, <1>11 DEF ReadOK, row

LEMMA NextIInv ==
  ASSUME SinglePartner, IInv, [Next]_vars
  PROVE  IInv'
<1>1. TypeOK /\ TypeOK'
  BY NextTypeOK DEF IInv
<1>2. CASE Fetch
  <2>1. UNCHANGED <<op, table, stable>>
    BY <1>2 DEF Fetch
  <2>2. Tuples' = Tuples /\ Matching' = Matching
    BY <2>1 DEF Tuples, Matching
  <2>3. cursor' # Start => cursor' \in Tuples
    <3>1. PICK page \in SUBSET Remaining :
            cursor' = IF page = {} THEN cursor ELSE SortTuple(LastOf(page))
      BY <1>2 DEF Fetch
    <3>2. CASE page = {}
      BY <3>1, <3>2 DEF IInv
    <3>3. CASE page # {}
      <4>1. LastOf(page) \in Selected
        BY <1>1, <3>3, LastFacts DEF Remaining
      <4> QED BY <1>1, <3>1, <3>3, <4>1, TupleType
    <3> QED BY <3>2, <3>3
  <2>4. \A id \in stable, partner \in Matching : ReadOK(<<id, partner>>)'
    BY <1>2, FetchOK
  <2> QED BY <1>1, <2>1, <2>2, <2>3, <2>4 DEF IInv
<1>3. ASSUME NEW i \in Identities, NEW value \in Values \cup {NoRow}, Write(i, value)
      PROVE  IInv'
  <2>1. /\ table' = [table EXCEPT ![i] = value]
        /\ stable' = stable \ {i}
        /\ UNCHANGED <<op, cursor, returned, done>>
    BY <1>3 DEF Write
  <2>2. Tuples' = Tuples /\ Matching' = Matching
    BY <2>1 DEF Tuples, Matching
  <2>3. ASSUME NEW id \in stable', NEW partner \in Matching PROVE ReadOK(<<id, partner>>)'
    <3> DEFINE row == <<id, partner>>
    <3>1. id \in stable /\ id # i /\ row[1] = id
      BY <2>1
    <3>2. table'[row[1]] = table[row[1]]
      BY <1>1, <2>1, <3>1 DEF TypeOK, Live
    <3> HIDE DEF row
    <3>3. SortTuple(row)' = SortTuple(row)
      BY <2>1, <3>2 DEF SortTuple, ValueOf, Identity, PrimarySchema
    <3>4. \A t, u : Before(t, u)' = Before(t, u)
      BY <2>1 DEF Before
    <3>5. ReadOK(row)
      BY <3>1 DEF IInv, row
    <3>6. ReadOK(row)'
      BY <2>1, <3>3, <3>4, <3>5 DEF ReadOK, Passed
    <3> QED BY <3>6 DEF row
  <2> QED BY <1>1, <2>1, <2>2, <2>3 DEF IInv
<1>4. CASE UNCHANGED vars
  <2>1. UNCHANGED <<op, table, cursor, returned, stable, done>>
    BY <1>4 DEF vars
  <2>2. Tuples' = Tuples /\ Matching' = Matching
    BY <2>1 DEF Tuples, Matching
  <2>3. \A row : SortTuple(row)' = SortTuple(row)
    BY <2>1 DEF SortTuple, ValueOf, Identity, PrimarySchema
  <2>4. \A t, u : Before(t, u)' = Before(t, u)
    BY <2>1 DEF Before
  <2>5. \A row : ReadOK(row)' <=> ReadOK(row)
    BY <2>1, <2>3, <2>4 DEF ReadOK, Passed
  <2> QED BY <1>1, <2>1, <2>2, <2>5 DEF IInv
<1> QED BY <1>2, <1>3, <1>4 DEF Next

\* A Record that nobody touches while the pages are read is in exactly one of them,
\* whatever is written around it and wherever the cursor's own row went: between
\* two pages a writer may move, delete or insert every other row
\* (validation/__init__.py:285-331).
THEOREM StableRecordsReadOnce ==
  ASSUME SinglePartner
  PROVE  Spec => []StableReadOnce
<1>1. IInv => StableReadOnce
  <2>1. \A row : ReadOK(row) => returned[row] <= 1 /\ (done => returned[row] = 1)
    BY DEF ReadOK
  <2> QED BY <2>1 DEF IInv, StableReadOnce
<1>2. Init => IInv
  BY InitIInv
<1>3. IInv /\ [Next]_vars => IInv'
  BY NextIInv
<1> QED BY <1>1, <1>2, <1>3, PTL DEF Spec
-----------------------------------------------------------------------------
(* RereadsBounded and PagesAdvance *)

\* A row in front of the cursor has been read no oftener than it has been written,
\* and one behind it once more.
ReadBound(row) == writes + (IF row \in Selected /\ Passed(row) THEN 1 ELSE 0)

RInv ==
  /\ TypeOK
  /\ cursor # Start => cursor \in Tuples
  /\ writes \in Nat
  /\ \A row \in Rows : returned[row] <= ReadBound(row)

LEMMA InitRInv == Init => RInv
<1> SUFFICES ASSUME Init PROVE RInv
  OBVIOUS
<1>1. TypeOK
  BY InitTypeOK
<1> QED BY <1>1 DEF Init, RInv, ReadBound, Passed

\* What a page reads was in front of the cursor and is behind it afterwards.
LEMMA FetchRInv ==
  ASSUME RInv, Fetch
  PROVE  RInv'
<1>1. PICK page \in SUBSET Remaining :
        /\ returned' = [r \in Rows |-> returned[r] + (IF r \in page THEN 1 ELSE 0)]
        /\ cursor' = IF page = {} THEN cursor ELSE SortTuple(LastOf(page))
  BY DEF Fetch
<1>2. TypeOK /\ TypeOK'
  BY NextTypeOK DEF RInv, Next
<1>3. UNCHANGED <<op, table, writes>>
  BY DEF Fetch
<1>4. /\ Selected' = Selected /\ Tuples' = Tuples /\ Rows' = Rows
      /\ \A row : SortTuple(row)' = SortTuple(row)
      /\ \A t, u : Before(t, u)' = Before(t, u)
  BY <1>3 DEF Selected, Live, Matching, Tuples, Rows, SortTuple, ValueOf, Before, Identity,
              PrimarySchema
<1>5. cursor' # Start => cursor' \in Tuples'
  BY <1>1, <1>2, <1>4, LastPassed DEF RInv
<1>6. \A row \in Selected : Passed(row) \/ row \in page => Passed(row)'
  <2>1. CASE page = {}
    BY <1>1, <1>4, <2>1 DEF Passed
  <2>2. CASE page # {}
    <3>1. /\ cursor' = SortTuple(LastOf(page)) /\ cursor' # Start
          /\ \A row \in Selected : Passed(row) \/ row \in page => ~Before(cursor', SortTuple(row))
      BY <1>1, <1>2, <2>2, LastPassed DEF RInv
    <3> QED BY <1>4, <3>1 DEF Passed
  <2> QED BY <2>1, <2>2
<1>7. \A row \in page : row \in Selected /\ ~Passed(row)
  BY DEF Remaining, Passed
<1>8. ASSUME NEW row \in Rows PROVE returned'[row] <= ReadBound(row)'
  <2>1. returned[row] \in Nat /\ returned[row] <= ReadBound(row) /\ writes \in Nat
    BY <1>2 DEF RInv, TypeOK
  <2>2. returned'[row] = returned[row] + (IF row \in page THEN 1 ELSE 0)
    BY <1>1
  <2>3. ReadBound(row)' = writes + (IF row \in Selected /\ Passed(row)' THEN 1 ELSE 0)
    BY <1>3, <1>4 DEF ReadBound
  <2>4. ReadBound(row) = writes + (IF row \in Selected /\ Passed(row) THEN 1 ELSE 0)
    BY DEF ReadBound
  <2>5. CASE row \in page
    BY <1>6, <1>7, <2>1, <2>2, <2>3, <2>4, <2>5
  <2>6. CASE row \notin page
    BY <1>6, <2>1, <2>2, <2>3, <2>4, <2>6
  <2> QED BY <2>5, <2>6
<1> QED BY <1>2, <1>3, <1>4, <1>5, <1>8 DEF RInv

\* A write may put a row in front of the cursor, or back into the table behind it.
LEMMA WriteRInv ==
  ASSUME RInv, NEW id \in Identities, NEW value \in Values \cup {NoRow}, Write(id, value)
  PROVE  RInv'
<1>1. TypeOK'
  BY NextTypeOK DEF RInv, Next
<1>2. writes' = writes + 1 /\ UNCHANGED <<op, cursor, returned>>
  BY DEF Write
<1>3. Tuples' = Tuples /\ Rows' = Rows
  BY <1>2 DEF Tuples, Rows
<1>4. ASSUME NEW row \in Rows PROVE returned'[row] <= ReadBound(row)'
  <2>1. returned[row] \in Nat /\ writes \in Nat /\ returned[row] <= writes + 1
    BY DEF RInv, TypeOK, ReadBound
  <2>2. ReadBound(row)' \in {writes + 1, writes + 2}
    BY <1>2, <2>1 DEF ReadBound
  <2> QED BY <1>2, <2>1, <2>2
<1> QED BY <1>1, <1>2, <1>3, <1>4 DEF RInv

LEMMA NextRInv == RInv /\ [Next]_vars => RInv'
<1> SUFFICES ASSUME RInv, [Next]_vars PROVE RInv'
  OBVIOUS
<1>1. CASE Fetch
  BY <1>1, FetchRInv
<1>2. CASE \E id \in Identities, value \in Values \cup {NoRow} : Write(id, value)
  BY <1>2, WriteRInv
<1>3. CASE UNCHANGED vars
  <2>1. UNCHANGED <<op, table, cursor, returned, stable, writes>>
    BY <1>3 DEF vars
  <2>2. TypeOK'
    BY NextTypeOK DEF RInv
  <2>3. /\ Tuples' = Tuples /\ Rows' = Rows
        /\ \A row : ReadBound(row)' = ReadBound(row)
    BY <2>1 DEF Tuples, Rows, ReadBound, Selected, Live, Matching, Passed, SortTuple, ValueOf,
                Before, Identity, PrimarySchema
  <2> QED BY <2>1, <2>2, <2>3 DEF RInv
<1> QED BY <1>1, <1>2, <1>3 DEF Next

LEMMA InvarianceR == Spec => []RInv
BY InitRInv, NextRInv, PTL DEF Spec

\* A row is read again at most once for each write that interferes, with any number
\* of partners to a Record (validation/__init__.py:285-331).
THEOREM RereadsAreBounded == Spec => []RereadsBounded
<1>1. RInv => RereadsBounded
  <2>1. \A row \in Rows : RInv => returned[row] <= writes + 1
    BY DEF RInv, ReadBound, TypeOK
  <2> QED BY <2>1 DEF RereadsBounded
<1> QED BY <1>1, InvarianceR, PTL

\* A page that is not the last moves the cursor strictly on, and no page moves it
\* back (validation/__init__.py:285-331, wire/__init__.py:243-244).
THEOREM PagesAlwaysAdvance == Spec => PagesAdvance
<1> DEFINE Advances ==
      /\ cursor' # cursor => cursor' # Start /\ (cursor = Start \/ Before(cursor, cursor'))
      /\ cursor' = cursor => done' \/ writes' # writes
<1>1. RInv /\ [Next]_vars => [Advances]_vars
  <2> SUFFICES ASSUME RInv, Next PROVE Advances
    OBVIOUS
  <2>1. CASE Fetch
    <3>1. PICK page \in SUBSET Remaining :
            /\ done' = (Cardinality(page) < op.page.size)
            /\ cursor' = IF page = {} THEN cursor ELSE SortTuple(LastOf(page))
      BY <2>1 DEF Fetch
    <3>2. op \in Completions
      BY DEF RInv, TypeOK, Completions
    <3>3. CASE page = {}
      <4>1. Cardinality(page) = 0 /\ op.page.size \in Nat \ {0}
        BY <3>2, <3>3, FS_EmptySet, OperationFacts
      <4>2. Cardinality(page) < op.page.size
        BY <4>1
      <4>3. done'
        BY <3>1, <4>2
      <4> QED BY <3>1, <3>3, <4>3
    <3>4. CASE page # {}
      <4>1. /\ cursor' = SortTuple(LastOf(page))
            /\ cursor' \in Tuples /\ cursor' # Start
            /\ cursor = Start \/ Before(cursor, cursor')
        BY <3>1, <3>4, LastPassed DEF RInv
      <4>2. cursor' # cursor
        BY <4>1, BeforeIrreflexive
      <4> QED BY <4>1, <4>2
    <3> QED BY <3>3, <3>4
  <2>2. CASE \E id \in Identities, value \in Values \cup {NoRow} : Write(id, value)
    <3>1. writes' = writes + 1 /\ cursor' = cursor /\ writes \in Nat
      BY <2>2 DEF Write, RInv
    <3> QED BY <3>1
  <2> QED BY <2>1, <2>2 DEF Next
<1> QED BY <1>1, InvarianceR, PTL DEF Spec, PagesAdvance
=============================================================================
