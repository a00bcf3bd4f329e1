-------------------------- MODULE KeysetPagination --------------------------
(***************************************************************************)
(* Live keyset pagination of a validated scan.  What this library decides  *)
(* is the order of the pages (EnsureOrder) and their size; the table, its  *)
(* writers and the executor that seeks past the cursor are the adapter's   *)
(* and external.  A cursor carries the sort tuple of the last row of its   *)
(* page, and nothing pins the table between two pages: the next one        *)
(* resumes after a tuple whose row may have changed or gone.               *)
(***************************************************************************)
EXTENDS QuerySemantics

CONSTANTS
  Registry,    \* the RegistryView the queries were validated against
  Operations,  \* the scans that may be paged through
  Identities,  \* the Record identities of the primary Collection
  Values,      \* the values of its one mutable field
  MutableField,
  Partners,    \* the rows of a joined Collection that match any Record
  NoRow,       \* a Record that is not there, or no partner
  Start,       \* no cursor yet
  MaxWrites    \* bound on the writes that interfere

ScanFields == {"kind", "primary", "joins", "order", "page"}

\* A Record identity is an immutable tuple of the identity fields, which are
\* distinct; a scan orders by these and by the mutable field.  Values are their
\* ranks in the order of their kind.
ASSUME PaginationAssumption ==
  /\ IsFiniteSet(Identities) /\ Identities \subseteq Seq(Int)
  /\ IsFiniteSet(Partners)
  /\ Values \subseteq Int
  /\ Start \notin Seq(Int)
  /\ MaxWrites \in Nat
  /\ \A o \in Operations :
       LET identity == PrimarySchema(o, Registry).identity
       IN  /\ Paginated(o) /\ OrderErrors(o, Registry) = {}
           /\ o = [f \in DOMAIN o |-> o[f]] /\ ScanFields \subseteq DOMAIN o
           /\ o.page.size \in Nat \ {0}
           /\ IsList(o.order) /\ IsList(identity) /\ IsInjective(identity)
           /\ MutableField \notin Range(identity)
           /\ \A sort \in Range(o.order) : sort.field.name \in Range(identity) \cup {MutableField}
           /\ \A id \in Identities : Len(id) = Len(identity)

VARIABLES
  op,        \* the validated operation
  table,     \* table[id]: the mutable value of the Record, or NoRow
  cursor,    \* the sort tuple to resume after
  returned,  \* returned[row]: how many pages have contained the row
  stable,    \* history: the Records untouched since the first page
  done,      \* the last page has been reached
  writes

vars == <<op, table, cursor, returned, stable, done, writes>>

Live == {id \in Identities : table[id] # NoRow}

\* A result row is a Record, with its partner when there is a join.
Matching == IF op.joins = {} THEN {NoRow} ELSE Partners

Rows == Identities \X (Partners \cup {NoRow})

Selected == Live \X Matching
-----------------------------------------------------------------------------
(* The order *)

Identity == PrimarySchema(op, Registry).identity

\* The value a row has for an order entry's field.
ValueOf(row, field) ==
  IF field.name = MutableField THEN table[row[1]]
  ELSE row[1][CHOOSE i \in DOMAIN Identity : Identity[i] = field.name]

\* Slip: the tuple carries a value the order does not have.
SortTupleAndMore(row) == [i \in DOMAIN op.order |-> ValueOf(row, op.order[i].field)]
                           \o <<table[row[1]]>>

SortTuple(row) == [i \in DOMAIN op.order |-> ValueOf(row, op.order[i].field)]

Precedes(direction, a, b) == IF direction = "asc" THEN a < b ELSE b < a

\* Lexicographic, each entry in its own direction.
Before(t, u) ==
  \E i \in DOMAIN op.order :
    /\ Precedes(op.order[i].direction, t[i], u[i])
    /\ \A j \in 1..(i - 1) : t[j] = u[j]

\* Slip: what comes after a cursor starts at the cursor's own row.
RemainingInclusive ==
  {row \in Selected : cursor = Start \/ ~Before(SortTuple(row), cursor)}

\* The page an executor may answer with: the first rows, in the order, of those
\* past the cursor, as many as the page holds.
Remaining == {row \in Selected : cursor = Start \/ Before(cursor, SortTuple(row))}

IsPage(page) ==
  /\ Cardinality(page) = Smaller(op.page.size, Cardinality(Remaining))
  /\ \A row \in page, other \in Remaining \ page : ~Before(SortTuple(other), SortTuple(row))

\* Slip: the cursor of a page is that of its first row.
FirstOf(page) == CHOOSE row \in page : \A other \in page : ~Before(SortTuple(other), SortTuple(row))

LastOf(page) == CHOOSE row \in page : \A other \in page : ~Before(SortTuple(row), SortTuple(other))
-----------------------------------------------------------------------------
Init ==
  /\ op \in {EnsureOrder(o, Registry) : o \in Operations}
  /\ table \in [Identities -> Values \cup {NoRow}]
  /\ cursor = Start
  /\ returned = [row \in Rows |-> 0]
  /\ stable = Live
  /\ done = FALSE
  /\ writes = 0

\* A full page comes with a cursor, a short one is the last.
Fetch ==
  /\ ~done
  /\ \E page \in SUBSET Remaining :
       /\ IsPage(page)
       /\ returned' = [row \in Rows |-> returned[row] + (IF row \in page THEN 1 ELSE 0)]
       /\ done' = (Cardinality(page) < op.page.size)
       /\ cursor' = IF page = {} THEN cursor ELSE SortTuple(LastOf(page))
  /\ UNCHANGED <<op, table, stable, writes>>

\* A writer inserts, updates or deletes a Record; its identity is immutable.
Write(id, value) ==
  /\ writes < MaxWrites
  /\ value # table[id]
  /\ table' = [table EXCEPT ![id] = value]
  /\ stable' = stable \ {id}
  /\ writes' = writes + 1
  /\ UNCHANGED <<op, cursor, returned, done>>

Next == Fetch \/ \E id \in Identities, value \in Values \cup {NoRow} : Write(id, value)

Spec == Init /\ [][Next]_vars
-----------------------------------------------------------------------------
(* Properties *)

TypeOK ==
  /\ op \in {EnsureOrder(o, Registry) : o \in Operations}
  /\ table \in [Identities -> Values \cup {NoRow}]
  /\ cursor # Start => DOMAIN cursor = DOMAIN op.order
  /\ returned \in [Rows -> Nat]
  /\ stable \subseteq Live

\* A Record that nobody touches while the pages are read is in exactly one of
\* them, whatever is written around it and wherever the cursor's own row went
\* (validation/__init__.py:285-331).
StableReadOnce ==
  \A id \in stable, partner \in Matching :
    /\ returned[<<id, partner>>] <= 1
    /\ done => returned[<<id, partner>>] = 1

\* The sort tuple a cursor is bound to is that of one row only.
SortTupleUnique ==
  \A row, other \in Selected : SortTuple(row) = SortTuple(other) => row = other

\* A write between two pages can put a row in front of the cursor again, and it is
\* then read again: once for each write, however the pages fall
\* (validation/__init__.py:285-331).
RereadsBounded == \A row \in Rows : returned[row] <= writes + 1

\* A page moves the cursor strictly on, also past a table that was written since, or
\* is the last: a scan cannot go back or read the same page for ever
\* (validation/__init__.py:285-331, wire/__init__.py:243-244).
PagesAdvance ==
  [][/\ cursor' # cursor => cursor' # Start /\ (cursor = Start \/ Before(cursor, cursor'))
     /\ cursor' = cursor => done' \/ writes' # writes]_vars
=============================================================================
