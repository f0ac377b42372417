----------------------------- MODULE DataTable -----------------------------
(***************************************************************************)
(* The table of every list page: rows as they were fetched, shown in the   *)
(* order of a column the user picks.  A click on a header sorts by it      *)
(* ascending, then descending, then not at all; rows and columns may be    *)
(* replaced in between.                                                    *)
(*                                                                         *)
(* Bounds: MaxRows rows with the values of two columns each, Blank for an  *)
(* empty one.                                                              *)
(***************************************************************************)
EXTENDS Integers, FiniteSets, SequencesExt

CONSTANTS
  ColumnKeys,   (* of the columns                                              *)
  Values,       (* the values of cells, as numbers                             *)
  Blank,        (* an empty cell                                               *)
  MaxRows       (* bound                                                       *)

TableAssumption ==
  /\ Values \subseteq Int /\ Blank \notin Values /\ MaxRows \in Nat
  /\ "none" \notin ColumnKeys

VARIABLES
  rows,         (* as fetched: rows[i] is the i-th row's cells, by key         *)
  columns,      (* the keys there are                                          *)
  sortKey, sortDir   (* the sort, or "none"                                    *)

vars == <<rows, columns, sortKey, sortDir>>

Row == [ColumnKeys -> Values \cup {Blank}]

TypeOK ==
  /\ rows \in Seq(Row) /\ Len(rows) <= MaxRows /\ columns \subseteq ColumnKeys
  /\ sortKey \in ColumnKeys \cup {"none"} /\ sortDir \in {"asc", "desc", "none"}

Init ==
  /\ rows = <<>> /\ columns = ColumnKeys
  /\ sortKey = "none" /\ sortDir = "none"

----------------------------------------------------------------------------
(* The order.                                                                  *)

(* Negative, 0 or positive; blanks come last.                                  *)
cmp(a, b) ==
  IF a = Blank \/ b = Blank
    THEN (IF a = Blank THEN 1 ELSE 0) - (IF b = Blank THEN 1 ELSE 0)
    ELSE a - b

(* The row at i comes strictly before the one at j.                            *)
Before(i, j) ==
  LET result == cmp(rows[i][sortKey], rows[j][sortKey])
  IN  IF sortDir = "asc" THEN result < 0 ELSE -result < 0

(* Variant: sorted upwards and then turned round.                              *)
PrecedesTurned(i, j) ==
  Before(i, j) \/ (~Before(j, i) /\ (IF sortDir = "desc" THEN j < i ELSE i < j))

(* What the sort makes of that: rows of which neither comes before the other   *)
(* stay as they were.                                                          *)
Precedes(i, j) == Before(i, j) \/ (~Before(j, i) /\ i < j)

Position(i) == 1 + Cardinality({k \in 1..Len(rows) : Precedes(k, i)})

(* The places of the rows in the order they are shown.                         *)
sortedRows ==
  [p \in 1..Len(rows) |->
     IF sortKey = "none" THEN p ELSE CHOOSE i \in 1..Len(rows) : Position(i) = p]

----------------------------------------------------------------------------
handleSort(key) ==
  /\ key \in columns /\ rows # <<>>
  /\ \/ sortKey # key /\ sortKey' = key /\ sortDir' = "asc"
     \/ sortKey = key /\ sortDir = "asc" /\ sortDir' = "desc" /\ UNCHANGED sortKey
     \/ sortKey = key /\ sortDir = "desc" /\ sortKey' = "none" /\ sortDir' = "none"
  /\ UNCHANGED <<rows, columns>>

(* Another answer of the query, of the same table or the next.                 *)
RowsFetched ==
  /\ \E n \in 0..MaxRows : rows' \in [1..n -> Row]
  /\ UNCHANGED <<columns, sortKey, sortDir>>

(* The columns become others; the effect drops a sort by one that is gone.     *)
ColumnsChange ==
  /\ columns' \in (SUBSET ColumnKeys) \ {{}}
  /\ IF sortKey \in columns' THEN UNCHANGED <<sortKey, sortDir>>
                              ELSE sortKey' = "none" /\ sortDir' = "none"
  /\ UNCHANGED rows

Next == RowsFetched \/ ColumnsChange \/ \E key \in ColumnKeys : handleSort(key)

Spec == Init /\ [][Next]_vars

----------------------------------------------------------------------------
(* Properties.                                                                 *)

(* A blank cell is above every value.                                          *)
Below(a, b) == a # Blank /\ (b = Blank \/ a < b)

(* Every row is shown once, in the order of the sorted column, descending with *)
(* blanks first; rows with equal cells stay in the order they were fetched,    *)
(* both ways; and the sort is by a column that is there.                       *)
ShownInOrder ==
  LET shown == sortedRows
      Cell(p) == rows[shown[p]][sortKey]
  IN  /\ Len(shown) = Len(rows) /\ ToSet(shown) = 1..Len(rows)
      /\ sortKey \in columns \cup {"none"}
      /\ \A p, q \in 1..Len(rows) : p < q =>
           \/ sortDir = "asc" /\ Below(Cell(p), Cell(q))
           \/ sortDir = "desc" /\ Below(Cell(q), Cell(p))
           \/ (sortDir = "none" \/ Cell(p) = Cell(q)) /\ shown[p] < shown[q]
=============================================================================
