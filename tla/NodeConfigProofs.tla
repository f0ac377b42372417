-------------------------- MODULE NodeConfigProofs --------------------------
(***************************************************************************)
(* Proofs about NodeConfig for every catalog, with any number of           *)
(* connectors, schemas, tables and columns, and for lists of any length:   *)
(* the selected columns are among those of the table, and a cast is to a   *)
(* type of the list.                                                       *)
(***************************************************************************)
EXTENDS Console, SequenceTheorems, TLAPS

Data == [connector : Connectors \cup {Blank}, schema : Schemas \cup {Blank},
         table : Tables \cup {Blank}, columns : SUBSET Names, selected : SUBSET Names]

(* Columns only with a whole key, and the selected ones among them, unless a
   part of the key was typed; none of them but in a source. *)
CascadeOK(d, t) ==
  /\ d \in Data
  /\ kind # "source" => d.columns = {} /\ d.selected = {}
  /\ ~t => /\ d.selected \subseteq d.columns
           /\ d.columns # {} => /\ Node!useColumns(d) \in Node!Keys
                                /\ d.columns = Columns[Node!useColumns(d)]

CascadeInv == kind \in Node!Kinds /\ typed \in BOOLEAN /\ CascadeOK(data, typed)

(* An entry that is a cast has a type for a target, unless that was carried over
   from another operation. *)
CastOK(x) == x.operation = "cast" /\ ~x.carried => x.target \in Node!Types \cup {Blank}

ItemsInv ==
  /\ items \in Seq(Node!Item) /\ Len(items) <= MaxItems
  /\ kind = "transform" => \A i \in DOMAIN items : CastOK(items[i])

(* An answer is to a key all of whose parts were given. *)
AnsweredInv ==
  shown \in BOOLEAN /\ answered \subseteq Seq(Connectors \cup Schemas \cup Tables)

----------------------------------------------------------------------------
(* The cascade.                                                                *)

(* A key whose parts are given is that of a table. *)
LEMMA AskedKey ==
  ASSUME Node!NodeAssumption, NEW d \in Data, Node!Asked(Node!useColumns(d))
  PROVE  Node!useColumns(d) \in Node!Keys
<1>. DEFINE key == Node!useColumns(d)
<1>1. key = <<d.connector, d.schema, d.table>> /\ Len(key) = 3
  BY DEF Node!useColumns
<1>2. key[1] # Blank /\ key[2] # Blank /\ key[3] # Blank
  BY <1>1 DEF Node!Asked
<1>3. d.connector \in Connectors /\ d.schema \in Schemas /\ d.table \in Tables
  BY <1>1, <1>2 DEF Data
<1>. QED
  BY <1>1, <1>3 DEF Node!Keys

(* The effect that copies the columns keeps the cascade. *)
LEMMA PopulatedKeeps ==
  ASSUME Node!NodeAssumption, NEW d, NEW t \in BOOLEAN, CascadeOK(d, t), NEW given
  PROVE  CascadeOK(Node!Populated(d, given), t)
<1>. DEFINE key == Node!useColumns(d)
            whole == [d EXCEPT !.columns = Columns[key]]
<1>1. d \in Data
  BY DEF CascadeOK
<1>2. CASE /\ kind = "source" /\ Node!Asked(key) /\ key \in given
           /\ Columns[key] \notin {{}, d.columns}
  <2>1. Node!Populated(d, given) = whole
    BY <1>2 DEF Node!Populated
  <2>2. key \in Node!Keys
    BY <1>1, <1>2, AskedKey
  <2>3. Columns[key] \subseteq Names
    BY <2>2 DEF Node!NodeAssumption
  <2>4. whole \in Data /\ Node!useColumns(whole) = key /\ whole.selected = d.selected
        /\ whole.columns = Columns[key]
    BY <1>1, <2>3 DEF Data, Node!useColumns
  <2>5. ~t => d.columns = {} /\ d.selected = {}
    BY <1>2 DEF CascadeOK
  <2>. QED
    BY <1>2, <2>1, <2>2, <2>4, <2>5 DEF CascadeOK
<1>3. CASE ~(kind = "source" /\ Node!Asked(key) /\ key \in given
             /\ Columns[key] \notin {{}, d.columns})
  BY <1>3 DEF Node!Populated
<1>. QED
  BY <1>2, <1>3

(* What a step of the user leaves in the node, if that is in order. *)
LEMMA UpdateKeeps ==
  ASSUME Node!NodeAssumption, CascadeInv, NEW d, CascadeOK(d, typed'), typed' \in BOOLEAN,
         Node!updateNodeData(d)
  PROVE  CascadeInv'
<1>1. CascadeOK(data', typed') /\ kind' = kind
  BY PopulatedKeeps DEF Node!updateNodeData
<1>2. CascadeOK(data, typed)'
  BY <1>1 DEF CascadeOK, Data, Node!useColumns, Node!Keys
<1>. QED
  BY <1>1, <1>2 DEF CascadeInv

(* A part of the key that is given, and nothing picked behind it, is in order;
   so is whatever is typed, and whatever a destination's fields hold. *)
LEMMA PickedFirst ==
  ASSUME NEW c \in Connectors, NEW u \in BOOLEAN
  PROVE  CascadeOK([Node!Empty EXCEPT !.connector = c], u)
<1>. DEFINE d == [Node!Empty EXCEPT !.connector = c]
<1>1. d = [connector |-> c, schema |-> Blank, table |-> Blank, columns |-> {}, selected |-> {}]
  BY DEF Node!Empty
<1>2. d \in Data /\ d.columns = {} /\ d.selected = {}
  BY <1>1 DEF Data
<1>. QED
  BY <1>2 DEF CascadeOK

LEMMA PickedSecond ==
  ASSUME CascadeInv, NEW s \in Schemas, NEW u \in BOOLEAN
  PROVE  CascadeOK([Node!Empty EXCEPT !.connector = data.connector, !.schema = s], u)
<1>. DEFINE d == [Node!Empty EXCEPT !.connector = data.connector, !.schema = s]
<1>1. Node!Empty \in Data /\ Node!Empty.columns = {} /\ Node!Empty.selected = {}
  BY DEF Node!Empty, Data
<1>2. data.connector \in Connectors \cup {Blank}
  BY DEF Data, CascadeInv, CascadeOK
<1>3. d \in Data /\ d.columns = {} /\ d.selected = {}
  BY <1>1, <1>2 DEF Data
<1>. QED
  BY <1>3 DEF CascadeOK

LEMMA PickedThird ==
  ASSUME CascadeInv, NEW t \in Tables, NEW u \in BOOLEAN
  PROVE  CascadeOK([data EXCEPT !.table = t, !.columns = {}, !.selected = {}], u)
<1>. DEFINE d == [data EXCEPT !.table = t, !.columns = {}, !.selected = {}]
<1>1. d \in Data /\ d.columns = {} /\ d.selected = {}
  BY DEF Data, CascadeInv, CascadeOK
<1>. QED
  BY <1>1 DEF CascadeOK

LEMMA Typed ==
  ASSUME CascadeInv, NEW s \in Schemas \cup {Blank}, NEW t \in Tables \cup {Blank}
  PROVE  /\ CascadeOK([data EXCEPT !.schema = s], TRUE)
         /\ CascadeOK([data EXCEPT !.table = t], TRUE)
<1>1. data \in Data /\ (kind # "source" => data.columns = {} /\ data.selected = {})
  BY DEF CascadeInv, CascadeOK
<1>2. [data EXCEPT !.schema = s] \in Data /\ [data EXCEPT !.table = t] \in Data
  BY <1>1 DEF Data
<1>3. /\ [data EXCEPT !.schema = s].columns = data.columns
      /\ [data EXCEPT !.schema = s].selected = data.selected
      /\ [data EXCEPT !.table = t].columns = data.columns
      /\ [data EXCEPT !.table = t].selected = data.selected
  BY <1>1 DEF Data
<1>. QED
  BY <1>1, <1>2, <1>3 DEF CascadeOK

LEMMA InDestination ==
  ASSUME CascadeInv, kind # "source", NEW s \in Schemas \cup {Blank},
         NEW t \in Tables \cup {Blank}, NEW u \in BOOLEAN
  PROVE  CascadeOK([data EXCEPT !.schema = s, !.table = t], u)
<1>. DEFINE d == [data EXCEPT !.schema = s, !.table = t]
<1>1. d \in Data /\ d.columns = {} /\ d.selected = {}
  BY DEF Data, CascadeInv, CascadeOK
<1>. QED
  BY <1>1 DEF CascadeOK

(* The cascade keeps its order, however picks, typing and answers interleave. *)
LEMMA CascadeStep ==
  ASSUME Node!NodeAssumption, CascadeInv, [Node!Next]_(Node!vars)
  PROVE  CascadeInv'
<1>1. CASE UNCHANGED <<kind, data, typed>>
  BY <1>1 DEF CascadeInv, CascadeOK, Data, Node!useColumns, Node!Keys
<1>2. ASSUME kind' = kind, typed' = typed, NEW given, data' = Node!Populated(data, given)
      PROVE  CascadeInv'
  <2>1. CascadeOK(data', typed')
    BY <1>2, PopulatedKeeps DEF CascadeInv
  <2>. QED
    BY <1>2, <2>1 DEF CascadeInv, CascadeOK, Data, Node!useColumns, Node!Keys
<1>3. CASE Node!SelectNode
  BY <1>2, <1>3 DEF Node!SelectNode
<1>4. CASE Node!Answer
  BY <1>2, <1>4 DEF Node!Answer
<1>5. CASE \E c \in Connectors : Node!PickConnector(c) \/ Node!DestinationConnector(c)
  <2>1. PICK c \in Connectors : Node!updateNodeData([Node!Empty EXCEPT !.connector = c])
    BY <1>5 DEF Node!PickConnector, Node!DestinationConnector
  <2>2. typed' \in BOOLEAN
    BY <1>5 DEF Node!PickConnector, Node!DestinationConnector, Node!DestinationConfig,
           CascadeInv
  <2>3. CascadeOK([Node!Empty EXCEPT !.connector = c], typed')
    BY <2>2, PickedFirst
  <2>. QED
    BY <2>1, <2>2, <2>3, UpdateKeeps
<1>6. CASE \E s \in Schemas : Node!PickSchema(s)
  <2>1. PICK s \in Schemas :
          Node!updateNodeData([Node!Empty EXCEPT !.connector = data.connector, !.schema = s])
    BY <1>6 DEF Node!PickSchema
  <2>2. typed' = FALSE
    BY <1>6 DEF Node!PickSchema
  <2>3. CascadeOK([Node!Empty EXCEPT !.connector = data.connector, !.schema = s], typed')
    BY <2>2, PickedSecond
  <2>. QED
    BY <2>1, <2>2, <2>3, UpdateKeeps
<1>7. CASE \E s \in Schemas \cup {Blank} : Node!TypeSchema(s)
  <2>1. PICK s \in Schemas \cup {Blank} : Node!updateNodeData([data EXCEPT !.schema = s])
    BY <1>7 DEF Node!TypeSchema
  <2>2. typed' = TRUE
    BY <1>7 DEF Node!TypeSchema
  <2>3. CascadeOK([data EXCEPT !.schema = s], typed')
    BY <2>2, Typed
  <2>. QED
    BY <2>1, <2>2, <2>3, UpdateKeeps
<1>8. CASE \E t \in Tables : Node!PickTable(t)
  <2>1. PICK t \in Tables :
          Node!updateNodeData([data EXCEPT !.table = t, !.columns = {}, !.selected = {}])
    BY <1>8 DEF Node!PickTable
  <2>2. typed' = FALSE
    BY <1>8 DEF Node!PickTable
  <2>3. CascadeOK([data EXCEPT !.table = t, !.columns = {}, !.selected = {}], typed')
    BY <2>2, PickedThird
  <2>. QED
    BY <2>1, <2>2, <2>3, UpdateKeeps
<1>9. CASE \E t \in Tables \cup {Blank} : Node!TypeTable(t)
  <2>1. PICK t \in Tables \cup {Blank} : Node!updateNodeData([data EXCEPT !.table = t])
    BY <1>9 DEF Node!TypeTable
  <2>2. typed' = TRUE
    BY <1>9 DEF Node!TypeTable
  <2>3. CascadeOK([data EXCEPT !.table = t], typed')
    BY <2>2, Typed
  <2>. QED
    BY <2>1, <2>2, <2>3, UpdateKeeps
<1>10. CASE Node!SelectAll
  <2>1. typed' = typed /\ kind = "source"
    BY <1>10 DEF Node!SelectAll, Node!SourceConfig
  <2>2. ASSUME NEW picked \in {{}, data.columns}
        PROVE  CascadeOK([data EXCEPT !.selected = picked], typed)
    BY <2>1 DEF CascadeInv, CascadeOK, Data, Node!useColumns
  <2>3. PICK picked \in {{}, data.columns} : Node!updateNodeData([data EXCEPT !.selected = picked])
    BY <1>10 DEF Node!SelectAll
  <2>. QED
    BY <2>1, <2>2, <2>3, UpdateKeeps DEF CascadeInv
<1>11. CASE \E n \in Names : Node!ToggleColumn(n)
  <2>1. PICK n \in data.columns :
          Node!updateNodeData([data EXCEPT !.selected = Node!SymDiff(@, {n})])
    BY <1>11 DEF Node!ToggleColumn
  <2>2. typed' = typed /\ kind = "source"
    BY <1>11 DEF Node!ToggleColumn, Node!SourceConfig
  <2>3. CascadeOK([data EXCEPT !.selected = Node!SymDiff(@, {n})], typed)
    BY <2>1, <2>2 DEF CascadeInv, CascadeOK, Data, Node!useColumns, Node!SymDiff
  <2>. QED
    BY <2>1, <2>2, <2>3, UpdateKeeps DEF CascadeInv
<1>12. CASE \E s \in Schemas \cup {Blank} : Node!DestinationSchema(s)
  <2>1. PICK s \in Schemas \cup {Blank} :
          Node!updateNodeData(
            [data EXCEPT !.schema = s,
                         !.table = IF Node!Has(Node!useSchemas(data)) THEN Blank ELSE @])
    BY <1>12 DEF Node!DestinationSchema
  <2>2. typed' = typed /\ kind = "destination"
    BY <1>12 DEF Node!DestinationSchema, Node!DestinationConfig
  <2>3. data.table \in Tables \cup {Blank}
    BY DEF CascadeInv, CascadeOK, Data
  <2>4. PICK t \in Tables \cup {Blank} :
          Node!updateNodeData([data EXCEPT !.schema = s, !.table = t])
    BY <2>1, <2>3
  <2>5. CascadeOK([data EXCEPT !.schema = s, !.table = t], typed')
    BY <2>2, InDestination DEF CascadeInv
  <2>. QED
    BY <2>2, <2>4, <2>5, UpdateKeeps DEF CascadeInv
<1>13. CASE \E t \in Tables \cup {Blank} : Node!DestinationTable(t)
  <2>1. PICK t \in Tables \cup {Blank} : Node!updateNodeData([data EXCEPT !.table = t])
    BY <1>13 DEF Node!DestinationTable
  <2>2. typed' = typed /\ kind = "destination" /\ data \in Data
    BY <1>13 DEF Node!DestinationTable, Node!DestinationConfig, CascadeInv, CascadeOK
  <2>3. [data EXCEPT !.table = t] = [data EXCEPT !.schema = data.schema, !.table = t]
        /\ data.schema \in Schemas \cup {Blank}
    BY <2>2 DEF Data
  <2>4. CascadeOK([data EXCEPT !.table = t], typed')
    BY <2>2, <2>3, InDestination DEF CascadeInv
  <2>. QED
    BY <2>1, <2>2, <2>4, UpdateKeeps DEF CascadeInv
<1>14. CASE Node!ClosePanel \/ Node!Expire
  BY <1>1, <1>14 DEF Node!ClosePanel, Node!Expire
<1>15. CASE Node!addCondition \/ Node!addTransform \/ Node!addAggregation
  BY <1>1, <1>15 DEF Node!addCondition, Node!addTransform, Node!addAggregation, Node!Add,
         Node!SetItems
<1>16. CASE \E i \in 1..MaxItems :
             \/ Node!EditCondition(i) \/ Node!EditTransform(i) \/ Node!EditAggregation(i)
  BY <1>1, <1>16 DEF Node!EditCondition, Node!EditTransform, Node!EditAggregation,
         Node!RemoveItem, Node!SetOperation,
     Node!SetTarget, Node!SetItems
<1>17. CASE UNCHANGED Node!vars
  BY <1>1, <1>17 DEF Node!vars
<1>. QED
  BY <1>3, <1>4, <1>5, <1>6, <1>7, <1>8, <1>9, <1>10, <1>11, <1>12, <1>13, <1>14, <1>15,
     <1>16, <1>17 DEF Node!Next

(* What the console does, the view does or does not see. *)
LEMMA InView == [ConsoleNext]_consoleVars => [Node!Next]_(Node!vars)
BY DEF ConsoleNext, consoleVars, nodeVars, Node!vars

LEMMA CascadeInvariance == ConsoleSpec => []CascadeInv
<1>1. ASSUME ConsoleInit PROVE CascadeInv
  <2>1. Node!Empty \in Data /\ Node!Empty.columns = {} /\ Node!Empty.selected = {}
    BY DEF Node!Empty, Data
  <2>. QED
    BY <1>1, <2>1 DEF ConsoleInit, Node!Init, CascadeInv, CascadeOK
<1>2. CascadeInv /\ [ConsoleNext]_consoleVars => CascadeInv'
  BY CascadeStep, InView, ConsoleAssumption
<1>. QED
  BY <1>1, <1>2, PTL DEF ConsoleSpec

(* Unless schema or table was typed, the selected columns are those of the     *)
(* table, for any order of picks, answers, expiries and openings of the panel. *)
THEOREM SelectionIsListed == ConsoleSpec => []SelectionListed
<1>1. CascadeInv => SelectionListed
  BY DEF SelectionListed, CascadeInv, CascadeOK, Node!SelectionListed
<1>. QED
  BY <1>1, CascadeInvariance, PTL

----------------------------------------------------------------------------
(* The list of transformations.                                                *)

(* Removing an entry keeps the others, each at its place or the next. *)
LEMMA Removed ==
  ASSUME NEW S, NEW seq \in Seq(S), NEW i \in 1..Len(seq)
  PROVE  /\ Node!RemoveAt(seq, i) \in Seq(S) /\ Len(Node!RemoveAt(seq, i)) <= Len(seq)
         /\ \A j \in DOMAIN Node!RemoveAt(seq, i) :
              \E k \in DOMAIN seq : Node!RemoveAt(seq, i)[j] = seq[k]
<1>. DEFINE front == SubSeq(seq, 1, i - 1)  rest == SubSeq(seq, i + 1, Len(seq))
<1>1. Len(seq) \in Nat /\ i \in Int /\ 1 <= i /\ i <= Len(seq)
  BY LenProperties
<1>2. front \in Seq(S) /\ Len(front) = i - 1 /\ \A j \in 1..(i - 1) : front[j] = seq[j]
  BY <1>1, SubSeqProperties
<1>3. rest \in Seq(S) /\ Len(rest) = Len(seq) - i
      /\ \A j \in 1..(Len(seq) - i) : rest[j] = seq[i + j]
  BY <1>1, SubSeqProperties
<1>4. Node!RemoveAt(seq, i) = front \o rest
  BY DEF Node!RemoveAt
<1>. HIDE DEF front, rest
<1>5. front \o rest \in Seq(S) /\ Len(front \o rest) = Len(seq) - 1
      /\ \A j \in 1..(Len(seq) - 1) :
           (front \o rest)[j] = IF j <= i - 1 THEN front[j] ELSE rest[j - (i - 1)]
  <2>1. Len(front) + Len(rest) = Len(seq) - 1
    BY <1>1, <1>2, <1>3
  <2>. QED
    <3>1. front \o rest \in Seq(S) /\ Len(front \o rest) = Len(front) + Len(rest)
          /\ \A j \in 1..(Len(front) + Len(rest)) :
               (front \o rest)[j] = IF j <= Len(front) THEN front[j] ELSE rest[j - Len(front)]
      BY ONLY <1>2, <1>3, ConcatProperties
    <3>. QED
      BY ONLY <1>2, <2>1, <3>1
<1>6. ASSUME NEW j \in 1..(Len(seq) - 1)
      PROVE  \E k \in 1..Len(seq) : (front \o rest)[j] = seq[k]
  <2>1. CASE j <= i - 1
    BY <1>1, <1>2, <1>5, <2>1
  <2>2. CASE j > i - 1
    <3>1. (front \o rest)[j] = rest[j - (i - 1)]
      BY <1>1, <1>5, <2>2
    <3>2. j - (i - 1) \in 1..(Len(seq) - i) /\ i + (j - (i - 1)) = j + 1
      BY <1>1, <2>2
    <3>3. rest[j - (i - 1)] = seq[j + 1]
      BY <1>3, <3>2
    <3>4. j + 1 \in 1..Len(seq)
      BY <1>1
    <3>. QED
      BY <3>1, <3>3, <3>4
  <2>3. j <= i - 1 \/ j > i - 1
    BY <1>1
  <2>. QED
    BY <2>1, <2>2, <2>3
<1>7. DOMAIN (front \o rest) = 1..(Len(seq) - 1) /\ DOMAIN seq = 1..Len(seq)
  BY <1>5, LenProperties
<1>8. Len(front \o rest) <= Len(seq)
  BY <1>1, <1>5
<1>. QED
  BY <1>4, <1>5, <1>6, <1>7, <1>8

(* The list with an entry replaced. *)
LEMMA Replaced ==
  ASSUME ItemsInv, NEW i \in DOMAIN items, NEW x \in Node!Item, kind = "transform" => CastOK(x),
         NEW seq, seq = [items EXCEPT ![i] = x]
  PROVE  /\ seq \in Seq(Node!Item) /\ Len(seq) <= MaxItems
         /\ kind = "transform" => \A j \in DOMAIN seq : CastOK(seq[j])
<1>1. items \in Seq(Node!Item) /\ i \in 1..Len(items)
  BY LenProperties DEF ItemsInv
<1>2. seq \in Seq(Node!Item) /\ Len(seq) = Len(items)
      /\ \A j \in 1..Len(items) : seq[j] = IF j = i THEN x ELSE items[j]
  BY <1>1, ExceptSeq
<1>3. DOMAIN seq = 1..Len(items) /\ DOMAIN items = 1..Len(items)
  BY <1>1, <1>2, LenProperties
<1>. QED
  BY <1>2, <1>3 DEF ItemsInv

(* Adding, removing and editing entries. *)
LEMMA AddKeeps ==
  ASSUME MaxItems \in Nat, ItemsInv, kind' = kind,
         NEW op \in Node!Operations \ {"cast"}, Node!Add(op)
  PROVE  ItemsInv'
<1>. DEFINE x == [operation |-> op, target |-> Blank, carried |-> FALSE]
<1>1. x \in Node!Item /\ CastOK(x)
  BY DEF Node!Item, CastOK
<1>2. items' = Append(items, x) /\ items \in Seq(Node!Item)
  BY DEF Node!Add, Node!SetItems, ItemsInv
<1>. HIDE DEF x
<1>3. items' \in Seq(Node!Item) /\ Len(items') = Len(items) + 1 /\ items'[Len(items) + 1] = x
      /\ \A j \in 1..Len(items) : items'[j] = items[j]
  BY <1>1, <1>2, AppendProperties
<1>4. DOMAIN items' = 1..(Len(items) + 1) /\ DOMAIN items = 1..Len(items) /\ Len(items) \in Nat
  BY <1>2, <1>3, LenProperties
<1>5. ASSUME NEW j \in DOMAIN items', kind = "transform" PROVE CastOK(items'[j])
  <2>1. CASE j = Len(items) + 1
    BY <1>1, <1>3, <2>1
  <2>2. CASE j \in 1..Len(items)
    BY <1>3, <1>4, <1>5, <2>2 DEF ItemsInv
  <2>. QED
    BY <1>4, <2>1, <2>2
<1>6. Len(items') <= MaxItems
  BY <1>3, <1>4 DEF Node!Add
<1>. QED
  BY <1>3, <1>5, <1>6 DEF ItemsInv, CastOK

LEMMA RemoveKeeps ==
  ASSUME MaxItems \in Nat, ItemsInv, kind' = kind, NEW i \in DOMAIN items, Node!RemoveItem(i)
  PROVE  ItemsInv'
<1>1. items \in Seq(Node!Item) /\ i \in 1..Len(items)
  BY LenProperties DEF ItemsInv
<1>2. items' = Node!RemoveAt(items, i)
  BY DEF Node!RemoveItem, Node!SetItems
<1>3. /\ items' \in Seq(Node!Item) /\ Len(items') <= Len(items)
      /\ \A j \in DOMAIN items' : \E k \in DOMAIN items : items'[j] = items[k]
  BY <1>1, <1>2, Removed
<1>4. Len(items') <= MaxItems
  BY <1>1, <1>3, LenProperties DEF ItemsInv
<1>. QED
  BY <1>3, <1>4 DEF ItemsInv, CastOK

LEMMA OperationKeeps ==
  ASSUME ItemsInv, kind' = kind, NEW i \in DOMAIN items, NEW op \in Node!Operations,
         Node!SetOperation(i, op)
  PROVE  ItemsInv'
<1>. DEFINE x == [items[i] EXCEPT !.operation = op,
                                  !.carried = items[i].carried \/ items[i].target # Blank]
<1>1. items[i] \in Node!Item
  BY ElementOfSeq, LenProperties DEF ItemsInv
<1>2. (items[i].carried \/ items[i].target # Blank) \in BOOLEAN
  OBVIOUS
<1>3. x \in Node!Item /\ x.target = items[i].target
      /\ x.carried = (items[i].carried \/ items[i].target # Blank)
  BY <1>1, <1>2 DEF Node!Item
<1>4. CastOK(x)
  BY <1>3 DEF CastOK
<1>5. items' = [items EXCEPT ![i] = x]
  BY DEF Node!SetOperation, Node!SetItems
<1>. HIDE DEF x
<1>6. /\ items' \in Seq(Node!Item) /\ Len(items') <= MaxItems
      /\ kind = "transform" => \A j \in DOMAIN items' : CastOK(items'[j])
  BY <1>3, <1>4, <1>5, Replaced
<1>. QED
  BY <1>6 DEF ItemsInv, CastOK

LEMMA TargetKeeps ==
  ASSUME ItemsInv, kind' = kind, NEW i \in DOMAIN items,
         NEW y \in Texts \cup Node!Types \cup {Blank},
         kind = "transform" /\ items[i].operation = "cast" => y \in Node!Types,
         Node!SetTarget(i, y)
  PROVE  ItemsInv'
<1>. DEFINE x == [items[i] EXCEPT !.target = y, !.carried = FALSE]
<1>1. items[i] \in Node!Item
  BY ElementOfSeq, LenProperties DEF ItemsInv
<1>2. x \in Node!Item /\ x.target = y /\ x.operation = items[i].operation
  BY <1>1 DEF Node!Item
<1>3. kind = "transform" => CastOK(x)
  BY <1>2 DEF CastOK
<1>4. items' = [items EXCEPT ![i] = x]
  BY DEF Node!SetTarget, Node!SetItems
<1>. HIDE DEF x
<1>5. /\ items' \in Seq(Node!Item) /\ Len(items') <= MaxItems
      /\ kind = "transform" => \A j \in DOMAIN items' : CastOK(items'[j])
  BY <1>2, <1>3, <1>4, Replaced
<1>. QED
  BY <1>5 DEF ItemsInv, CastOK

(* Every step of the panel keeps the list in order. *)
LEMMA ItemsStep ==
  ASSUME MaxItems \in Nat, ItemsInv, [Node!Next]_(Node!vars)
  PROVE  ItemsInv'
<1>1. CASE UNCHANGED <<kind, items>>
  BY <1>1 DEF ItemsInv, CastOK
<1>2. CASE Node!addCondition \/ Node!addTransform \/ Node!addAggregation
  <2>1. PICK op \in Node!Operations \ {"cast"} : Node!Add(op)
    BY <1>2 DEF Node!addCondition, Node!addTransform, Node!addAggregation, Node!Operations
  <2>. QED
    BY <2>1, AddKeeps DEF Node!Add, Node!SetItems
<1>3. CASE \E i \in 1..MaxItems :
            \/ Node!EditCondition(i) \/ Node!EditTransform(i) \/ Node!EditAggregation(i)
  <2>1. PICK i \in DOMAIN items :
          Node!EditCondition(i) \/ Node!EditTransform(i) \/ Node!EditAggregation(i)
    BY <1>3 DEF Node!EditCondition, Node!EditTransform, Node!EditAggregation
  <2>2. kind' = kind
    BY <2>1 DEF Node!EditCondition, Node!EditTransform, Node!EditAggregation,
           Node!RemoveItem, Node!SetOperation,
       Node!SetTarget, Node!SetItems
  <2>3. CASE Node!RemoveItem(i)
    BY <2>2, <2>3, RemoveKeeps
  <2>4. CASE \E op \in Node!Operations : Node!SetOperation(i, op)
    BY <2>2, <2>4, OperationKeeps
  <2>5. CASE kind # "transform" /\ \E y \in Texts \cup {Blank} : Node!SetTarget(i, y)
    BY <2>2, <2>5, TargetKeeps
  <2>6. CASE \E y \in IF items[i].operation = "cast" THEN Node!Types ELSE Texts \cup {Blank} :
               Node!SetTarget(i, y)
    BY <2>2, <2>6, TargetKeeps
  <2>7. CASE Node!EditCondition(i)
    BY <2>3, <2>4, <2>5, <2>7 DEF Node!EditCondition, Node!Operations
  <2>8. CASE Node!EditTransform(i)
    BY <2>3, <2>4, <2>6, <2>8 DEF Node!EditTransform, Node!Operations
  <2>9. CASE Node!EditAggregation(i)
    BY <2>3, <2>4, <2>5, <2>9 DEF Node!EditAggregation, Node!Operations
  <2>. QED
    BY <2>1, <2>7, <2>8, <2>9
<1>4. CASE Node!SelectNode \/ Node!ClosePanel \/ Node!Answer \/ Node!Expire
  BY <1>1, <1>4 DEF Node!SelectNode, Node!ClosePanel, Node!Answer, Node!Expire
<1>5. CASE \/ \E c \in Connectors : Node!PickConnector(c) \/ Node!DestinationConnector(c)
           \/ \E s \in Schemas : Node!PickSchema(s)
           \/ \E t \in Tables : Node!PickTable(t)
  BY <1>1, <1>5 DEF Node!PickConnector, Node!DestinationConnector, Node!PickSchema,
         Node!PickTable, Node!updateNodeData
<1>6. CASE \/ \E s \in Schemas \cup {Blank} : Node!TypeSchema(s) \/ Node!DestinationSchema(s)
           \/ \E t \in Tables \cup {Blank} : Node!TypeTable(t) \/ Node!DestinationTable(t)
  BY <1>1, <1>6 DEF Node!TypeSchema, Node!DestinationSchema, Node!TypeTable,
         Node!DestinationTable, Node!updateNodeData
<1>7. CASE Node!SelectAll \/ \E n \in Names : Node!ToggleColumn(n)
  BY <1>1, <1>7 DEF Node!SelectAll, Node!ToggleColumn, Node!updateNodeData
<1>8. CASE UNCHANGED Node!vars
  BY <1>1, <1>8 DEF Node!vars
<1>. QED
  BY <1>2, <1>3, <1>4, <1>5, <1>6, <1>7, <1>8 DEF Node!Next

LEMMA ItemsInvariance == ConsoleSpec => []ItemsInv
<1>1. MaxItems \in Nat
  BY ConsoleAssumption DEF Node!NodeAssumption
<1>2. ConsoleInit => ItemsInv
  BY <1>1 DEF ConsoleInit, Node!Init, ItemsInv
<1>3. ItemsInv /\ [ConsoleNext]_consoleVars => ItemsInv'
  BY <1>1, ItemsStep, InView
<1>. QED
  BY <1>2, <1>3, PTL DEF ConsoleSpec

(* A cast is to a type of the list, unless its target was set for another      *)
(* operation, however entries are added, removed, changed and shifted.         *)
THEOREM CastsAreTyped == ConsoleSpec => []CastsHaveTypes
<1>1. ItemsInv => CastsHaveTypes
  BY DEF CastsHaveTypes, ItemsInv, CastOK, Node!CastsHaveTypes
<1>. QED
  BY <1>1, ItemsInvariance, PTL

----------------------------------------------------------------------------
(* The types.                                                                  *)

LEMMA AnsweredStep ==
  ASSUME CascadeInv, AnsweredInv, [Node!Next]_(Node!vars)
  PROVE  AnsweredInv'
<1>. USE DEF AnsweredInv
<1>. DEFINE Parts == Connectors \cup Schemas \cup Tables
<1>1. CASE Node!Answer
  <2>1. PICK key \in Node!Queries(data) : Node!Asked(key) /\ answered' = answered \cup {key}
    BY <1>1 DEF Node!Answer
  <2>2. /\ data.connector \in Connectors \cup {Blank} /\ data.schema \in Schemas \cup {Blank}
        /\ data.table \in Tables \cup {Blank}
    BY DEF CascadeInv, CascadeOK, Data
  <2>3. ASSUME key = Node!useSchemas(data) PROVE key \in Seq(Parts)
    <3>1. key = <<data.connector>> /\ Len(key) = 1 /\ key[1] # Blank
      BY <2>1, <2>3 DEF Node!useSchemas, Node!Asked
    <3>. QED
      BY <2>2, <3>1
  <2>4. ASSUME key = Node!useTables(data) PROVE key \in Seq(Parts)
    <3>1. key = <<data.connector, data.schema>> /\ Len(key) = 2 /\ key[1] # Blank /\ key[2] # Blank
      BY <2>1, <2>4 DEF Node!useTables, Node!Asked
    <3>. QED
      BY <2>2, <3>1
  <2>5. ASSUME key = Node!useColumns(data) PROVE key \in Seq(Parts)
    <3>1. /\ key = <<data.connector, data.schema, data.table>> /\ Len(key) = 3
          /\ key[1] # Blank /\ key[2] # Blank /\ key[3] # Blank
      BY <2>1, <2>5 DEF Node!useColumns, Node!Asked
    <3>. QED
      BY <2>2, <3>1
  <2>6. key \in Seq(Parts)
    BY <2>1, <2>3, <2>4, <2>5 DEF Node!Queries
  <2>. QED
    BY <1>1, <2>1, <2>6 DEF Node!Answer
<1>2. CASE UNCHANGED <<shown, answered>>
  BY <1>2
<1>3. CASE Node!SelectNode \/ Node!ClosePanel \/ Node!Expire
  BY <1>3 DEF Node!SelectNode, Node!ClosePanel, Node!Expire
<1>4. CASE \/ \E c \in Connectors : Node!PickConnector(c) \/ Node!DestinationConnector(c)
           \/ \E s \in Schemas : Node!PickSchema(s)
           \/ \E t \in Tables : Node!PickTable(t)
  BY <1>2, <1>4 DEF Node!PickConnector, Node!DestinationConnector, Node!PickSchema,
         Node!PickTable, Node!updateNodeData
<1>5. CASE \/ \E s \in Schemas \cup {Blank} : Node!TypeSchema(s) \/ Node!DestinationSchema(s)
           \/ \E t \in Tables \cup {Blank} : Node!TypeTable(t) \/ Node!DestinationTable(t)
  BY <1>2, <1>5 DEF Node!TypeSchema, Node!DestinationSchema, Node!TypeTable,
         Node!DestinationTable, Node!updateNodeData
<1>6. CASE Node!SelectAll \/ \E n \in Names : Node!ToggleColumn(n)
  BY <1>2, <1>6 DEF Node!SelectAll, Node!ToggleColumn, Node!updateNodeData
<1>7. CASE Node!addCondition \/ Node!addTransform \/ Node!addAggregation
  BY <1>2, <1>7 DEF Node!addCondition, Node!addTransform, Node!addAggregation, Node!Add,
         Node!SetItems
<1>8. CASE \E i \in 1..MaxItems :
            \/ Node!EditCondition(i) \/ Node!EditTransform(i) \/ Node!EditAggregation(i)
  BY <1>2, <1>8 DEF Node!EditCondition, Node!EditTransform, Node!EditAggregation,
         Node!RemoveItem, Node!SetOperation, Node!SetTarget, Node!SetItems
<1>9. CASE UNCHANGED Node!vars
  BY <1>2, <1>9 DEF Node!vars
<1>. QED
  BY <1>1, <1>3, <1>4, <1>5, <1>6, <1>7, <1>8, <1>9 DEF Node!Next

(* The panel keeps its types: what is cached is under keys of given parts, and *)
(* the lists are of entries of the right fields, no longer than the bound.     *)
THEOREM NodeTypeCorrect == ConsoleSpec => []Node!TypeOK
<1>1. ConsoleInit => AnsweredInv
  BY DEF ConsoleInit, Node!Init, AnsweredInv
<1>2. CascadeInv /\ AnsweredInv /\ [ConsoleNext]_consoleVars => AnsweredInv'
  BY AnsweredStep, InView
<1>3. CascadeInv /\ ItemsInv /\ AnsweredInv => Node!TypeOK
  BY DEF CascadeInv, CascadeOK, Data, ItemsInv, AnsweredInv, Node!TypeOK
<1>. QED
  BY <1>1, <1>2, <1>3, CascadeInvariance, ItemsInvariance, PTL DEF ConsoleSpec
=============================================================================
