----------------------------- MODULE NodeConfig -----------------------------
(***************************************************************************)
(* The panel of the pipeline editor that configures one node: the cascade  *)
(* of connector, schema and table with the catalog queries behind it, and  *)
(* the lists of conditions, transformations and aggregations.              *)
(*                                                                         *)
(* An answer counts from when the panel shows its key again, which is when *)
(* the component reads it.  Bounds: one node of any type, MaxItems list    *)
(* entries, tables whose columns stay the same; labels, join keys, GROUP   *)
(* BY columns and options that nothing depends on are left out.            *)
(***************************************************************************)
EXTENDS Naturals, FiniteSets, SequencesExt

CONSTANTS
  Connectors, Schemas,
  Tables,       (* the names of tables; a name may be of no table              *)
  Names,        (* names of columns                                            *)
  Columns,      (* the columns of each table                                   *)
  Texts,        (* what the user may type for a target column                  *)
  MaxItems,     (* bound: entries of a list                                    *)
  Blank         (* the empty text                                              *)

Keys == Connectors \X Schemas \X Tables

NodeAssumption ==
  /\ Columns \in [Keys -> SUBSET Names] /\ IsFiniteSet(Names)
  /\ MaxItems \in Nat
  /\ Blank \notin Connectors \cup Schemas \cup Tables \cup Texts

VARIABLES
  kind,       (* the node's type                                               *)
  shown,      (* the node is selected: its panel is on the screen              *)
  data,       (* connectorId, schema, table, columns, selectedColumns          *)
  items,      (* conditions, transformations or aggregations                   *)
  answered,   (* the keys of the catalog queries that have data                *)
  typed       (* history: schema or table was typed since one was last picked  *)

vars == <<kind, shown, data, items, answered, typed>>

Kinds == {"source", "destination", "filter", "transform", "join", "aggregate"}

(* The types offered for a cast.                                               *)
Types == {"INTEGER"}

Operations == {"eq", "is_null", "rename", "cast", "expression", "count", "sum"}

(* An entry: its operator, operation or function, and the field that depends   *)
(* on it.  `carried` is history: the one was changed after the other was set.  *)
Item == [operation : Operations, target : Texts \cup Types \cup {Blank}, carried : BOOLEAN]

Empty == [connector |-> Blank, schema |-> Blank, table |-> Blank, columns |-> {}, selected |-> {}]

TypeOK ==
  /\ kind \in Kinds /\ shown \in BOOLEAN /\ typed \in BOOLEAN
  /\ data \in [connector : Connectors \cup {Blank}, schema : Schemas \cup {Blank},
               table : Tables \cup {Blank}, columns : SUBSET Names, selected : SUBSET Names]
  /\ items \in Seq(Item) /\ Len(items) <= MaxItems
  /\ answered \subseteq Seq(Connectors \cup Schemas \cup Tables)

Init ==
  /\ kind \in Kinds
  /\ shown = FALSE /\ answered = {} /\ typed = FALSE
  /\ data = Empty /\ items = <<>>

----------------------------------------------------------------------------
(* The catalog queries.                                                        *)

useSchemas(d) == <<d.connector>>
useTables(d) == <<d.connector, d.schema>>
useColumns(d) == <<d.connector, d.schema, d.table>>

(* Enabled: each part of the key is given.                                     *)
Asked(key) == \A i \in 1..Len(key) : key[i] # Blank
Has(key) == Asked(key) /\ key \in answered

(* The effect that copies the columns into the node once they are there.       *)
Populated(d, known) ==
  LET key == useColumns(d) IN
  IF kind = "source" /\ Asked(key) /\ key \in known /\ Columns[key] \notin {{}, d.columns}
    THEN [d EXCEPT !.columns = Columns[key]]
    ELSE d

(* A step of the user that leaves the node's data d; the effect follows.       *)
updateNodeData(d) ==
  /\ data' = Populated(d, answered)
  /\ UNCHANGED <<kind, shown, items, answered>>

SelectNode ==
  /\ ~shown /\ shown' = TRUE
  /\ data' = Populated(data, answered)
  /\ UNCHANGED <<kind, items, answered, typed>>

ClosePanel ==
  /\ shown /\ shown' = FALSE
  /\ UNCHANGED <<kind, data, items, answered, typed>>

Queries(d) ==
  {useSchemas(d)} \cup (IF kind = "source" THEN {useTables(d), useColumns(d)} ELSE {})

Answer ==
  /\ shown /\ kind \in {"source", "destination"}
  /\ \E key \in {k \in Queries(data) \ answered : Asked(k)} :
       /\ answered' = answered \cup {key}
       /\ data' = Populated(data, answered')
  /\ UNCHANGED <<kind, shown, items, typed>>

(* Data that nothing shows is dropped after a while.                           *)
Expire ==
  /\ \E key \in answered : (shown => key \notin Queries(data)) /\ answered' = answered \ {key}
  /\ UNCHANGED <<kind, shown, data, items, typed>>

----------------------------------------------------------------------------
(* Sources.                                                                    *)

SourceConfig == shown /\ kind = "source"

PickConnector(c) ==
  /\ SourceConfig
  /\ updateNodeData([Empty EXCEPT !.connector = c])
  /\ typed' = FALSE

(* Variant: the selected columns are kept.                                     *)
PickSchemaOnly(s) ==
  /\ SourceConfig /\ Has(useSchemas(data))
  /\ updateNodeData([data EXCEPT !.schema = s, !.table = Blank, !.columns = {}])
  /\ typed' = FALSE

PickSchema(s) ==
  /\ SourceConfig /\ Has(useSchemas(data))
  /\ updateNodeData([Empty EXCEPT !.connector = data.connector, !.schema = s])
  /\ typed' = FALSE

(* While there is no list to pick from, the fields are free text.              *)
TypeSchema(s) ==
  /\ SourceConfig /\ ~Has(useSchemas(data))
  /\ updateNodeData([data EXCEPT !.schema = s])
  /\ typed' = TRUE

PickTable(t) ==
  /\ SourceConfig /\ Has(useTables(data))
  /\ updateNodeData([data EXCEPT !.table = t, !.columns = {}, !.selected = {}])
  /\ typed' = FALSE

TypeTable(t) ==
  /\ SourceConfig /\ ~Has(useTables(data))
  /\ updateNodeData([data EXCEPT !.table = t])
  /\ typed' = TRUE

(* The lists of columns are compared by length.                                *)
SelectAll ==
  /\ SourceConfig /\ data.columns # {}
  /\ updateNodeData([data EXCEPT !.selected =
       IF Cardinality(data.selected) = Cardinality(data.columns) THEN {} ELSE data.columns])
  /\ UNCHANGED typed

ToggleColumn(n) ==
  /\ SourceConfig /\ n \in data.columns
  /\ updateNodeData([data EXCEPT !.selected = SymDiff(@, {n})])
  /\ UNCHANGED typed

(* Destinations: the table is always typed.                                    *)

DestinationConfig == shown /\ kind = "destination" /\ UNCHANGED typed

DestinationConnector(c) ==
  DestinationConfig /\ updateNodeData([Empty EXCEPT !.connector = c])

DestinationSchema(s) ==
  /\ DestinationConfig /\ (Has(useSchemas(data)) => s # Blank)
  /\ updateNodeData([data EXCEPT !.schema = s,
                                 !.table = IF Has(useSchemas(data)) THEN Blank ELSE @])

DestinationTable(t) == DestinationConfig /\ updateNodeData([data EXCEPT !.table = t])

----------------------------------------------------------------------------
(* Lists of conditions, transformations and aggregations, edited by index.     *)

SetItems(seq) ==
  /\ shown /\ items' = seq
  /\ UNCHANGED <<kind, shown, data, answered, typed>>

Add(op) ==
  /\ Len(items) < MaxItems
  /\ SetItems(Append(items, [operation |-> op, target |-> Blank, carried |-> FALSE]))

addCondition == kind = "filter" /\ Add("eq")
addTransform == kind = "transform" /\ Add("rename")
addAggregation == kind = "aggregate" /\ Add("count")

RemoveItem(i) == SetItems(RemoveAt(items, i))

(* The target stays when the operation changes.                                *)
SetOperation(i, op) ==
  SetItems([items EXCEPT ![i].operation = op, ![i].carried = @ \/ items[i].target # Blank])

SetTarget(i, x) == SetItems([items EXCEPT ![i].target = x, ![i].carried = FALSE])

EditCondition(i) ==
  /\ kind = "filter" /\ i \in DOMAIN items
  /\ \/ RemoveItem(i)
     \/ \E op \in {"eq", "is_null"} : SetOperation(i, op)
     \/ \E x \in Texts \cup {Blank} : SetTarget(i, x)

(* Variant: the target is typed whatever the operation.                        *)
EditTransformTyped(i) ==
  /\ kind = "transform" /\ i \in DOMAIN items
  /\ \/ RemoveItem(i)
     \/ \E op \in {"rename", "cast", "expression"} : SetOperation(i, op)
     \/ \E x \in Texts \cup {Blank} : SetTarget(i, x)

(* The target is typed, or for a cast picked from the list of types.           *)
EditTransform(i) ==
  /\ kind = "transform" /\ i \in DOMAIN items
  /\ \/ RemoveItem(i)
     \/ \E op \in {"rename", "cast", "expression"} : SetOperation(i, op)
     \/ \E x \in IF items[i].operation = "cast" THEN Types ELSE Texts \cup {Blank} : SetTarget(i, x)

EditAggregation(i) ==
  /\ kind = "aggregate" /\ i \in DOMAIN items
  /\ \/ RemoveItem(i)
     \/ \E op \in {"count", "sum"} : SetOperation(i, op)
     \/ \E x \in Texts \cup {Blank} : SetTarget(i, x)

----------------------------------------------------------------------------
Next ==
  \/ SelectNode \/ ClosePanel \/ Answer \/ Expire
  \/ \E c \in Connectors : PickConnector(c)
  \/ \E s \in Schemas : PickSchema(s)
  \/ \E s \in Schemas \cup {Blank} : TypeSchema(s)
  \/ \E t \in Tables : PickTable(t)
  \/ \E t \in Tables \cup {Blank} : TypeTable(t)
  \/ SelectAll \/ \E n \in Names : ToggleColumn(n)
  \/ \E c \in Connectors : DestinationConnector(c)
  \/ \E s \in Schemas \cup {Blank} : DestinationSchema(s)
  \/ \E t \in Tables \cup {Blank} : DestinationTable(t)
  \/ addCondition \/ addTransform \/ addAggregation
  \/ \E i \in 1..MaxItems : EditCondition(i) \/ EditTransform(i) \/ EditAggregation(i)

Spec == Init /\ [][Next]_vars

----------------------------------------------------------------------------
(* Properties.                                                                 *)

(* Unless schema or table was typed since one was last picked, the columns in  *)
(* a source are those of its table, and the selected ones are among them,      *)
(* whatever answers have come in which order.                                  *)
SelectionListed ==
  ~typed => /\ data.selected \subseteq data.columns
            /\ data.columns # {} => data.columns = Columns[useColumns(data)]

(* A cast is to one of the types of the list, unless its target was set for    *)
(* another operation.                                                          *)
CastsHaveTypes ==
  kind = "transform" =>
    \A i \in DOMAIN items :
      items[i].operation = "cast" /\ ~items[i].carried => items[i].target \in Types \cup {Blank}
=============================================================================
