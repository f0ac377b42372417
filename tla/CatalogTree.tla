---------------------------- MODULE CatalogTree ----------------------------
(***************************************************************************)
(* The tree of connectors, schemas and tables, on the catalog page and in  *)
(* the pipeline editor: one connector and one schema name are unfolded,    *)
(* the queries behind them are cached by key, and their answers come when  *)
(* the tree has long moved on.  A table is selected, or dragged onto the   *)
(* canvas.  The catalog itself stays the same.                             *)
(***************************************************************************)
CONSTANTS
  Connectors, Schemas, Tables,
  Catalog,      (* the tables there are: connector, schema, table              *)
  None         (* null                                                        *)

TreeAssumption ==
  /\ Catalog \subseteq Connectors \X Schemas \X Tables
  /\ None \notin Connectors \cup Schemas \cup Catalog

VARIABLES
  expandedConnector, expandedSchema,
  selectedTable,
  entries,      (* what the catalog's queries have, by key                     *)
  fetching,     (* the queries under way: key, connector, schema               *)
  dragged,      (* what is being dragged                                       *)
  dropped       (* the tables of the nodes made by dropping                    *)

treeVars == <<expandedConnector, expandedSchema, entries, fetching, dragged, dropped>>
vars == <<treeVars, selectedTable>>

TypeOK ==
  /\ expandedConnector \in Connectors \cup {None} /\ expandedSchema \in Schemas \cup {None}
  /\ selectedTable \in (Connectors \X Schemas \X Tables) \cup {None}
  /\ dragged \in (Connectors \X Schemas \X Tables) \cup {None}
  /\ dropped \subseteq Connectors \X Schemas \X Tables

Init ==
  /\ expandedConnector = None /\ expandedSchema = None /\ selectedTable = None
  /\ entries = <<>> /\ fetching = {} /\ dragged = None /\ dropped = {}

----------------------------------------------------------------------------
(* The queries.                                                                *)

useSchemas(c) == <<c, "schemas">>

(* Variant: schemas of the same name share an entry.                           *)
useTablesOf(c, s) == <<s, "tables">>

useTables(c, s) == <<c, s, "tables">>

Cached(key) == IF key \in DOMAIN entries THEN entries[key] ELSE {}

(* The queries of the unfolded nodes.  A schema's node is there once its       *)
(* connector's schemas are.                                                    *)
SchemasShown == IF expandedConnector = None THEN {} ELSE Cached(useSchemas(expandedConnector))
Observed ==
  (IF expandedConnector = None THEN {}
     ELSE {<<useSchemas(expandedConnector), expandedConnector, None>>})
  \cup {<<useTables(expandedConnector, s), expandedConnector, s>> :
          s \in SchemasShown \cap {expandedSchema}}

(* What the server answers.                                                    *)
Content(c, s) ==
  IF s = None THEN {x[2] : x \in {y \in Catalog : y[1] = c}}
               ELSE {x[3] : x \in {y \in Catalog : y[1] = c /\ y[2] = s}}

(* A query that is shown is fetched if it has no data or its data is stale.    *)
Fetch ==
  /\ \E q \in Observed :
       /\ \A f \in fetching : f[1] # q[1]
       /\ fetching' = fetching \cup {q}
  /\ UNCHANGED <<expandedConnector, expandedSchema, selectedTable, entries, dragged, dropped>>

Answered ==
  /\ \E q \in fetching :
       /\ fetching' = fetching \ {q}
       /\ \/ entries' = [k \in DOMAIN entries \cup {q[1]} |->
                           IF k = q[1] THEN Content(q[2], q[3]) ELSE entries[k]]
          \/ UNCHANGED entries
  /\ UNCHANGED <<expandedConnector, expandedSchema, selectedTable, dragged, dropped>>

(* Data that nothing shows is dropped after a while.                           *)
Expire ==
  /\ \E key \in DOMAIN entries :
       /\ \A q \in Observed : q[1] # key
       /\ entries' = [k \in DOMAIN entries \ {key} |-> entries[k]]
  /\ UNCHANGED <<expandedConnector, expandedSchema, selectedTable, fetching, dragged, dropped>>

----------------------------------------------------------------------------
(* The tree.                                                                   *)

Toggled(now, x) == IF now = x THEN None ELSE x

ToggleConnector(c) ==
  /\ dragged = None
  /\ expandedConnector' = Toggled(expandedConnector, c)
  /\ UNCHANGED <<expandedSchema, selectedTable, entries, fetching, dragged, dropped>>

(* The schema is remembered by name, for every connector.                      *)
ToggleSchema(s) ==
  /\ dragged = None /\ s \in SchemasShown
  /\ expandedSchema' = Toggled(expandedSchema, s)
  /\ UNCHANGED <<expandedConnector, selectedTable, entries, fetching, dragged, dropped>>

TablesShown ==
  IF expandedSchema \in SchemasShown
    THEN {<<expandedConnector, expandedSchema, t>> :
            t \in Cached(useTables(expandedConnector, expandedSchema))}
    ELSE {}

DragTable(x) ==
  /\ dragged = None /\ x \in TablesShown /\ dragged' = x
  /\ UNCHANGED <<expandedConnector, expandedSchema, selectedTable, entries, fetching, dropped>>

(* On the canvas, which makes a source node, or elsewhere.                     *)
onDrop ==
  /\ dragged # None /\ dragged' = None
  /\ dropped' \in {dropped, dropped \cup {dragged}}
  /\ UNCHANGED <<expandedConnector, expandedSchema, selectedTable, entries, fetching>>

SelectTable(x) ==
  /\ dragged = None /\ x \in TablesShown /\ selectedTable' = x
  /\ UNCHANGED treeVars

Next ==
  \/ Fetch \/ Answered \/ Expire
  \/ \E c \in Connectors : ToggleConnector(c)
  \/ \E s \in Schemas : ToggleSchema(s)
  \/ \E x \in Connectors \X Schemas \X Tables : SelectTable(x) \/ DragTable(x)
  \/ onDrop

Spec == Init /\ [][Next]_vars

----------------------------------------------------------------------------
(* Properties.                                                                 *)

(* What is selected, dragged or made a node is a table of that connector and   *)
(* schema, although schemas of one name are unfolded in one connector after    *)
(* the other while the answers are still to come.                              *)
TreeNamesTables == (({selectedTable, dragged} \ {None}) \cup dropped) \subseteq Catalog
=============================================================================
