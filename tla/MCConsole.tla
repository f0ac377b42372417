----------------------------- MODULE MCConsole -----------------------------
EXTENDS Console

CONSTANTS c1, c2, t1, t2, a, b

(* The first connector's tables have columns except for the second table. *)
MCColumns ==
  [key \in Connectors \X Schemas \X Tables |->
     IF key[3] = t2 THEN {} ELSE IF key[1] = c1 THEN {a, b} ELSE {b}]

(* Two schemas of the same name, with different tables. *)
MCCatalog == {x \in Connectors \X Schemas \X Tables : x[1] = c1 <=> x[3] = t1}

(* The properties of the drawing speak of what precedes its first hazard. *)
UntilHazard == hazards = {}
=============================================================================
