------------------------------ MODULE Capture -------------------------------
(***************************************************************************)
(* What polling capture promises, whoever polls: a row that changes is     *)
(* owed until its version has been delivered or the row changes again, a   *)
(* delivery is never undone, and the checkpoint, at or below which rows    *)
(* are not read again, stays below every row that is owed.  A change made  *)
(* at or below a tracking value already in use is owed to nobody.          *)
(***************************************************************************)
EXTENDS Naturals

CONSTANT Rows   (* primary keys of the source table                          *)

VARIABLES
  version,      (* the tracking value of each row, 0 while it is absent      *)
  highest,      (* the largest tracking value ever written                   *)
  owed,         (* rows whose current version is still to be delivered       *)
  checkpoint    (* rows at or below this value are not read again            *)

vars == <<version, highest, owed, checkpoint>>

Init ==
  /\ version = [r \in Rows |-> 0] /\ highest = 0
  /\ owed = {} /\ checkpoint = 0

Change(r) ==
  /\ highest' = highest + 1
  /\ version' = [version EXCEPT ![r] = highest + 1]
  /\ owed' = owed \cup {r}
  /\ UNCHANGED checkpoint

ChangeLate(r, t) ==
  /\ version' = [version EXCEPT ![r] = t]
  /\ owed' = owed \ {r}
  /\ UNCHANGED <<highest, checkpoint>>

Deliver(rows) ==
  /\ owed' = owed \ rows
  /\ UNCHANGED <<version, highest, checkpoint>>

(* It may fall: what is at or below it then is read and delivered again. *)
MoveCheckpoint(n) ==
  /\ \A r \in owed : version[r] > n
  /\ checkpoint' = n
  /\ UNCHANGED <<version, highest, owed>>

Next ==
  \/ \E r \in Rows : Change(r) \/ \E t \in 1..highest : ChangeLate(r, t)
  \/ \E rows \in SUBSET owed : Deliver(rows)
  \/ \E n \in 0..highest : MoveCheckpoint(n)

Spec == Init /\ [][Next]_vars
=============================================================================
