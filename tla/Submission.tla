----------------------------- MODULE Submission -----------------------------
(***************************************************************************)
(* What a form that stores rows promises: a row is stored only for a click *)
(* on its button, with what the form showed at that click and, for a form  *)
(* that edits a row, in that row; and for each click at most once.         *)
(***************************************************************************)
CONSTANTS
  Slots,        (* the submissions that can be under way together              *)
  Rows,         (* the identities of rows                                      *)
  Drafts,       (* what the form may show                                      *)
  Complete,     (* the drafts that may be submitted                            *)
  None          (* no row                                                      *)

VARIABLES
  draft,        (* what the form shows                                         *)
  editing,      (* the row it edits, or None                                   *)
  sent,         (* the submissions under way, each with its row, or None       *)
  rows          (* what is stored, or None                                     *)

vars == <<draft, editing, sent, rows>>

Init ==
  /\ draft \in Drafts /\ editing \in Rows \cup {None}
  /\ sent = [s \in Slots |-> None]
  /\ rows \in [Rows -> Complete \cup {None}]

(* The form changes, is closed, or opened. *)
Compose ==
  /\ draft' \in Drafts /\ editing' \in Rows \cup {None}
  /\ UNCHANGED <<sent, rows>>

Click(s) ==
  /\ sent[s] = None /\ draft \in Complete
  /\ sent' = [sent EXCEPT ![s] = <<draft, editing>>]
  /\ UNCHANGED <<draft, editing, rows>>

(* A submission that names no row makes a new one. *)
Store(s, r) ==
  /\ sent[s] # None
  /\ IF sent[s][2] = None THEN rows[r] = None ELSE r = sent[s][2] /\ rows[r] # None
  /\ rows' = [rows EXCEPT ![r] = sent[s][1]]
  /\ sent' = [sent EXCEPT ![s] = None]
  /\ UNCHANGED <<draft, editing>>

Lose(s) ==
  /\ sent[s] # None
  /\ sent' = [sent EXCEPT ![s] = None]
  /\ UNCHANGED <<draft, editing, rows>>

Remove(r) ==
  /\ rows[r] # None
  /\ rows' = [rows EXCEPT ![r] = None]
  /\ UNCHANGED <<draft, editing, sent>>

Next ==
  \/ Compose
  \/ \E s \in Slots : Click(s) \/ Lose(s) \/ \E r \in Rows : Store(s, r)
  \/ \E r \in Rows : Remove(r)

Spec == Init /\ [][Next]_vars
=============================================================================
