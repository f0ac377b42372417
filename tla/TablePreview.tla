---------------------------- MODULE TablePreview ----------------------------
(***************************************************************************)
(* The preview of the selected table's rows on the catalog page.  Its      *)
(* query is fetched when a table is selected, when the window regains the  *)
(* focus and at the click of Refresh, while the rows change.               *)
(*                                                                         *)
(* Bound: MaxVersions changes of the rows.                                 *)
(***************************************************************************)
EXTENDS Integers

CONSTANT MaxVersions   (* bound: changes of the rows                           *)

PreviewAssumption == MaxVersions \in Nat

VARIABLES
  version,      (* of the rows                                                 *)
  selected,     (* a table is selected                                         *)
  preview,      (* the version shown, or -1                                    *)
  previewFetch, (* "idle", "sent", or "read" with `reading`                    *)
  reading,
  refreshed     (* history: the version at the last Refresh, or -1             *)

vars == <<version, selected, preview, previewFetch, reading, refreshed>>

TypeOK ==
  /\ version \in 0..MaxVersions /\ selected \in BOOLEAN
  /\ previewFetch \in {"idle", "sent", "read"}
  /\ {preview, reading, refreshed} \subseteq -1..version

Init ==
  /\ version = 0 /\ selected = FALSE
  /\ preview = -1 /\ previewFetch = "idle" /\ reading = -1 /\ refreshed = -1

(* The rows may be there from before, and are fetched if absent or stale.      *)
Select ==
  /\ selected' = TRUE
  /\ preview' \in -1..version /\ reading' = -1 /\ refreshed' = -1
  /\ previewFetch' \in (IF preview' = -1 THEN {"sent"} ELSE {"idle", "sent"})
  /\ UNCHANGED version

RowsChange ==
  /\ version < MaxVersions /\ version' = version + 1
  /\ UNCHANGED <<selected, preview, previewFetch, reading, refreshed>>

(* Variant: the button stays enabled, and a fetch under way answers the click.  *)
RefreshJoins ==
  /\ selected /\ refreshed' = version
  /\ previewFetch' = IF previewFetch = "idle" THEN "sent" ELSE previewFetch
  /\ UNCHANGED <<version, selected, preview, reading>>

(* The button is disabled while the preview is being fetched.                  *)
Refresh ==
  /\ selected /\ previewFetch = "idle"
  /\ previewFetch' = "sent" /\ refreshed' = version
  /\ UNCHANGED <<version, selected, preview, reading>>

(* The window regains the focus.                                               *)
Refocus ==
  /\ selected /\ previewFetch = "idle" /\ previewFetch' = "sent"
  /\ UNCHANGED <<version, selected, preview, reading, refreshed>>

PreviewRead ==
  /\ previewFetch = "sent" /\ previewFetch' = "read" /\ reading' = version
  /\ UNCHANGED <<version, selected, preview, refreshed>>

PreviewAnswered ==
  /\ previewFetch = "read" /\ previewFetch' = "idle"
  /\ preview' = reading /\ reading' = -1
  /\ UNCHANGED <<version, selected, refreshed>>

(* What was there stays; nothing in the panel tells.                           *)
PreviewFails ==
  /\ previewFetch # "idle" /\ previewFetch' = "idle"
  /\ reading' = -1 /\ refreshed' = -1
  /\ UNCHANGED <<version, selected, preview>>

Next ==
  \/ Select \/ RowsChange \/ Refresh \/ Refocus
  \/ PreviewRead \/ PreviewAnswered \/ PreviewFails

Spec == Init /\ [][Next]_vars

(* When the fetch that Refresh started has been answered, the rows shown are   *)
(* no older than the click, although they may change before, during and after  *)
(* it.  It holds because the button waits for a fetch of an earlier moment.    *)
RefreshShowsLatest == previewFetch = "idle" => preview >= refreshed
=============================================================================
