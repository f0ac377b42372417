----------------------------- MODULE Monitoring -----------------------------
(***************************************************************************)
(* The monitoring page, and the notices every page raises.  The page shows *)
(* statistics it polls, and sends logs away at three buttons.  A request   *)
(* that fails is told by the API client for every page; one that succeeds  *)
(* by the page that sent it, if it is still there.  Each notice dismisses  *)
(* itself, by a timer that starts again whenever the list of notices is    *)
(* drawn.                                                                  *)
(*                                                                         *)
(* Bounds: the notices shown together; one request of each kind, which may *)
(* outlive the visit.                                                      *)
(***************************************************************************)
EXTENDS Integers

CONSTANT Notices   (* bound: the identities of notices                         *)

VARIABLES
  stats,      (* of the query: "unasked", "loading", "failed" or "shown"       *)
  days,       (* exportDays is a whole number                                  *)
  webhookUrl, (* is given                                                      *)
  mutation,   (* by kind: "idle", "sent", or the outcome on its way            *)
  left,       (* the requests whose page is gone                               *)
  toasts,     (* the notices shown                                             *)
  armed,      (* the notices whose timer runs                                  *)
  crashed,    (* the ErrorBoundary shows instead of the pages                  *)
  owed        (* history: by kind, the clicks that were not told of            *)

vars == <<stats, days, webhookUrl, mutation, left, toasts, armed, crashed, owed>>
noticeVars == <<toasts, armed, crashed>>

Kinds == {"export", "push", "test"}

TypeOK ==
  /\ stats \in {"unasked", "loading", "failed", "shown"}
  /\ days \in BOOLEAN /\ webhookUrl \in BOOLEAN /\ crashed \in BOOLEAN
  /\ mutation \in [Kinds -> {"idle", "sent", "done", "refused", "invalid"}]
  /\ left \subseteq Kinds /\ armed \subseteq toasts /\ toasts \subseteq Notices
  /\ owed \in [Kinds -> Int]

Init ==
  /\ stats = "unasked" /\ days = TRUE /\ webhookUrl = FALSE
  /\ mutation = [k \in Kinds |-> "idle"] /\ left = {}
  /\ toasts = {} /\ armed = {} /\ crashed = FALSE
  /\ owed = [k \in Kinds |-> 0]

----------------------------------------------------------------------------
(* Notices.                                                                    *)

(* Every notice gets a fresh onDismiss, so every timer starts again.           *)
addToast ==
  \E t \in Notices \ toasts :
     toasts' = toasts \cup {t} /\ armed' = toasts' /\ UNCHANGED crashed

(* Variant: the timer of the notice is left to run.                            *)
removeToastTimed(t) == toasts' = toasts \ {t} /\ armed' = toasts /\ UNCHANGED crashed

(* Variant: the timers of the others are cleared, and not started again.       *)
removeToastOnly(t) == toasts' = toasts \ {t} /\ armed' = {} /\ UNCHANGED crashed

removeToast(t) == toasts' = toasts \ {t} /\ armed' = toasts' /\ UNCHANGED crashed

(* The timer, or the notice's button.                                          *)
Dismiss ==
  /\ ~crashed
  /\ \E t \in armed : removeToast(t)
  /\ UNCHANGED <<stats, days, webhookUrl, mutation, left, owed>>

(* A request of another page, or in the background, fails.                     *)
OtherFails ==
  /\ ~crashed /\ addToast
  /\ UNCHANGED <<stats, days, webhookUrl, mutation, left, owed>>

(* "Return to Dashboard" loads the application anew.                           *)
Return ==
  /\ crashed
  /\ stats' = "unasked" /\ days' = TRUE /\ webhookUrl' = FALSE
  /\ mutation' = [k \in Kinds |-> "idle"] /\ left' = {}
  /\ toasts' = {} /\ armed' = {} /\ crashed' = FALSE
  /\ owed' = [k \in Kinds |-> 0]

----------------------------------------------------------------------------
(* The page.                                                                   *)

OpenPage ==
  /\ ~crashed /\ stats = "unasked" /\ stats' = "loading"
  /\ UNCHANGED <<days, webhookUrl, mutation, left, noticeVars, owed>>

(* One of the polls, every ten seconds.                                        *)
StatsAnswered ==
  /\ ~crashed /\ stats \in {"loading", "failed"} /\ stats' = "shown"
  /\ UNCHANGED <<days, webhookUrl, mutation, left, noticeVars, owed>>

(* Nothing on the page tells but the notice; data that is there stays.         *)
StatsFail ==
  /\ ~crashed /\ stats # "unasked"
  /\ stats' = (IF stats = "shown" THEN "shown" ELSE "failed")
  /\ addToast
  /\ UNCHANGED <<days, webhookUrl, mutation, left, owed>>

Visible == stats = "shown" /\ ~crashed

EditFields ==
  /\ Visible
  /\ \/ days' = ~days /\ UNCHANGED webhookUrl
     \/ webhookUrl' = ~webhookUrl /\ UNCHANGED days
  /\ UNCHANGED <<stats, mutation, left, noticeVars, owed>>

Click(k) ==
  /\ Visible /\ mutation[k] = "idle" /\ (k = "export" \/ webhookUrl)
  /\ mutation' = [mutation EXCEPT ![k] = IF days \/ k = "test" THEN "sent" ELSE "invalid"]
  /\ owed' = [owed EXCEPT ![k] = 1] /\ left' = left \ {k}
  /\ UNCHANGED <<stats, days, webhookUrl, noticeVars>>

(* The page is left, and mounted again.                                        *)
Leave ==
  /\ ~crashed /\ stats # "unasked"
  /\ days' = TRUE /\ webhookUrl' = FALSE
  /\ left' = left \cup {k \in Kinds : mutation[k] # "idle"}
  /\ UNCHANGED <<stats, mutation, noticeVars, owed>>

(* The request is served, refused, or lost.                                    *)
Serve(k) ==
  /\ ~crashed /\ mutation[k] = "sent"
  /\ \E outcome \in {"done", "refused"} : mutation' = [mutation EXCEPT ![k] = outcome]
  /\ UNCHANGED <<stats, days, webhookUrl, left, noticeVars, owed>>

Settle(k) ==
  mutation' = [mutation EXCEPT ![k] = "idle"] /\ UNCHANGED <<stats, days, webhookUrl, left>>
Told(k, n) == owed' = [owed EXCEPT ![k] = @ - n]

OnSuccess(k) ==
  /\ ~crashed /\ mutation[k] = "done" /\ Settle(k)
  /\ IF k \in left THEN UNCHANGED <<noticeVars, owed>> ELSE addToast /\ Told(k, 1)

(* Variant: the page tells of it too, as other pages do.                       *)
OnErrorToo(k) ==
  /\ ~crashed /\ mutation[k] = "refused" /\ Settle(k)
  /\ addToast /\ Told(k, IF k \in left THEN 1 ELSE 2)

(* The client's interceptor.                                                   *)
OnError(k) ==
  /\ ~crashed /\ mutation[k] = "refused" /\ Settle(k)
  /\ addToast /\ Told(k, 1)

(* The API refuses the request itself, with a list for its detail: that of an  *)
(* export is not looked into, that of a push is drawn as a notice, and fails.  *)
OnInvalid(k) ==
  /\ ~crashed /\ mutation[k] = "invalid" /\ Settle(k)
  /\ IF k = "export"
       THEN addToast /\ Told(k, 1)
       ELSE crashed' = TRUE /\ UNCHANGED <<toasts, armed, owed>>

Next ==
  \/ Dismiss \/ OtherFails \/ Return \/ OpenPage \/ StatsAnswered \/ StatsFail
  \/ EditFields \/ Leave
  \/ \E k \in Kinds : Click(k) \/ Serve(k) \/ OnSuccess(k) \/ OnError(k) \/ OnInvalid(k)

(* Timers expire.                                                              *)
Fairness == WF_vars(Dismiss)

Spec == Init /\ [][Next]_vars
FairSpec == Spec /\ Fairness

----------------------------------------------------------------------------
(* Properties.                                                                 *)

(* A click whose page stays is told of exactly once, however the requests and  *)
(* their answers cross; one whose page was left at most once.                  *)
ToldOnce ==
  ~crashed => \A k \in Kinds :
    IF mutation[k] = "idle" THEN owed[k] = 0 \/ (owed[k] = 1 /\ k \in left) ELSE owed[k] = 1

(* Once no more notices come all of them go, although each that came before    *)
(* put off those that were there.                                              *)
NoticesGo == <>[][toasts' \subseteq toasts]_vars => []<>(toasts = {} \/ crashed)
=============================================================================
