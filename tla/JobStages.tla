----------------------------- MODULE JobStages -----------------------------
(***************************************************************************)
(* The tracking columns of one `jobs` row, and every write the program     *)
(* makes to them: the stage rules (web/stages.py, core/stage_sql.py), the  *)
(* user's moves (web/service.set_application_state) and the transitions of *)
(* the posting-closure lifecycle (core/closure.py).  Each operator returns *)
(* the row one UPDATE (or one transaction) leaves; a compare-and-set that  *)
(* does not match returns the row it was given.                            *)
(***************************************************************************)
EXTENDS Naturals

(* application_state, by stage.  The tuple the code walks to advance is     *)
(* applied, screen, interview, offer.                                       *)
ShortlistStates == {"", "drafted"}
InProcessStates == {"applied", "screen", "interview", "offer"}
ClosureStates == {"posting_closed", "filled"}      \* closure.AUTOMATION_STATES
ClosedStates == {"rejected", "ghosted", "withdrawn"} \cup ClosureStates
UserStates == ShortlistStates \cup InProcessStates \cup {"rejected", "ghosted", "withdrawn"}
AppStates == UserStates \cup ClosureStates

\* States in which a role counts as applied to (core/same_role.APPLIED_STATES).
AppliedStates == InProcessStates \cup {"rejected", "withdrawn"}

(* posting_check: "unproven" stands for '', unverifiable and likely_closed, *)
(* which no transition tells apart.  posting_closed_at is "due" once it is  *)
(* FILLED_AFTER_DAYS old.  review_state "open" stands for new, surfaced and *)
(* queued.                                                                  *)
Verdicts == {"unproven", "open", "closed"}
Row ==
  [own     : BOOLEAN,                 \* its own source is authoritative
   review  : {"open", "kept", "archived"},
   app     : AppStates,               \* application_state
   applied : BOOLEAN,                 \* applied_at is set
   prior   : UserStates,              \* closed_prior_state
   check   : Verdicts,                \* posting_check
   pinned  : BOOLEAN,                 \* posting_check_manual
   closed  : {"no", "recent", "due"}, \* posting_closed_at
   link    : {"none", "found", "manual"}]  \* employer_link_source

NewRow(own) ==
  [own |-> own, review |-> "open", app |-> "", applied |-> FALSE, prior |-> "",
   check |-> "unproven", pinned |-> FALSE, closed |-> "no", link |-> "none"]

NextStage(app) ==
  CASE app = "applied" -> "screen"
    [] app = "screen" -> "interview"
    [] app = "interview" -> "offer"

-----------------------------------------------------------------------------
(* The user's moves *)

CanMove(r, new, expected) ==
  /\ r.review = "kept"
  /\ r.app \in expected
  /\ r.app # new

\* Leaving posting_closed or filled by hand pins the verdict and ends the closure.
Moved(r, new) ==
  LET s == [r EXCEPT !.app = new, !.applied = @ \/ new = "applied", !.prior = ""]
  IN  IF r.app \in ClosureStates
        THEN [s EXCEPT !.pinned = TRUE, !.check = "open", !.closed = "no"]
        ELSE s

\* Mutant of FirstApplication: every move into applied is an application.
FirstApplicationAgain(r, new) == new = "applied"

FirstApplication(r, new) == new = "applied" /\ ~r.applied

-----------------------------------------------------------------------------
(* The closure lifecycle's transitions.  `auto` is closure_auto outside a   *)
(* shadow run; `respect` keeps automation off a row the user has pinned.    *)

Stamped(r) == IF r.closed = "no" THEN [r EXCEPT !.closed = "recent"] ELSE r

\* Mutant of CloseTransition: automation does not ask whether the row is pinned.
CloseTransitionPinned(r, auto, respect) ==
  IF auto /\ r.review = "kept" /\ r.app \in ShortlistStates
    THEN [Stamped(r) EXCEPT !.prior = r.app, !.app = "posting_closed"]
    ELSE Stamped(r)

CloseTransition(r, auto, respect) ==
  IF respect /\ r.pinned THEN r
  ELSE IF auto /\ r.review = "kept" /\ r.app \in ShortlistStates
         THEN [Stamped(r) EXCEPT !.prior = r.app, !.app = "posting_closed"]
         ELSE Stamped(r)

\* Mutant of ReopenTransition: a shadow run clears the stamp of a parked row too.
ReopenTransitionShadow(r, auto, respect) ==
  IF (respect /\ r.pinned) \/ r.closed = "no" THEN r
  ELSE IF auto /\ r.app \in ClosureStates
         THEN [r EXCEPT !.app = r.prior, !.prior = "", !.closed = "no"]
  ELSE [r EXCEPT !.closed = "no"]

ReopenTransition(r, auto, respect) ==
  IF (respect /\ r.pinned) \/ r.closed = "no" THEN r
  ELSE IF r.app \notin ClosureStates THEN [r EXCEPT !.closed = "no"]
  ELSE IF auto THEN [r EXCEPT !.app = r.prior, !.prior = "", !.closed = "no"]
  ELSE r

\* The 21-day sweep.  It reads the verdict, not who gave it.
Fillable(r) ==
  /\ r.review = "kept"
  /\ r.app = "applied"
  /\ r.check = "closed"
  /\ r.closed = "due"

Filled(r) == IF Fillable(r) THEN [r EXCEPT !.prior = "applied", !.app = "filled"] ELSE r

\* set_manual_verdict: pinned, and applied whatever closure_auto says.
ManualVerdict(r, open) ==
  LET s == [r EXCEPT !.check = IF open THEN "open" ELSE "closed", !.pinned = TRUE]
  IN  IF open THEN ReopenTransition(s, TRUE, FALSE) ELSE CloseTransition(s, TRUE, FALSE)

\* _apply: an automated verdict recorded on row r, decided from `seen`, what the
\* pass read of the row when it began.
Apply(r, seen, verdict, checked, auto) ==
  LET writes == checked \/ verdict # seen.check
      s == IF writes THEN [r EXCEPT !.check = verdict] ELSE r
  IN  IF writes /\ r.pinned THEN r
      ELSE IF ~writes /\ seen.review # "kept" THEN r
      ELSE IF verdict = "closed" THEN CloseTransition(s, auto, TRUE)
      ELSE IF verdict = "open" \/ seen.check = "closed" THEN ReopenTransition(s, auto, TRUE)
      ELSE s
=============================================================================
