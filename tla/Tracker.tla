------------------------------ MODULE Tracker ------------------------------
(***************************************************************************)
(* Application tracking: the user's stage moves in the cockpit             *)
(* (web/stage_moves.py and the routes of web/app.py), the documents each   *)
(* move says were sent (core/packet_sends.py), recruiter submissions       *)
(* (core/submissions.py), and the closure pass of the daily run            *)
(* (core/closure.py) writing to the same rows from another process.        *)
(*                                                                         *)
(* The cockpit serves one request at a time: a move commits first, and its *)
(* bookkeeping follows in transactions of its own, which may fail or be    *)
(* lost with the process.  The pass reads every row once, then awaits the  *)
(* network between rows, so what it read of a row may be long out of date  *)
(* when it writes that row.                                                *)
(***************************************************************************)
EXTENDS JobStages, Sequences, FiniteSets

CONSTANTS
  Jobs,
  Role,          \* Role[j]: every job that may be the same role as j
  Menu,          \* the statuses the job page's dropdown posts
  Docs,          \* versions of the tailored documents
  Recruiters,
  MaxSends,      \* bound: sends recorded for one job
  MaxIds,        \* bound: ids of recruiter_submissions
  Passes         \* bound: values of closure_auto the passes run with

ASSUME TrackerAssumption ==
  /\ Role \in [Jobs -> SUBSET Jobs]
  /\ \A j \in Jobs : j \in Role[j]
  /\ \A j, k \in Jobs : k \in Role[j] => j \in Role[k]
  /\ Menu \subseteq UserStates \ {""}
  /\ MaxSends \in Nat
  /\ MaxIds \in Nat
  /\ Passes \subseteq BOOLEAN

VARIABLES
  rows,      \* the tracking columns of the jobs table
  docs,      \* docs[j]: the documents on disk, "none" when there is no packet to send
  sends,     \* sends[j]: packet_sends, oldest first, and whether each attempt has ended
  subs,      \* recruiter_submissions
  page,      \* page[j]: the submissions the open page of j shows
  cockpit,   \* the request being served
  pass,      \* the closure pass
  history    \* history[j]: for checking only

vars == <<rows, docs, sends, subs, page, cockpit, pass, history>>

-----------------------------------------------------------------------------
(* Values *)

\* Outcomes that end an attempt; of a send's outcomes only the latest is read back.
TerminalOutcomes == {"rejected", "ghosted", "withdrawn", "posting_closed", "filled"}

Send == [docs : Docs, ended : BOOLEAN]
Submission == [id : 1 .. MaxIds, job : Jobs, who : Recruiters, anyway : BOOLEAN]

Idle == [pc |-> "idle"]
Request ==
  [pc : {"move", "send", "outcome"}, job : Jobs, want : UserStates, from : SUBSET AppStates,
   send : BOOLEAN, outcome : BOOLEAN, shown : SUBSET Submission]

NoPass == [pc |-> "none"]
Seen == [review : {"open", "kept", "archived"}, check : Verdicts,
         link : {"none", "found", "manual"}]
PassState ==
  {NoPass}
    \cup [pc : {"rows"}, auto : BOOLEAN, seen : UNION {[S -> Seen] : S \in SUBSET Jobs}]
    \cup [pc : {"sweep"}, due : SUBSET Jobs]

(* `applications` counts the "applied" events of the job's timeline; `acked` *)
(* says that its first was made past a warning the user acknowledged.        *)
History == [applications : Nat, acked : BOOLEAN]

TypeOK ==
  /\ rows \in [Jobs -> Row]
  /\ docs \in [Jobs -> Docs \cup {"none"}]
  /\ sends \in [Jobs -> Seq(Send)]
  /\ subs \subseteq Submission
  /\ page \in [Jobs -> SUBSET Submission]
  /\ cockpit \in {Idle} \cup Request
  /\ pass \in PassState
  /\ history \in [Jobs -> History]

Init ==
  /\ \E own \in [Jobs -> BOOLEAN] : rows = [j \in Jobs |-> NewRow(own[j])]
  /\ docs = [j \in Jobs |-> "none"]
  /\ sends = [j \in Jobs |-> << >>]
  /\ subs = {}
  /\ page = [j \in Jobs |-> {}]
  /\ cockpit = Idle
  /\ pass = NoPass
  /\ history = [j \in Jobs |-> [applications |-> 0, acked |-> FALSE]]

-----------------------------------------------------------------------------
(* Operators *)

Ids(S) == {s.id : s \in S}

\* Submissions on any job that is the same role.
SubsForRole(j) == {s \in subs : s.job \in Role[j]}

\* Mutant of AppliedBefore: applied_at is not looked at.
AppliedBeforeByState(j) == {k \in Role[j] : rows[k].app \in AppliedStates}

\* Same-role jobs the owner applied through.
AppliedBefore(j) == {k \in Role[j] : rows[k].applied \/ rows[k].app \in AppliedStates}

\* ack_guard: a first application to a submitted role needs the token of exactly
\* the submissions that exist now.  The token is a hash of their ids.
Refused(j, want, shown) ==
  /\ FirstApplication(rows[j], want)
  /\ SubsForRole(j) # {}
  /\ Ids(shown) # Ids(SubsForRole(j))

\* record_outcome_for_job: the outcome belongs to the newest send, if there is one.
WithOutcome(ss, outcome) ==
  IF ss = << >> THEN ss ELSE [ss EXCEPT ![Len(ss)].ended = outcome \in TerminalOutcomes]

\* record_send: the newest send of the same documents is this attempt unless it
\* has already ended.
SameDocs(ss, d) == {i \in DOMAIN ss : ss[i].docs = d}
StillOpen(ss, d) ==
  \E i \in SameDocs(ss, d) :
    /\ \A k \in SameDocs(ss, d) : k <= i
    /\ ~ss[i].ended
\* Mutant of WithSend: every mark applied is a new send.
WithSendAgain(ss, d) == Append(ss, [docs |-> d, ended |-> FALSE])

WithSend(ss, d) == IF StillOpen(ss, d) THEN ss ELSE Append(ss, [docs |-> d, ended |-> FALSE])

\* A row an automated or pinned verdict wrote, with the outcome that goes with a close.
Closes(j, r) == rows[j].app # "posting_closed" /\ r.app = "posting_closed"
WriteVerdict(j, r) ==
  /\ rows' = [rows EXCEPT ![j] = r]
  /\ sends' = IF Closes(j, r)
                THEN [sends EXCEPT ![j] = WithOutcome(@, "posting_closed")] ELSE sends

-----------------------------------------------------------------------------
(* The cockpit: review, posting verdict, employer link, submissions.  Each  *)
(* is one transaction of one request.                                       *)

SetReview(j, new, expected) ==
  /\ cockpit = Idle
  /\ rows[j].review \in expected
  /\ rows' = [rows EXCEPT ![j].review = new]
  /\ UNCHANGED <<docs, sends, subs, page, cockpit, pass, history>>

Keep(j) == SetReview(j, "kept", {"open"})
Archive(j) == SetReview(j, "archived", {"open"})
Unarchive(j) == SetReview(j, "open", {"archived"})

\* Off the Shortlist; refused for anything in a hiring process or closed.
Unkeep(j) ==
  /\ rows[j].app \in ShortlistStates
  /\ SetReview(j, "open", {"kept"})

PostingVerdict(j, open) ==
  /\ cockpit = Idle
  /\ WriteVerdict(j, ManualVerdict(rows[j], open))
  /\ UNCHANGED <<docs, subs, page, cockpit, pass, history>>

SaveManualLink(j) ==
  /\ cockpit = Idle
  /\ rows' = [rows EXCEPT ![j].link = "manual"]
  /\ UNCHANGED <<docs, sends, subs, page, cockpit, pass, history>>

ClearManualLink(j) ==
  /\ cockpit = Idle
  /\ rows[j].link = "manual"
  /\ rows' = [rows EXCEPT ![j].link = "none"]
  /\ UNCHANGED <<docs, sends, subs, page, cockpit, pass, history>>

\* The table's ids are plain rowids: a new row takes the largest id plus one, so
\* the id of a deleted newest row is given again.
NextId(id) ==
  /\ \A s \in subs : s.id < id
  /\ id = 1 \/ \E s \in subs : s.id = id - 1

\* One write lock from the check to the insert; over a direct application the form
\* is answered with a warning, and goes in when it comes back with log_anyway.
LogSubmission(j, who) ==
  /\ cockpit = Idle
  /\ \E id \in 1 .. MaxIds :
       /\ NextId(id)
       /\ subs' = subs \cup {[id |-> id, job |-> j, who |-> who,
                              anyway |-> AppliedBefore(j) # {}]}
  /\ UNCHANGED <<rows, docs, sends, page, cockpit, pass, history>>

DeleteSubmission(s) ==
  /\ cockpit = Idle
  /\ subs' = subs \ {s}
  /\ UNCHANGED <<rows, docs, sends, page, cockpit, pass, history>>

\* first_apply_warning: what the page shows, and the token it will send back.
Render(j) ==
  /\ cockpit = Idle
  /\ page' = [page EXCEPT ![j] = IF rows[j].applied THEN {} ELSE SubsForRole(j)]
  /\ UNCHANGED <<rows, docs, sends, subs, cockpit, pass, history>>

-----------------------------------------------------------------------------
(* The cockpit: stage moves.  A request reads the row, then writes the move *)
(* as a compare-and-set, then does its bookkeeping.  Its answer replaces    *)
(* the page it was posted from.                                             *)

Begin(j, want, from, send, outcome) ==
  /\ cockpit = Idle
  /\ Len(sends[j]) < MaxSends \/ ~send
  /\ cockpit' = [pc |-> "move", job |-> j, want |-> want, from |-> from,
                 send |-> send, outcome |-> outcome, shown |-> page[j]]
  /\ page' = [page EXCEPT ![j] = {}]
  /\ UNCHANGED <<rows, docs, sends, subs, pass, history>>

MarkApplied(j) == Begin(j, "applied", ShortlistStates, TRUE, FALSE)

Advance(j) ==
  /\ rows[j].app \in InProcessStates \ {"offer"}
  /\ Begin(j, NextStage(rows[j].app), {rows[j].app}, FALSE, TRUE)

Withdraw(j) == Begin(j, "withdrawn", InProcessStates, FALSE, TRUE)

\* Closed -> Applied if the user had applied, else back to the Shortlist.
Reopen(j) ==
  /\ rows[j].app \in ClosedStates
  /\ IF rows[j].applied
       THEN Begin(j, "applied", {rows[j].app}, FALSE, TRUE)
       ELSE Begin(j, "", {rows[j].app}, FALSE, FALSE)

\* The job page's dropdown moves from any state; only the move that first stamps
\* applied_at is a send, and "drafted" is not an outcome.
SetStatus(j) ==
  \E status \in Menu :
    Begin(j, status, AppStates, status = "applied" /\ ~rows[j].applied, status # "drafted")

After(req, done) ==
  IF done = "move" /\ req.send THEN [req EXCEPT !.pc = "send"]
  ELSE IF done # "outcome" /\ req.outcome THEN [req EXCEPT !.pc = "outcome"]
  ELSE Idle

\* set_application_state: the guard, the compare-and-set and the event, in one
\* transaction.
MoveLands ==
  /\ cockpit.pc = "move"
  /\ LET j == cockpit.job
         first == FirstApplication(rows[j], cockpit.want)
     IN  /\ CanMove(rows[j], cockpit.want, cockpit.from)
         /\ ~Refused(j, cockpit.want, cockpit.shown)
         /\ rows' = [rows EXCEPT ![j] = Moved(@, cockpit.want)]
         /\ history' = IF ~first THEN history
              ELSE [history EXCEPT ![j] =
                      [applications |-> @.applications + 1,
                       acked |-> SubsForRole(j) # {}]]
         /\ cockpit' = After(cockpit, "move")
  /\ UNCHANGED <<docs, sends, subs, page, pass>>

\* Refused by the guard, or the row is no longer where the request saw it.
MoveRefused ==
  /\ cockpit.pc = "move"
  /\ \/ ~CanMove(rows[cockpit.job], cockpit.want, cockpit.from)
     \/ Refused(cockpit.job, cockpit.want, cockpit.shown)
  /\ cockpit' = Idle
  /\ UNCHANGED <<rows, docs, sends, subs, page, pass, history>>

\* record_send_for_job, best effort: nothing is recorded without documents, and a
\* failure is only noted.
RecordSend ==
  /\ cockpit.pc = "send"
  /\ LET j == cockpit.job
     IN  \/ /\ docs[j] # "none"
            /\ sends' = [sends EXCEPT ![j] = WithSend(@, docs[j])]
         \/ UNCHANGED sends
  /\ cockpit' = After(cockpit, "send")
  /\ UNCHANGED <<rows, docs, subs, page, pass, history>>

RecordOutcome ==
  /\ cockpit.pc = "outcome"
  /\ \/ sends' = [sends EXCEPT ![cockpit.job] = WithOutcome(@, cockpit.want)]
     \/ UNCHANGED sends
  /\ cockpit' = Idle
  /\ UNCHANGED <<rows, docs, subs, page, pass, history>>

\* The cockpit dies between two transactions of a request.
CockpitDies ==
  /\ cockpit # Idle
  /\ cockpit' = Idle
  /\ UNCHANGED <<rows, docs, sends, subs, page, pass, history>>

\* Outside this module: a build or a revision leaves other documents, or none to send.
DocumentsChange(j) ==
  /\ \E d \in (Docs \cup {"none"}) \ {docs[j]} : docs' = [docs EXCEPT ![j] = d]
  /\ UNCHANGED <<rows, sends, subs, page, cockpit, pass, history>>

-----------------------------------------------------------------------------
(* The closure pass *)

PassBegins(auto) ==
  /\ pass = NoPass
  /\ pass' = [pc |-> "rows", auto |-> auto,
              seen |-> [j \in {k \in Jobs : ~rows[k].pinned} |->
                          [review |-> rows[j].review, check |-> rows[j].check,
                           link |-> rows[j].link]]]
  /\ UNCHANGED <<rows, docs, sends, subs, page, cockpit, history>>

ToCheck == IF pass.pc = "rows" THEN DOMAIN pass.seen ELSE {}

RowDone(j) ==
  pass' = [pass EXCEPT !.seen = [k \in DOMAIN pass.seen \ {j} |-> pass.seen[k]]]

\* Record a verdict on row r of job j: _apply, with the row the pass read.
Record(j, r, verdict, checked) ==
  /\ WriteVerdict(j, Apply(r, pass.seen[j], verdict, checked, pass.auto))
  /\ RowDone(j)
  /\ UNCHANGED <<docs, subs, page, cockpit, history>>

OwnSourceDecides(j) ==
  /\ j \in ToCheck
  /\ rows[j].own
  /\ \E verdict \in {"open", "closed"} : Record(j, rows[j], verdict, FALSE)

\* A manual link, the run's search and probe caps, a failed search or probe.
RowLeftAlone(j) ==
  /\ j \in ToCheck
  /\ ~rows[j].own
  /\ RowDone(j)
  /\ UNCHANGED <<rows, docs, sends, subs, page, cockpit, history>>

\* The posting behind the link is held in the database, or the link was probed; a
\* page link of limited trust is never evidence.
LinkDecides(j) ==
  /\ j \in ToCheck
  /\ ~rows[j].own
  /\ pass.seen[j].link = "found"
  /\ \/ \E verdict \in {"open", "closed"}, checked \in BOOLEAN :
          Record(j, rows[j], verdict, checked)
     \/ Record(j, rows[j], "unproven", TRUE)

\* The link no longer proves anything: _drop_link.
LinkDropped(j) ==
  /\ j \in ToCheck
  /\ ~rows[j].own
  /\ pass.seen[j].link = "found"
  /\ Record(j, IF rows[j].pinned THEN rows[j] ELSE [rows[j] EXCEPT !.link = "none"],
            "unproven", TRUE)

WithLink(r) == IF r.pinned \/ r.link = "manual" THEN r ELSE [r EXCEPT !.link = "found"]

\* A sibling posting held in the database, or one a search just found listed.
LinkFound(j) ==
  /\ j \in ToCheck
  /\ ~rows[j].own
  /\ pass.seen[j].link = "none"
  /\ pass.seen[j].review # "archived"
  /\ \/ \E verdict \in {"open", "closed"} : Record(j, WithLink(rows[j]), verdict, FALSE)
     \/ \E verdict \in {"open", "unproven"} : Record(j, WithLink(rows[j]), verdict, TRUE)

NothingFound(j) ==
  /\ j \in ToCheck
  /\ ~rows[j].own
  /\ pass.seen[j].link = "none"
  /\ \E checked \in BOOLEAN : Record(j, rows[j], "unproven", checked)

\* sweep_filled reads which jobs are due, then moves each with a compare-and-set.
SweepBegins ==
  /\ pass.pc = "rows"
  /\ ToCheck = {}
  /\ pass' = [pc |-> "sweep", due |-> {j \in Jobs : pass.auto /\ Fillable(rows[j])}]
  /\ UNCHANGED <<rows, docs, sends, subs, page, cockpit, history>>

SweepFills(j) ==
  /\ pass.pc = "sweep"
  /\ j \in pass.due
  /\ rows' = [rows EXCEPT ![j] = Filled(@)]
  /\ sends' = IF Fillable(rows[j])
                THEN [sends EXCEPT ![j] = WithOutcome(@, "filled")] ELSE sends
  /\ pass' = [pass EXCEPT !.due = @ \ {j}]
  /\ UNCHANGED <<docs, subs, page, cockpit, history>>

\* The pass ends; or the daily run dies in it, and the next one starts over.
PassEnds ==
  /\ pass # NoPass
  /\ pass' = NoPass
  /\ UNCHANGED <<rows, docs, sends, subs, page, cockpit, history>>

\* FILLED_AFTER_DAYS go by.
PostingAges(j) ==
  /\ rows[j].closed = "recent"
  /\ rows' = [rows EXCEPT ![j].closed = "due"]
  /\ UNCHANGED <<docs, sends, subs, page, cockpit, pass, history>>

-----------------------------------------------------------------------------

UserActs(j) ==
  \/ Keep(j) \/ Archive(j) \/ Unarchive(j) \/ Unkeep(j)
  \/ \E open \in BOOLEAN : PostingVerdict(j, open)
  \/ SaveManualLink(j) \/ ClearManualLink(j)
  \/ \E who \in Recruiters : LogSubmission(j, who)
  \/ Render(j)
  \/ MarkApplied(j) \/ Advance(j) \/ Withdraw(j) \/ Reopen(j) \/ SetStatus(j)

CockpitWorks == MoveLands \/ MoveRefused \/ RecordSend \/ RecordOutcome \/ CockpitDies

PassChecks(j) ==
  \/ OwnSourceDecides(j) \/ RowLeftAlone(j) \/ LinkDecides(j) \/ LinkDropped(j)
  \/ LinkFound(j) \/ NothingFound(j)

PassWorks ==
  \/ \E auto \in Passes : PassBegins(auto)
  \/ \E j \in Jobs : PassChecks(j) \/ SweepFills(j)
  \/ SweepBegins \/ PassEnds

Next ==
  \/ \E j \in Jobs : UserActs(j) \/ DocumentsChange(j) \/ PostingAges(j)
  \/ \E s \in subs : DeleteSubmission(s)
  \/ CockpitWorks
  \/ PassWorks

Spec == Init /\ [][Next]_vars

-----------------------------------------------------------------------------
(* Properties *)

\* What a row says of the application: the user's own state, where the closure
\* lifecycle has parked it, and whether the user insists that it is open.
OwnState(r) == IF r.app \in ClosureStates THEN r.prior ELSE r.app
ParkedState(r) == IF r.app \in ClosureStates THEN r.app ELSE "no"
Insists(r) == r.pinned /\ r.check = "open"

\* Tracking implements the life cycle: under every interleaving of stale reads,
\* crashes and passes, only the user changes where his application stands, the
\* closure lifecycle parks a job and restores exactly what it parked, and a job the
\* user says is open is never parked (core/closure.py, web/service.set_application_state).
Life ==
  INSTANCE Lifecycle WITH
    Users <- UserStates,
    Shortlist <- ShortlistStates,
    own <- [j \in Jobs |-> OwnState(rows[j])],
    parked <- [j \in Jobs |-> ParkedState(rows[j])],
    kept <- [j \in Jobs |-> rows[j].review = "kept"],
    insists <- [j \in Jobs |-> Insists(rows[j])]
ImplementsLifecycle == Life!LSpec

\* A parked job can always be taken off again: posting_closed_at is stamped (both
\* transitions look for it) and a kept row holds it (core/closure.reopen_transition).
ParkedIsRestorable ==
  \A j \in Jobs : rows[j].app \in ClosureStates => rows[j].closed # "no" /\ rows[j].review = "kept"

\* The timeline shows one application exactly when the row says the user applied,
\* however often he moves in and out of applied (web/service._insert_state_event).
OneApplication ==
  \A j \in Jobs : history[j].applications = IF rows[j].applied THEN 1 ELSE 0

\* No send is recorded against a move that did not take (web/stage_moves.mark_applied).
SendsAreApplications == \A j \in Jobs : sends[j] # << >> => rows[j].applied

\* At most one attempt with the same documents is open, whatever rebuilds, retries,
\* closes and reopens came between (core/packet_sends.record_send).
OneOpenAttempt ==
  \A j \in Jobs : \A i, k \in DOMAIN sends[j] :
    i < k /\ sends[j][i].docs = sends[j][k].docs => sends[j][i].ended

\* A direct application and a recruiter's submission for the same role never stand
\* side by side unless the user went past a warning of one with the other in place
\* (core/submissions.ack_guard, web/routes_submissions.log_submission).
NeverBothUnawares ==
  \A j \in Jobs : rows[j].applied =>
    history[j].acked \/ \A s \in SubsForRole(j) : s.anyway

=============================================================================
