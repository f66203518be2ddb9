------------------------------ MODULE Matching ------------------------------
(***************************************************************************)
(* matching/pipeline.py, scorer.py and rescore.py: which postings a pass   *)
(* sends to the model, whose score it replays instead, and what it makes   *)
(* of the rows it loaded minutes ago.                                      *)
(*                                                                         *)
(* A pass reads its candidates, plans, asks the model batch by batch and   *)
(* writes everything at its end, in one transaction.  The daily pass and   *)
(* the cockpit's whole-backlog passes hold the run lock; a click on one    *)
(* row (a paste, a manual job, a kept row's re-score) runs beside them.    *)
(* Meanwhile postings arrive, texts change, and the user decides.          *)
(*                                                                         *)
(* Geo, the title prefilter and the model's answer are choices.  Pay, and  *)
(* the postings of an excluded company, are left out.                      *)
(***************************************************************************)
EXTENDS Naturals, FiniteSets

CONSTANTS
  Jobs,        \* postings, numbered as their rows are
  RoleOf,      \* RoleOf[j]: employer and title
  Texts,
  Short,       \* texts under MIN_JD_CHARS_FOR_REUSE
  Far,         \* postings known to be outside the commute range
  Unplaced,    \* postings whose place cannot be read
  Dropped,     \* postings the title prefilter drops
  Unreadable,  \* texts the model cannot answer about, nor about a batch with one
  Answers,     \* alignments the model gives
  BatchSize,
  FallbackJobBudget,
  Clickers,    \* clicks that may be under way beside each other
  Named,       \* bound: sets of rows that a scoped pass may be about
  MaxActs      \* bound: decisions, edits, changed texts and clicks

Values == {"below", "borderline", "above"}

(* A batch is larger than the number of jobs that spoil it, and the fallback  *)
(* reaches all of a batch: 15 and 30 in scorer.py.                            *)
ASSUME MatchingAssumption ==
  /\ Jobs \subseteq Nat /\ IsFiniteSet(Jobs)
  /\ RoleOf \in [Jobs -> STRING]
  /\ Texts # {} /\ Short \subseteq Texts
  /\ Far \subseteq Jobs /\ Unplaced \subseteq Jobs \ Far /\ Dropped \subseteq Jobs
  /\ Unreadable \subseteq Texts \ Short /\ Answers \subseteq Values
  /\ BatchSize \in Nat \ {0}
  /\ Cardinality({RoleOf[j] : j \in Jobs} \X Unreadable) < BatchSize
  /\ FallbackJobBudget \in Nat /\ FallbackJobBudget >= BatchSize
  /\ "locked" \notin Clickers
  /\ Named \subseteq SUBSET Jobs
  /\ MaxActs \in Nat

VARIABLES
  job,    \* the jobs table
  dream,  \* postings DreamRule applies to now
  inputs, \* profile, work history, prompt and model: what scoring_fingerprint hashes
  scorer, \* what each pass has read and not yet written
  acts

matchVars == <<job, dream, inputs, scorer, acts>>

-----------------------------------------------------------------------------
(* Values *)

MachineStates == {"new", "surfaced", "queued"}
NoScore == [value |-> "none"]
Whole == {"daily", "changed", "all"}
Scorers == {"locked"} \cup Clickers

(* `version` is score_model_version.  The rest is for checking only: the text *)
(* and the inputs the model was given; whether the posting's text was changed *)
(* under the score, as happens to a row the user has decided; whether a       *)
(* Re-score all or a click gave it, beside or over an earlier one.            *)
Judged ==
  [value : Values, version : 0..MaxActs, of : Texts, under : 0..MaxActs,
   misplaced : BOOLEAN, redone : BOOLEAN]
Scores == {NoScore} \cup Judged

Row == [review : MachineStates \cup {"kept", "archived", "absent"}, text : Texts,
        score : Scores, far : BOOLEAN]

\* What a pass has read, and what it has been told.
NoPass == [at |-> "idle"]
PassKinds == Whole \cup {"adopted", "scoped", "kept"}
TextsOf == UNION {[S -> Texts] : S \in SUBSET Jobs}
PlanningPass == [at : {"planning"}, kind : PassKinds, whole : BOOLEAN, version : 0..MaxActs,
                 seen : TextsOf]
ScoringPass(S) == [at : {"scoring"}, kind : PassKinds, whole : BOOLEAN, version : 0..MaxActs,
                   seen : TextsOf, got : [S -> Judged], left : SUBSET Jobs,
                   budget : 0..FallbackJobBudget]

IsPass(s) ==
  s = NoPass \/ s \in PlanningPass \/ \E S \in SUBSET Jobs : s \in ScoringPass(S)

MatchTypeOK ==
  /\ job \in [Jobs -> Row]
  /\ dream \subseteq Jobs
  /\ acts \in 0..MaxActs /\ inputs \in 0..acts
  /\ scorer = [p \in Scorers |-> scorer[p]]
  /\ \A p \in Scorers : IsPass(scorer[p])

MatchInit ==
  /\ job = [j \in Jobs |-> [review |-> "absent", text |-> CHOOSE t \in Texts : TRUE,
                            score |-> NoScore, far |-> FALSE]]
  /\ dream = Far
  /\ inputs = 0 /\ acts = 0
  /\ scorer = [p \in Scorers |-> NoPass]

Scored(j) == job[j].score # NoScore
Undecided(j) == job[j].review \in MachineStates

\* _batches, and the fallback's budget: the first n, in the order of the rows.
FirstOf(n, S) == {j \in S : Cardinality({k \in S : k < j}) < n}
Least(S) == CHOOSE j \in S : \A k \in S : j <= k

-----------------------------------------------------------------------------
(* What a pass takes up *)

\* Mutant of Candidates: a scored row is never revisited.
CandidatesUnscored(kind, only) ==
  {j \in only : Undecided(j) /\ (kind = "daily" => ~Scored(j))}

\* The daily pass takes up what was never scored, and what only the dream list keeps.
Candidates(kind, only) ==
  {j \in only : Undecided(j) /\ (kind = "daily" => ~Scored(j) \/ job[j].far)}

\* is_geo_reject, classify_scope: no call is spent on these.
Rejected(j) == (j \in Far /\ j \notin dream) \/ j \in Dropped

\* Candidates, the geo verdicts and the cheap rejects, committed before the first call.  A
\* pass with `whole` is one that no deadline cuts, no failure ends, and the model answers.
Begin(p, kind, only, whole) ==
  /\ scorer[p] = NoPass
  /\ LET cs == Candidates(kind, only)
     IN  /\ job' = [j \in Jobs |->
                      IF j \notin cs THEN job[j]
                      ELSE [job[j] EXCEPT !.far = j \in Far /\ j \in dream,
                                          !.review = IF Rejected(j) THEN "new" ELSE @]]
         /\ scorer' = [scorer EXCEPT ![p] =
              [at |-> "planning", kind |-> kind, whole |-> whole, version |-> inputs,
               seen |-> [j \in {c \in cs : ~Rejected(c)} |-> job[j].text]]]
  /\ UNCHANGED <<dream, inputs>>

\* rescore_job, of a kept row.
BeginKept(c, j) ==
  /\ scorer[c] = NoPass
  /\ job[j].review = "kept"
  /\ scorer' = [scorer EXCEPT ![c] =
       [at |-> "planning", kind |-> "kept", whole |-> FALSE, version |-> inputs,
        seen |-> [k \in {j} |-> job[k].text]]]
  /\ UNCHANGED <<job, dream, inputs>>

-----------------------------------------------------------------------------
(* What it replays and what it asks *)

\* reuse_key, of a row and of a candidate.
SameKey(j, text, k, other) == RoleOf[j] = RoleOf[k] /\ text = other /\ text \notin Short

\* load_prior_scores.  A kept job's re-score leaves its own key out.
Priors(p, j) ==
  {k \in Jobs : /\ scorer[p].kind \notin {"all", "kept"}
                /\ Scored(k) /\ job[k].score.version = scorer[p].version
                /\ SameKey(j, scorer[p].seen[j], k, job[k].text)}

Redoes(p) == scorer[p].kind \notin {"daily", "changed", "adopted"}

\* A replayed score gets the stamp of the pass.
Replay(p, k) ==
  [job[k].score EXCEPT !.version = scorer[p].version, !.redone = @ \/ Redoes(p)]

\* Candidates of one key, of which the first is asked about for all.
Twins(p, j) ==
  {j} \cup {k \in DOMAIN scorer[p].seen : SameKey(j, scorer[p].seen[j], k, scorer[p].seen[k])}

\* Mutant of Plan: every candidate is asked about.
PlanApart(p) ==
  /\ scorer[p].at = "planning"
  /\ LET seen == scorer[p].seen
         replayed == {j \in DOMAIN seen : Priors(p, j) # {}}
     IN  scorer' = [scorer EXCEPT ![p] =
           [at |-> "scoring", kind |-> @.kind, whole |-> @.whole, version |-> @.version,
            seen |-> seen,
            got |-> [j \in replayed |-> Replay(p, Least(Priors(p, j)))],
            left |-> DOMAIN seen \ replayed, budget |-> FallbackJobBudget]]
  /\ UNCHANGED <<job, dream, inputs, acts>>

\* load_prior_scores and _plan_reuse.
Plan(p) ==
  /\ scorer[p].at = "planning"
  /\ LET seen == scorer[p].seen
         replayed == {j \in DOMAIN seen : Priors(p, j) # {}}
     IN  scorer' = [scorer EXCEPT ![p] =
           [at |-> "scoring", kind |-> @.kind, whole |-> @.whole, version |-> @.version,
            seen |-> seen,
            got |-> [j \in replayed |-> Replay(p, Least(Priors(p, j)))],
            left |-> {j \in DOMAIN seen \ replayed : j = Least(Twins(p, j))},
            budget |-> FallbackJobBudget]]
  /\ UNCHANGED <<job, dream, inputs, acts>>

Spoils(p, j) == scorer[p].seen[j] \in Unreadable

\* What one response may be about: nothing, when it does not parse.
Answered(p, asked) ==
  IF \E j \in asked : Spoils(p, j) THEN {{}}
  ELSE IF scorer[p].whole THEN {asked}
  ELSE SUBSET asked

\* Jobs the per-job fallback tries after a batch of several came back short.
Retried(p, batch, parsed) ==
  IF Cardinality(batch) = 1 THEN {} ELSE FirstOf(scorer[p].budget, batch \ parsed)

\* Mutant of Recovered: the fallback is left out.
RecoveredNever(p, tries) == {{}}

Recovered(p, tries) ==
  LET readable == {j \in tries : ~Spoils(p, j)}
  IN  IF scorer[p].whole THEN {readable} ELSE SUBSET readable

NewScore(p, j, value) ==
  [value |-> value, version |-> scorer[p].version, of |-> scorer[p].seen[j],
   under |-> scorer[p].version, misplaced |-> FALSE,
   redone |-> Redoes(p)]

\* One batch, with its fallback; one that recovers nothing ends the fallbacks.
Asks(p) ==
  /\ scorer[p].at = "scoring" /\ scorer[p].left # {}
  /\ LET batch == FirstOf(BatchSize, scorer[p].left)
     IN  \E parsed \in Answered(p, batch) :
           LET tries == Retried(p, batch, parsed)
           IN  \E recovered \in Recovered(p, tries) :
                 \E value \in [parsed \cup recovered -> Answers] :
                   scorer' = [scorer EXCEPT
                     ![p].got = [j \in DOMAIN @ \cup DOMAIN value |->
                                   IF j \in DOMAIN value THEN NewScore(p, j, value[j]) ELSE @[j]],
                     ![p].left = @ \ batch,
                     ![p].budget = IF tries # {} /\ recovered = {} THEN 0
                                   ELSE @ - Cardinality(tries)]
  /\ UNCHANGED <<job, dream, inputs, acts>>

\* The gateway refuses a call: no further attempts, the rest waits.
CutOff(p) ==
  /\ scorer[p].at = "scoring" /\ scorer[p].left # {} /\ ~scorer[p].whole
  /\ scorer' = [scorer EXCEPT ![p].left = {}]
  /\ UNCHANGED <<job, dream, inputs, acts>>

-----------------------------------------------------------------------------
(* What it writes *)

\* Where an alignment alone puts a job.
Band(value) ==
  CASE value = "below" -> "new" [] value = "borderline" -> "queued" [] value = "above" -> "surfaced"

\* gate.decide, for what has passed geo.
Disposition(j, value) ==
  IF j \in Unplaced /\ value = "above" THEN "queued" ELSE Band(value)

\* The followers share what their first twin got.
Results(p) ==
  LET got == scorer[p].got
      shared == {j \in DOMAIN scorer[p].seen : Least(Twins(p, j)) \in DOMAIN got}
  IN  [j \in DOMAIN got \cup shared |->
         IF j \in DOMAIN got THEN got[j] ELSE got[Least(Twins(p, j))]]

\* Mutant of Lands: a text changed meanwhile is not noticed.
LandsOnAnyText(p, j) == Undecided(j)

\* The compare-and-set of _write_score.
Lands(p, j) == Undecided(j) /\ job[j].text = scorer[p].seen[j]

Write(p) ==
  /\ scorer[p].at = "scoring" /\ scorer[p].left = {} /\ scorer[p].kind # "kept"
  /\ LET scores == Results(p)
     IN  job' = [j \in Jobs |->
           IF j \in DOMAIN scores /\ Lands(p, j)
           THEN [job[j] EXCEPT !.score = scores[j], !.review = Disposition(j, scores[j].value)]
           ELSE job[j]]
  /\ scorer' = [scorer EXCEPT ![p] = NoPass]
  /\ UNCHANGED <<dream, inputs, acts>>

\* score_kept: the Keep stands, only the number changes.
WriteKept(p) ==
  /\ scorer[p].at = "scoring" /\ scorer[p].left = {} /\ scorer[p].kind = "kept"
  /\ job' = [j \in Jobs |->
       IF j \in DOMAIN scorer[p].got /\ job[j].review = "kept" /\ job[j].text = scorer[p].seen[j]
       THEN [job[j] EXCEPT !.score = scorer[p].got[j]]
       ELSE job[j]]
  /\ scorer' = [scorer EXCEPT ![p] = NoPass]
  /\ UNCHANGED <<dream, inputs, acts>>

\* An exception, a Stop, the process' death: nothing of a pass was written but its verdicts.
Fails(p) ==
  /\ scorer[p].at = "scoring" /\ ~scorer[p].whole
  /\ scorer' = [scorer EXCEPT ![p] = NoPass]
  /\ UNCHANGED <<job, dream, inputs, acts>>

-----------------------------------------------------------------------------
(* Discovery and the user *)

\* Rows are numbered as they are inserted.
Arrives(j, text) ==
  /\ job[j].review = "absent" /\ \A k \in Jobs : k < j => job[k].review # "absent"
  /\ job' = [job EXCEPT ![j].review = "new", ![j].text = text]
  /\ UNCHANGED <<dream, inputs, scorer, acts>>

Act == acts < MaxActs /\ acts' = acts + 1 /\ UNCHANGED scorer

\* A paste, an employer's text, a refresh: the score of an undecided row goes with its text.
TextChanges(j, text) ==
  /\ job[j].review # "absent" /\ job[j].text # text
  /\ job' = [job EXCEPT
       ![j].text = text,
       ![j].score = IF @ = NoScore \/ Undecided(j) THEN NoScore
                    ELSE [@ EXCEPT !.misplaced = TRUE]]
  /\ UNCHANGED <<dream, inputs>>
  /\ Act

Decide(j, from, to) ==
  /\ job[j].review \in from
  /\ job' = [job EXCEPT ![j].review = to]
  /\ UNCHANGED <<dream, inputs>>
  /\ Act

Keep(j) == Decide(j, MachineStates, "kept")
Archive(j) == Decide(j, MachineStates, "archived")
Unarchive(j) == Decide(j, {"archived"}, "surfaced")

\* By the stored score; the gate's view of the place is not at hand.
Unkeep(j) ==
  Decide(j, {"kept"}, IF ~Scored(j) THEN "queued" ELSE Band(job[j].score.value))

EditsInputs == inputs' = inputs + 1 /\ UNCHANGED <<job, dream>> /\ Act

\* The dream tier, its boards or its categories change.
EditsDream(j) ==
  /\ dream' = IF j \in dream THEN dream \ {j} ELSE dream \cup {j}
  /\ UNCHANGED <<job, inputs>>
  /\ Act

-----------------------------------------------------------------------------
Step(p) == Fails(p) \/ Write(p) \/ WriteKept(p) \/ Plan(p) \/ CutOff(p) \/ Asks(p)

\* A pass of the daily run, of Find + Score, or of a button for the whole backlog.
Locked(kind, whole) == Begin("locked", kind, Jobs, whole) /\ UNCHANGED acts
DailyWhole == Locked("daily", TRUE)

Click == acts < MaxActs /\ acts' = acts + 1

\* The rows a click is about (one, or those of a split), which waits for no lock; a kept
\* one of them, and of the daily run's below, is a pass of its own.
Clicked(c, rows) == Begin(c, "scoped", rows, FALSE) /\ Click
ClickedKept(c, j) == BeginKept(c, j) /\ Click

\* The daily run re-scores the rows whose description it has just replaced.
Rescored(rows) == Begin("locked", "adopted", rows, FALSE) /\ Click

MatchNext ==
  \/ DailyWhole
  \/ \E kind \in Whole : Locked(kind, FALSE)
  \/ \E rows \in Named : Rescored(rows) \/ \E c \in Clickers : Clicked(c, rows)
  \/ \E c \in Clickers, j \in Jobs : ClickedKept(c, j)
  \/ \E p \in Scorers : Step(p)
  \/ \E j \in Jobs :
       \/ \E text \in Texts : Arrives(j, text) \/ TextChanges(j, text)
       \/ Keep(j) \/ Archive(j) \/ Unarchive(j) \/ Unkeep(j)
  \/ EditsInputs
  \/ \E j \in Far : EditsDream(j)

\* A pass ends, for its calls do; and again and again a daily pass runs that nothing cuts
\* short.  Every other pass may fail, be cut off, or hear nothing.
MatchFairness == (\A p \in Scorers : WF_matchVars(Step(p))) /\ SF_matchVars(DailyWhole)

MatchSpec == MatchInit /\ [][MatchNext]_matchVars /\ MatchFairness

-----------------------------------------------------------------------------
(* Properties *)

\* A score is of the text beside it, and its stamp names the inputs it was computed from,
\* although texts and profile change while the model is asked and scores are copied from
\* row to row (matching/fingerprint.py).  Excepted is what stems from a row the user had
\* decided when its text changed: a kept row keeps its number until the re-score lands.
ScoreIsTrue ==
  \A j \in Jobs : Scored(j) =>
    /\ job[j].score.under = job[j].score.version
    /\ ~job[j].score.misplaced => job[j].score.of = job[j].text

\* A repost is not judged again (load_prior_scores): two postings of one role with one text
\* hold one value, over any number of passes, failures and edits back and forth.  Excepted
\* are what a Re-score all or a click gave (`redone`: the one asks again, the other may
\* beside a pass that does), and a score of another text (`misplaced`).
Twinned(j, k) ==
  /\ Scored(j) /\ Scored(k) /\ SameKey(j, job[j].text, k, job[k].text)
  /\ job[j].score.version = job[k].score.version
  /\ \A i \in {j, k} : ~job[i].score.redone /\ ~job[i].score.misplaced

TwinsAgree ==
  \A j, k \in Jobs : Twinned(j, k) => job[j].score.value = job[k].score.value

\* score_candidates: what the model can answer about is scored, rejected or decided in the
\* end, although others spoil every batch they are in, passes fail, and texts change.
Waits(j) == Undecided(j) /\ ~Scored(j) /\ ~Rejected(j) /\ job[j].text \notin Unreadable
ScoredInTheEnd == <>[](\A j \in Jobs : ~Waits(j))

\* _load_candidates: a role marked as kept by the dream list alone (`dream_far`) goes when
\* the list no longer keeps it, scored or not, by a daily pass.
ShownFar(j) == job[j].review \in {"surfaced", "queued"} /\ j \notin dream
FlaggedRolesLeave == <>[](\A j \in Far : ~(ShownFar(j) /\ job[j].far))

\* docs/how-it-works/matching.md:52 says it of every role: "a role that lost the exception is
\* rejected again".  But of a click and a pass that began on the two sides of an edit of the
\* list, the later clears the mark and the earlier surfaces the role: no daily pass looks at
\* it any more.
FarRolesLeave == <>[](\A j \in Far : ~ShownFar(j))
=============================================================================
