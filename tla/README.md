# blastjob in TLA+

TLA+ models of [blastjob](../src/README.md), a local cockpit that finds jobs, scores
them, tailors application packets with language models and tracks what became of them.
The models cover the part of the program that is concurrent, can fail half way, and
decides what a person sends to an employer: the budget of model calls and the processes
behind them, the claims that keep two writers off one packet, the registry and the event
streams of background runs, the hold and release of a packet's documents, the filing of
packet folders, the lease of a resume under revision, the tracking of applications, the
descriptions and scores of postings, and the daily run with its digest.

Source paths below are relative to `src/src/blastjob/`.

## 1. The system

| Process | Lives | Runs |
|---|---|---|
| cockpit (`web/launch.py`) | kept alive by launchd; dies and restarts at any moment | a FastAPI application on one event loop; every click that takes long starts a *run* (`web/runtime.py`) |
| daily run (`daily.py`) | started by launchd every morning | discovery, matching, mail, employer descriptions, filing, digest |
| commands | typed by the user, `blastjob-web` a second time included | the same code |

They share one SQLite database (jobs, `build_runs`, `model_calls`, events), one output
folder of packet folders, and lock files.

### Inventory

| Component | State | Operations | What is hard | What makes it correct |
|---|---|---|---|---|
| Call ledger (`llm/ledger.py`, hooks of `llm/gateway.py`) | `model_calls` rows; who this process is | reserve, finish, reconcile | several processes race for the last call; the day turns while a call waits for the lock; processes die mid-call and their pids are used again | the cap holds, nothing is refunded, a live call is never abandoned, a dead one's row is closed |
| Claims (`db/client.py`, `web/build.py`, `web/refine.py`) | `jobs.build_state`, `build_runs` rows with a lease | claim, finish, release, reset, recover | Stop at any await, restart, an outlived lease, a second launch | one writer per packet; state and rows agree; every tailor gets an outcome |
| Run registry (`web/runtime.py`) | runs, semaphores, the line for a slot | start, slot, Stop, end, evict | a cancelled run still unwinds; the gate is replaced under running work; cancellation in the line | no overlap, slots conserved, every run ends, nothing live is evicted |
| Event streams (`web/runtime.py`, `build_events`) | bounded log, waiters | emit, stream, reconnect | events come while a consumer is suspended; ids are trimmed; the run is evicted | one terminal event, nothing skipped but what was trimmed, every stream ends |
| Verification, hold, release (`core/packet_verify.py`, `core/quarantine.py`, `web/app.py`, `web/packet_view.py`) | public and `quarantine/` folders, `packet_report.json` | gate, hold, release, undo, download | each rename may raise, the process may die between two | a failed document is never served unreleased |
| Refinement (`core/refine.py`, `core/refine_files.py`) | staged files, archived versions | stage, rescore, rotate, publish, put back, retire | failure half way through a publish; versions in two folders; Release meanwhile | nothing lost but what is released meanwhile, there is always a resume, no stale export |
| Resume lease (`core/refine_files.py`) | a lock file, its flock, descriptors | try, hold, remove | the lock file is unlinked by its holder while others have it open | exclusion; a lease that ends gives everything back |
| Filing (`core/packet_filing.py`, `core/filing_lock.py`, `core/paths.py`) | where each packet folder is | pass, hook of a stage move, the writers' locate and write | a pass renames folders while runs write; a plan is older than the stages | no folder moves under a writer the filer can recognise, none is split but by a hold past midnight, every folder is filed in the end |
| Tracker (`web/stage_moves.py`, `web/service.py`, `core/submissions.py`, `core/packet_sends.py`) | review and application state of a job, its events, sends, submissions | keep, move, apply, advance, withdraw, reopen, archive; log and delete a submission; record a send and its outcome | a move commits before its bookkeeping, which may fail or be lost; two pages of one role are each older than the other's write | one application on the timeline, one open attempt per documents, no double application unawares |
| Role closure (`core/closure.py`, `core/closure_links.py`) | posting verdict, its pin, its link, the stamp of a parked job | sweep, link, probe, park, reopen, fill | a pass decides by rows it read before it went to the network | only the user moves an application; what automation parks it restores |
| Employer descriptions (`core/employer_jd.py`, `db/client.py`) | text, provenance, what an undo restores, the score's staleness | adopt, revise, revert, paste, refresh, link, reject | every writer reads a row, awaits, and writes later; two of them read outside a transaction | a text is what its provenance says, a rejected posting is never used, a score follows its text |
| Daily orchestrator, run lock (`daily.py`, `daily_steps.py`, `core/run_lock.py`) | the lock, run rows, what each kind of item is stamped with | the steps of a pass, the digest, its stamps | dates move while the digest is sent; the send fails or the process dies before a stamp; runs are skipped | nothing is buried, nothing told twice, everything due is told in the end |
| Matching (`matching/pipeline.py`, `scorer.py`, `rescore.py`) | score, its fingerprint, disposition, `dream_far` | load, plan, ask, write, re-score a kept row | minutes between the load and the write; spoiled batches; copied scores | a score is of its text and inputs, reposts agree, everyone who can be scored is, a far role goes with its exception |
| Child supervision (`llm/supervise.py`, `llm/gateway.py`, `llm/providers.py`) | owner, supervisor, relay thread and process group of one CLI call | spawn, relay, time out, stop, reap, drain | each of the four may end at any moment | no child outlives its call, an answer is whole, a dead owner's group ends |
| Feeds, mail transport, document formats, prompts, text checks, views, schema | | | I/O, parsing, wording | not modelled: see section 7 |

How they meet. A click becomes a run of the registry; the run waits for a model slot,
takes the job's claim, makes model calls through the ledger (each a supervised process
where the provider is the CLI), takes the filing lock to locate its folder, writes
documents, has them judged, holds or publishes them, records the outcome and calls the
filing hook. The daily run finds and scores postings, adopts employers' texts (which
takes their scores along), lets closure park and reopen jobs, and tells what it found.
Stage moves and the daily run call the filer too. The claim row is also what keeps the
filer off a folder while a build streams, which is why `PacketFiling` repeats the claim in
a reduced form. Both are proved to implement one abstract specification, `PacketClaim`, so
that the reduced claim promises the filer nothing that the real one does not. For the same
reason `EmployerJd` has a reduced scorer and `Matching` a
reduced writer of texts, and `DailyRun` sees the work of a step as a choice of items.

## 2. Modules

| Module | Models | Checked by | Proved in |
|---|---|---|---|
| `CallLedger` | the ledger | `MCCallLedger` | `CallLedgerProofs` |
| `PacketClaim` | what a claim on a packet promises (abstract) | `MCBuildClaims` | `BuildClaimsProofs`, `PacketFilingProofs` |
| `BuildClaims` | claims and their runs; implements `PacketClaim` | `MCBuildClaims` | `BuildClaimsProofs` |
| `Runtime` | the run registry and its gate | `MCRuntime` | `RuntimeProofs` |
| `RunStream` | event log and consumers of one run | `MCRunStream` | `RuntimeProofs` |
| `RolePacket` | one role's documents: build, refine, gate, hold, release | `MCRolePacket` | `RolePacketProofs` |
| `PacketFiling` | the folders of one company and the filing lock; its claims implement `PacketClaim` | `MCPacketFiling` | `PacketFilingProofs` |
| `RefineLease` | the lock file of one resume | `MCRefineLease` | `RolePacketProofs` |
| `Lifecycle` | what tracking promises of an application (abstract) | `MCTracker` | `TrackerProofs` |
| `JobStages` | the stages of a job and the transitions of the automation, as operators | `MCTracker` | |
| `Tracker` | the user's moves, submissions, sends and the closure pass; implements `Lifecycle` | `MCTracker` | `TrackerProofs` |
| `EmployerJd` | the description of an aggregator's posting and its writers | `MCEmployerJd` | `EmployerJdProofs` |
| `DailyRun` | the run lock, the steps of a pass, the digest and its stamps | `MCDailyRun` | `DailyRunProofs` |
| `Supervise` | one model call on the CLI: owner, supervisor, relay, process group | `MCSupervise` | `CallLedgerProofs` |
| `Matching` | passes over the backlog: candidates, reuse, batches, writes | `MCMatching` | `DailyRunProofs` |

A component that meets another is proved beside it: one proofs module extends both. The
names the two would share carry a prefix in the smaller one (`LeaseSpec`, `StreamNext`,
`SuperviseTypeOK`, `MatchInit`), and its .cfg names its specification accordingly.

Operators named after a `Mutant of X` comment are plausible bugs of `X`. No
specification uses them; each is there to show that a property can fail.

**CallLedger.** `row` is `model_calls`; `call` is the control state of a call in
`gateway.py`: *asked* (the day has been read and the write lock is awaited), *live* (the
provider is talking), *orphaned* and *closing* (its awaiter was cancelled, the worker
thread goes on). `ReserveAdmits` and `ReserveRefuses` are the one transaction of
`reserve`. `os` says who holds a pid, so that `owner_alive` can be translated branch by
branch (`SaysDead`, `SaysAlive`). A reconcile is one step for its SELECT and one per
owner. Field `asked` of a row is history: the day whose rows were counted.

**PacketClaim.** Per job, the runs whose claim counts (`leased`) and the runs that may be
writing (`working`). A claim is taken when none counts, given back by whoever works, left
behind by a run that is stopped, and lapses only when nobody works under it; a death clears
all. It has no states of a job, no kinds of run, no table, and all of it holds while `calm`.

**BuildClaims.** `claim` is the `build_runs` row of a run, `build` is
`jobs.build_state`, and `run` is where the run's coroutine is between two awaits. Each
`db.client` function is a step, as it is in the code (one event loop, one transaction).
`calm` is history: no run in progress has outlived its lease, and no second cockpit was
launched beside the first. Under `INSTANCE PacketClaim`, `Leased(j)` is the running rows of a
job within their lease, and `AtWork(j)` the runs past their claim and not yet over.

**Runtime.** `gate` is the list of semaphores ever made: `_semaphore` makes a new one
when the setting changed, and the runs of the old one keep theirs. A semaphore is its
free slots and its line; a wake-up is `TakesSlot` of the head.

**RunStream.** One run, several consumers. `pending` is the list a consumer built
before it was suspended in a send, as the set of its events: they are sent by least
number, which is the list's order because the log is in the order of the numbers
(`LogStaysInOrder`). `parked` is a registered waiter, `woken` a set one.
`Resumes` is either the wake-up or the fifteen-second timeout.

**RolePacket.** Documents are the revisions they hold. Every rename is a step, so that
an exception or the death of the process can fall between any two. The verdict of the
gate is a choice: what finds a fatal is text analysis. `docx` stands for every export of
the resume. `Release` asks for no claim, as `web/app.py` does not: it may fall into the
model calls of a refine, which decided before them where the resume is (`inQuarantine`).
`freed` is history: what the user has released. What a loop has left to do is a set, and `First` and `Last` take from it in
the code's order (`Rank`).

**PacketFiling.** `where[e]` is the set of places an entry exists in, so that a split
would be visible. The day may change under a build (`Midnight`): its entry is then covered
only if it is recorded for its job already (`Covered`), and its hold may make a stray folder
where its own was (`BuildHolds`). A build that ends by an exception of the hold records its
folder too, as `web/build.py:194-198` does. A pass is its plan and one step per rename. `application_dir` and
`locate` are operators over `where`. A task can be stopped (`Stops`), which leaves its row
unless a refine's `finally` gives it back; the row then counts until it lapses
(`LeaseLapses`); and the cockpit may die with what it has in hand (`Restart`).

**RefineLease.** `open`, `flock`, `stat`, `unlink` and `close` are steps; the lock table
is by file and not by path, as the kernel's is.

**Tracker.** `rows` holds the tracking columns of `jobs`. The cockpit serves one request
at a time (`cockpit`): `MoveLands` is the commit of a move, and the bookkeeping that
follows it (`RecordSend`, `RecordOutcome`, `Closes`) is steps of their own, any of which may
fail or be lost with the process (`CockpitDies`). `pass` is the closure pass with the rows
it read when it began; what a link or a probe says is a choice. Under `INSTANCE Lifecycle`
a row maps to the user's own state (`closed_prior_state` while parked), where automation
has parked it, whether it is kept, and whether the user insists that it is open.

**EmployerJd.** `row` holds the text, its provenance (`src`, `prior`, `pasted`), the score by
the text it is of, and `stale`. A worker has *read* something and not yet written: every
run, request and scorer of the code has that shape, and the compare-and-set of each write
is its guard. `history` records what the source and the user last said, and `torn`:
that a read and its write outside a transaction were pulled apart.

**DailyRun.** One action per step of a pass, in order; discovery, scoring, closure and
replies choose what they find, and the deadline or the budget may cut a run short. What the
digest shows is selected, then sent, then stamped kind by kind (`Stamps` in `StampOrder`),
while the user decides and dates move. A death releases the lock. `told`, `again`, `lost`
and `untold` are history.

**Supervise.** Four actors per call: the owner's coroutine (`cli`), the supervisor
(`sup`), its relay thread (`relay`) and the CLI's process group (`group`). `pipe` is who
still holds the write end of the parent-death pipe. Timeouts are steps that may happen;
a supervisor may be stalled or killed from outside (`Fault`). The owner itself kills a
supervisor that does not answer its reap (`ReapTimesOut`: *reaped*), and the library kills
one whose spawn is cancelled (`SpawnCancelled`: *dropped*); the properties tell the three
apart.

**Matching.** `job` is the jobs table; `scorer` is what a pass has read and not yet written: its candidates with
their texts, the scores it has, what is left to ask, and the fallback's budget. `Begin`,
`Plan`, `Asks` (one batch with its fallback) and `Write` are its steps; `Fails` and
`CutOff` end it early. Passes under the run lock (`"locked"`: the whole backlog, and the
daily run's re-score of the rows whose description it replaced) exclude each other; each
of `Clickers` is a pass beside them, over the rows of a click (`Clicked`) or of one kept
row (`ClickedKept`). A pass with `whole` is one that no deadline cuts, no failure ends
and the model answers. A score carries, for checking, the text and the inputs
it was computed from.

## 3. Runs

One run per module with a state of its own, and all pass. Four sentences of the repository
that the code does not keep are stated beside the properties that it does keep (section 6).

| Run | Asks | Bounds |
|---|---|---|
| `ledger` | cap, live calls keep their rows, predecessors' rows are closed | 2 processes, 2 calls, 3 rows, 2 pids, cap 1, 2 days, 3 boots, 1 lost write |
| `claims` | implements `PacketClaim` (one lock with a lease per packet), state matches rows, a recorded outcome stands, every tailor ends | 1 job, 3 runs |
| `runtime` | no overlap, slots and line, every run ends | 3 runs of 2 groups, gates of size 1 and 2, 2 gates, a registry of 1 |
| `stream` | the end is last and comes, only what was trimmed is skipped, every stream ends | 2 consumers, window 2, 4 events, 2 broken connections |
| `packet` | fail closed, no failed download, always a resume, nothing lost but a resume released under a refine | 3 revisions, 1 fault, 1 death, 1 release |
| `filing` | no folder moves under a writer the filer can recognise, only a hold past midnight splits an entry, filed in the end | 2 jobs of 2 stages, 2 days, 2 folders a day, 3 builds or refines, 2 stage moves, 1 short write |
| `lease` | one revision at a time | 3 processes, 3 attempts, 5 lock files |
| `tracker` | implements the life cycle; parked is restorable, one application, one open attempt, no double application unawares | 1 job, 1 version of the documents, 1 recruiter, 2 sends, 1 submission id, both values of `closure_auto` |
| `employer_jd` | provenance, rejected postings stay out, the score follows the text | 1 job, 2 workers, 1 link with 2 texts, 5 texts, 2 acts |
| `daily` | nothing buried, nothing told twice, everything due is told | a timer's run, one by hand, a clicked pass; 6 items of 5 kinds, windows of 1; 1 move, 1 fault, 1 skip |
| `supervise` | no child outlives its call but in the cases named, an answer is whole, a dead owner's group ends, every call ends | 1 call, 3 chunks, a pipe of 1, 2 faults |
| `matching` | a score is of its text and inputs, reposts agree, all are scored, a marked far role leaves | 3 postings of one role, 2 texts, 2 alignments, batches of 2, 1 click at a time, scoped passes over 2 sets of rows, 2 acts |

Why the bounds are enough:

* `ledger`: two callers race for one slot; two days for one that reads the first and
  inserts on the second; three boots for a process that dies, one that gets its pid and
  one that looks; three rows for a charge and two refusals. Processes, calls, rows and
  pids are interchangeable (the run has no liveness property), so it uses symmetry.
  The run has `PsReadable = TRUE`; without it the
  state space is too large, and the theorems that do not need it cover that case.
* `claims`: three runs are a writer, the one that displaces it and one that finds what
  they left. Jobs do not interact.
* `runtime`: three runs are one that works, one that waits and one that is cancelled in
  the line. Two names of one group and a keyed name are the two dedup rules. Two gates
  are an edit under running work.
* `stream`: four events through a window of two trim more than a window.
* `packet`: three revisions give an old one, one that is archived and one that lands.
* `filing`: two jobs with different stages on one folder; the second day is what
  `_todays` is about; a second folder of one day is what `application_dir` is about;
  Stops and restarts need no bound of their own, as each ends work of a bounded number;
  one stage move during a pass is a plan that is older than the stages, and a second one
  undoes it. The two statuses are those that put a folder in different places.
* `lease`: three takers are a holder, one with the old file open and one that makes a new
  file. Five files outlast every attempt.
* `tracker`: jobs meet only in a role's submissions, and a submission of another job of the
  role is one that the row itself could have logged. Two sends are an attempt and its
  retry; with one version of the documents both are of the same, which is the hard case.
  The theorems cover several jobs, roles and ids.
* `employer_jd`: two workers are any two writers torn apart; a link with two texts is a
  revised posting; `s1` and `f1` are a snippet and a full text of the source, `p1` a paste.
  Workers are symmetric (the run has no liveness property).
* `daily`: a role more than a digest shows, and one item of each kind that is stamped
  differently. Items of the two kinds that are stamped like roles (news, mail) are left to
  the theorems. One of each kind of fault is enough to have a pass die at each step.
* `supervise`: calls share nothing but their owner. Three chunks through a pipe of one put
  a chunk behind the reader, one in the pipe and one behind the relay.
* `matching`: three postings are two twins and a third behind a full batch; one of the two
  texts spoils every batch; the third posting is far away, the second's place is unknown.
  Two acts are any change of text, inputs, dream list or decision, or a click, and a second
  one that undoes it or overlaps it. A click overlaps whole passes and the daily re-score of
  named rows; both are about the first posting or about the other two (`Named`), or, for a
  kept row, about any one. Two clicks at once and other sets of rows are left to the
  theorems, which hold for any. Texts too short to be compared (`Short`) and titles the
  prefilter drops (`Dropped`) are not in the instance.

Each bound is a CONSTANT in a guard (`MaxDay`, `MaxBoots`, `MaxLost`, `MaxSeq`,
`MaxGates`, `Watched`, `MaxEvents`, `MaxDrops`, `MaxRevs`, `MaxFaults`, `MaxCrashes`,
`MaxReleases`, `MaxCopy`, `MaxWork`, `MaxChanges`, `MaxWrites`, `MaxFiles`, `MaxSends`,
`MaxIds`, `MaxActs`, `MaxDate`, `MaxMoves`, `MaxSkips`, `MaxOut`) or a set of inputs (`Named`). They stop the system, so
the runs say `CHECK_DEADLOCK FALSE`, except `lease`: a process may always try again, and a
deadlock there would be real. `PipeSize`, `MaxShown`, `BatchSize` and `FallbackJobBudget`
are the code's own limits, made small.

Each module states its types (`TypeOK`, `LeaseTypeOK`, ...), and that they hold is a theorem
or part of an invariant theorem. The inductive invariants of the proofs were checked by TLC
on the instances of these runs, or, where its states are too many, on parts of them, before
they were proved.

## 4. Fairness

Liveness is checked where it is a promise of the code, and under what its
scheduling gives:

* `BuildClaims`: `WF` of a run's own steps (every model call has a deadline,
  `llm/providers.py`) and of the clock that expires leases. Neither Stop nor a
  restart nor a click is fair.
* `Runtime`: `WF` of each task's steps: the event loop runs what is ready and work ends.
* `RunStream`: `WF` of the end of the work, of the done callback and of each consumer.
  A parked consumer is resumed by the timeout of its wait. The property does not hold
  without it (mutant `ResumesWoken`): an event that comes while a consumer is sending
  sets no waiter, so the timeout is not a mere heartbeat.
* `PacketFiling`: `WF` of a pass and of a write under the lock, `WF` of the end of builds,
  `WF` of the lapse of a stopped run's lease, which the clock brings about, `SF` of the daily
  pass and of a refine's locate: each has to find the lock free again and again, and nobody
  holds it for long. Neither a Stop nor a restart is fair.
* `DailyRun`: `WF` of a pass that advances (its steps have a deadline), `SF` of the
  timer's run taking the lock, which the others hold again and again but never for good.
  Neither the runs by hand nor the clicked passes nor any choice of a step is fair.
* `Supervise`: `WF` of the owner's loop and timers, of the supervisor and of the end of the
  relay. Nothing is assumed of the CLI, which may hang, of the supervisor's deadline, or of
  a Stop.
* `Matching`: every pass ends (`WF`: its calls do), and again and again (`SF`) a daily pass
  runs that nothing cuts short. All other passes may fail, be cut off or hear nothing. The
  assumption on constants is part of the result: a batch is larger than the number of
  postings that spoil it, and the fallback reaches a whole batch (15 and 30 in
  `scorer.py`). With more of them than a batch holds, one batch of nothing else ends the
  fallback for the run, and what shares a batch with another of them waits every day.

`CallLedger`, `RolePacket`, `RefineLease`, `Tracker` and `EmployerJd` state safety only: a
row of a dead owner is closed when some process reconciles, and nothing promises that one
does; nothing promises that the user decides.

## 5. What is proved

TLAPS proves these for every value of the constants that satisfies the modules'
assumptions, so for any number of processes, jobs, runs, days and folders. All are of the
form `Spec => []P` or `Spec => [][A]_vars`, but for three refinements: `Implementation`
(of `Lifecycle`), `ClaimsImplementPacketClaim` and `FilingImplementsPacketClaim`.

* `CallLedgerProofs`, of the ledger. `LedgerTypes`; `CapIsKept`; `BudgetNeverRefunded`;
  `ClosedRowsAreFinal`; `LiveCallsKeepTheirRows`; `PredecessorsAreClosed`. Types need that a
  call in progress belongs to a process that is up. The cap is inductive only over the rows
  that were counted on their own day (`asked`), because a row that crossed midnight is dated
  to a day it was not counted for. Live calls keep their rows, under `PsReadable`, because the
  owner recorded in a live call's row is the process that holds that pid now, so that
  `SaysDead` is false of it, whoever asks. A predecessor's row is closed or still on the
  list of the process that now has its pid (`PredecessorsListed`), and no other process can
  write a started row under a pid that is held (`PidsAreHeld`). All but
  `LiveCallsKeepTheirRows` do without `PsReadable`.
* `CallLedgerProofs`, of the CLI call. `SuperviseInvariant`, `NoChildIsLeft`,
  `AnswersAreWhole`. Each property is a chain over the four actors: an owner that is done has
  waited for its supervisor, killed it when it did not answer, had that wait cut short, or
  was cancelled while it started; a supervisor exits only with its group seen gone or with the
  code that says it could not; while the owner lives, a relay that has ended has relayed all
  (`OutputIsRelayed`), a supervisor says 0 only of such a relay, and the owner waits for it
  only after it has read to the end.
* `BuildClaimsProofs`. `WriterIsProtectedHolds`, `StateMatchesRunsHolds`,
  `ClaimsImplementPacketClaim`, `OneWriterHolds` and `OutcomeIsFinalHolds`.
  The strengthening says that a writer's own row is running, leased, of its kind and its
  job; that a job has at most one running tailor row; that a leased refine row is alone
  and its job is not tailoring; that the row of a tailoring job is the newest (what
  `reset_build_state` looks at); and that an unclaimed run is older than nothing. It
  holds while `calm` does, and nothing is assumed. With it, every step is one of the packet
  claim or a stutter (`StepImplements`): two rules of admission (`CanBuild` by the state of the
  job, `CanRefine` by rows) and four ways of closing a row are one lock. A reset is a
  stutter, because it closes a row only once its lease is over. That one run writes at a time follows from `PacketClaim` alone (`ClaimAlone`).
  `OutcomeIsFinalHolds` holds calm or not, by a smaller invariant (`Recorded`): a row is of the
  kind of its run, and a run records its end once, so that what is done stays so, and what a
  reset or a recovery has failed is rewritten by its own run only.
* `PacketFilingProofs`. `FilingTypes`, `FilingImplementsPacketClaim`,
  `NoFolderMovesUnderItsWriter` and `OnlyALateHoldSplitsAnEntry`, with midnight at any moment.
  The refinement is the other half of the argument for the reduced claim: what the filer sees
  of a claim is what `PacketClaim` says, as is what `BuildClaims` does. The invariant: a task has
  a leased row (a row may outlive its task); the entry a build writes is of a day that has
  come, and that of a refine is recorded; nobody shares the lock with a pass; and no move of
  the plan is of the entry of a task that the filer can recognise (`Covered`: today's, or
  recorded). A day that turns makes an entry lose that, never regain it, which is where the
  promise of `filing_lock.py` ends and the theorems stop.
* `RolePacketProofs`, of the documents. `PacketTypes`; `FailedAreNeverServed`: a public
  document that its report failed was freed by a release, which needs that the revision at
  work carries the report of the gate, and that what is about to land, or to be put back, is
  held by name before it does (`NamedBeforeLanding`, `NamedBeforePutBack`). `OnlyAReleasedTextIsLost`:
  a refine of a held resume finds no public one but what was released under it, so nothing
  else is where its revision lands (`RoomToLand`). `NoExportIsStale`; `AResumeIsLeft`,
  by what has been spent: with at most one failed operation the markdown is public or
  held, or in an archive whence it will be put back; `NoFailedIsDownloaded`, for undisturbed
  runs, by where each failed document stands at each step of the work (`InOrder`).
* `RolePacketProofs`, of the lease. `OneRevisionAtATime` and `LeaseGivesBack`. Whoever is
  inside has locked the file that is at the path; a file that is no longer there can be
  locked, but `stat` then sends its holder away.
* `RuntimeProofs`, of the registry. `RuntimeInvariant`, `TypesHold`, `NoOverlapHolds`,
  `SlotsConservedHolds`, `KeepsWhatIsWantedHolds` (eviction drops no run that is live or
  watched), on the assumption that no run has the name of a group (`"scoring"`). The invariant:
  a run's status says running exactly while its task is alive, which is what lets the
  registry's dedup be the exclusion; each gate's free slots and line are those of the runs
  that refer to it, through any change of the limit; what waits is in one line once.
* `RuntimeProofs`, of the streams. `LogStaysInOrder`, `StreamsEndWithTheEnd`,
  `NothingHeldIsSkipped`. The log is a window of consecutive events in order; what a
  stream has pending lies between its last event and the next number, and an event of the log
  that it has not listed is newer than all it has (`ListIsNext`); the last event of a run that
  is over is the terminal one and was not trimmed (`EndIsLogged`). Neither the
  size of the window nor the number of consumers matters.
* `TrackerProofs`. `TrackerInvariant`, `Implementation` (tracking implements `Lifecycle`),
  `Restorable`, `AppliedOnce`, `NoSendWithoutApplication`, `OneAttemptAtATime`,
  `NoUnawareDouble`. The step cases are by writer: a move, its bookkeeping, a write of the
  pass. The argument for the pass is that none of its writes relies on what it read of the
  row: each is guarded on the pin, the stage and the stamp in the statement itself,
  so that it maps to `Parks`, `Unparks` or a stutter whatever happened in between.
* `EmployerJdProofs`. `DescriptionInvariant`, `TypesHold`, `ProvenanceHolds`,
  `RejectedHolds`, `ScoreFollowsTextHolds`. The invariant is one of each row (`RowOK`);
  a step writes at most one row, and of what a worker has read only the types are needed,
  because each write looks again at what it read.
* `DailyRunProofs`, of the run and its digest. `DailyInvariant`, `TypesHold`, `NothingBuriedHolds`,
  `SkipsAreToldHolds` (no skipped run goes unmentioned), `AnnouncedOnceHolds`. The
  invariant has three parts: at most one pass runs, and it is the one that holds the lock;
  what each item's stamp stands for; and what the runner has in hand before the digest,
  while it is sent, and while its stamps are written.
* `DailyRunProofs`, of the scores. `MatchInvariant`, `ScoresAreTrue`,
  `ARepostIsNotJudgedAgain`. A score is true because the compare-and-set of `Lands` is on the
  text the pass read, and what it has got is of that text and of its own stamp (`GotOK`); a
  replay restamps a score only if its inputs were the same. That twins agree is not
  inductive by itself: of what a pass holds, each key was either replayed for all of its
  postings or is asked about for the first only (`GotOK`), and each score of the table that
  the pass could contradict has been replayed in it (`StoredOK`). The table does not grow
  such scores behind a pass' back: the other steps give none that count (`NoneCounted`) -
  the score of any of the clicks is marked `redone`, and an arriving or edited text has no score or a
  `misplaced` one. Hence two postings written by one pass got one result, and one
  written beside one that stays got the same value. The type invariant needs
  `FirstAreFew` (a batch and the fallback's tries are as many as they may be).

Every safety property that a run checks is a theorem here. `BudgetNeverRefunded`,
`ClosedRowsAreFinal`, `WriterIsProtectedHolds`, `LeaseGivesBack`, `NoExportIsStale`,
`KeepsWhatIsWantedHolds`, `LogStaysInOrder`, `NoSendWithoutApplication`, `SkipsAreToldHolds`,
`OneWriterHolds`, `FilingImplementsPacketClaim` and the type and invariant theorems state what
no run checks: the proof says it for every instance.

One theorem needs an assumption on the environment, a constant of the module that the run
sets as the theorem does: `PsReadable` (`LiveCallsKeepTheirRows`).

Only model-checked: the liveness properties `TailoringEnds`, `EveryRunEnds`,
`EveryStreamEnds`, `FiledInTheEnd`, `DueIsTold`, `OwnerGoneEndsTheGroup`, `EveryCallEnds`,
`ScoredInTheEnd` and `FlaggedRolesLeave`. Liveness under fairness needs `ENABLED`, which is out of
the prover's reach.

## 6. What the models showed

Where the code does not keep what the repository says of it. Each sentence is a definition of
its module (in brackets), which TLC refutes when it is named in place of its weaker sibling
in the .cfg of the run:

* *Filing at midnight* (`StreamingIsCovered`, run `filing`). A build's folder is
  protected as *today's* until the build is recorded, at its end (`core/packet_filing.py:297`):
  the filer may rename it under a build that has crossed midnight, against
  `core/filing_lock.py:11`. `WriterKeepsItsFolder` speaks of entries that are today's or
  recorded. The hold of such a build makes the folder once more where it was, so that the
  entry is split (the exception of `OnlyALateHoldSplits`).
* *Release during a revision* (`NothingLost`, run `packet`). A refine decides where the
  resume is before its model calls. A Release meanwhile makes `publish` rotate nothing and
  write over the released resume (`core/refine_files.py:170`), against `:11`, "PARKED, never
  deleted". `OnlyReleasedIsLost` says that this is the only such text.
* *A call cancelled while its supervisor starts* (`CancelledSpawnIsNoticed`, run
  `supervise`). `docs/how-it-works/llm.md:256` says this closes the pipe, which the
  supervisor reads as the owner dying; asyncio closes the transport of a cancelled spawn, which
  kills the supervisor (`llm/gateway.py:471`), and a CLI it had already started is left
  behind. `NoChildOutlivesItsCall` names the case.
* *A mark written early* (`FarRolesLeave`, run `matching`). A pass writes `dream_far` when it
  begins (`matching/pipeline.py:290`) and the review state when it ends, and a click does not
  wait for it. With the dream list edited between the two, the later clears the mark and the
  earlier surfaces the role: no daily pass revisits it, against
  `docs/how-it-works/matching.md:52`, "a role that lost the exception is rejected again".
  `FlaggedRolesLeave` speaks of roles that have the mark.

Where the two differ at a place that the models exclude, except or allow:

* *Budget at midnight.* `reserve` reads the day before it waits for the write lock and the
  time inside the transaction (`llm/ledger.py:175`): a call that waits over midnight is
  counted against yesterday and dated today. `CapHolds` speaks of the rows that were counted
  on their own day.
* *Leases.* A lease is written once and never renewed (`db/client.py:576`), and a build or a
  refine may make model calls for longer. Past it, a reset or a claim admits a second
  writer. `PacketClaim` and `OneWriter` speak of runs within their lease (`calm`).
* *The limit of runs.* After an edit of `cockpit_concurrency` a new semaphore knows nothing
  of the runs that hold slots of the old one (`web/runtime.py:172`). `SlotsConserved` is
  of each gate.
* *Manual links.* `_apply` and `_drop_link` are guarded on `posting_check_manual=0` only
  (`core/closure.py:302`, `:400`), so a manual link the user pastes while a pass
  awaits the network gets its row a verdict and may be erased, against
  `docs/how-it-works/same-role.md:117`, "Closure never probes it, never links over it, and
  never changes that row's verdict".
* *The sweep to filled.* `core/closure.py:20` says that every automated write is guarded on
  `posting_check_manual=0`; `sweep_filled` (`:193`) is not. It asks for a
  closed verdict, so `Lifecycle` holds: who insists that a posting is open has pinned
  it open.
* *Submission ids.* `recruiter_submissions` reuses the id of a deleted row
  (`db/schema.py:759`), and an acknowledgement hashes ids (`core/submissions.py:169`): a stale
  page can acknowledge a submission it never showed, against
  `docs/how-it-works/same-role.md:95`.
* *Archived rows and the employer's text.* A run decides by the rows it listed at its start
  and takes its snapshot at a row's turn: a row archived in between is still looked up and
  adopted, against `docs/how-it-works/employer-data.md:14`, "Archived rows never qualify."
* *Scores of another text.* Unkeep of a stale row, Unarchive, a refresh by the source of a
  kept row, and an undo on an archived row leave a score of another text unflagged, against
  `docs/how-it-works/employer-data.md:64`. `ScoreFollowsText` speaks of the other writes.
* *Replayed scores of a decided row.* `load_prior_scores` (`matching/pipeline.py:132`) does
  not leave out a kept or archived row whose text changed under its score: an undecided
  twin with the same employer, title and new text gets the old text's score replayed. Only
  the row itself is protected from it (`matching/rescore.py:155`), though
  `docs/how-it-works/matching.md` says "so the new text must not meet the old score". (The
  `misplaced` exception of `ScoreIsTrue`.)
* *Free replays.* "A scored row replays its score for free" (`matching/pipeline.py:235`) is not
  so for a far role of the dream list whose score has an old fingerprint or whose text is
  too short to be compared: the daily pass asks the model about it every day.
* *Recorded, then not told.* `scan_replies` records a reply before the digest is sent
  (`discovery/replies.py:430`), and the closures a pass kept are in memory only
  (`core/closure.py:307`): a failed send or a death drops them from every later digest,
  against `docs/how-it-works/daily.md`, "Delivery is at-least-once, by design." (The `lost`
  exception of `NothingBuried`.)
* *Dry runs of closure.* With `closure_auto` off, or for a job applied to, a dry run
  saves the verdict, so the real run does not announce it, against
  `docs/how-it-works/daily.md:31`, "the next real run announces everything the dry run
  printed."

Seen while modelling:

* A release of the user is undone by a refine that follows a failing one
  (`core/refine.py:569`); a letter he has released is held again when the next
  refine fails for the resume (`core/packet_verify.py:375` against `:358`).
* `upsert_job` and `set_pasted_jd` read a row and write it outside a transaction
  (`db/client.py:225`, `:392`), so a paste or an adoption in between is overwritten; that
  is the `torn` exception of `Provenance`. `revert_employer_jd` reads the review state the
  same way, and can clear a kept row's score.
* A click's pass may overlap a whole pass, and each judge one of two twins (`redone` in
  `TwinsAgree`). A company
  that returns to the dream list does not bring back a role that was reset meanwhile.
  A paste on a kept row sets no `score_stale`, so nothing records that its re-score failed.
* After the group's leader is reaped and the group is empty, its id could be reused before
  it is signalled (`llm/supervise.py`); the model has no ids. A supervisor that stalls is
  the only way `REAP_SECONDS` runs out.
* A `model_calls` owner whose start time could not be read is judged by the oldest row
  it has (`MIN(started_at)`, `llm/ledger.py:281`). One row leaked more than a day ago
  makes another process abandon a live call of that owner.
* A build whose expired row was failed by a reset still turns that row into `done` at its
  end: `finish_build` goes by run id alone (`db/client.py:645`; the exception of
  `OutcomeIsFinal`).
* `blastjob-web` typed while the service runs recovers stale builds before it fails to
  bind the port (`web/launch.py:79`), and so fails the live builds of the other cockpit.
  (`SecondLaunch`; it ends `calm`.)
* A Stop between a refine's claim and its `try` (`web/refine.py:179`) leaves the row
  until its 90-minute lease or a restart. A stopped tailor leaves its job `tailoring`
  (`web/build.py:193` catches `Exception`, and a cancellation is none); `TailoringEnds`
  excepts it.
* A resume that failed its gate, but could not be moved to quarantine, is archived in the
  public folder by the next refine (`core/refine_files.py:157` against `:148`).
  `NoFailedDownload` therefore speaks of undisturbed runs; `FailClosed` of all.
* A death between rotation and publishing (`core/refine_files.py:161` and `:175`) leaves
  the role without a resume under its own name.
* A re-tailor that passes leaves the documents of the failed build in quarantine, and a
  Release cannot be recorded against its report (`ReleaseUndone`).
* If removing the lock file raises, `os.close` is skipped and the process keeps the lock
  (`core/refine_files.py:81`). `RefineLease` has no failing unlink.
* A thread that waits in `flock` uses a descriptor that the cancelled task closes
  (`core/filing_lock.py:61`); the kernel's descriptor table is below these models.

## 7. Simplifications, and what is not modelled

* Tokens, cost, durations and the kind of a closed call; wording, prompts; the number of a
  score beside its band.
* The checks of a packet (`core/prose_check.py`, `core/resume_format.py`,
  `core/cover_letter_score.py`, ...): their verdict is a choice of `Gate`.
* A database error inside `release_refine`; in `PacketFiling`, the lapse of a lease whose run
  is still at work (`BuildClaims` models it, and ends `calm`); symlinked entries and the document renames of
  `core/packet_renames.py`; sidecar files other than the report.
* Of tracking: same-role merges, notes, follow-up dates, channels, the deletion of an event,
  the stage a mail reply suggests; of artifacts, the copies themselves.
* Of employer descriptions: which sites are asked and what makes two postings the same
  (choices), and how a page is read.
* Of the daily run: the steps that tell nothing (backup, copies, filing, lookups), the dream
  list with its pace stamps, blocks that are told but not stamped, PAUSE and the commands
  of `daily_tools.py`.
* Of the CLI call: what goes to its stdin (`_pump_in`), the SDK clients and their closing,
  deadline scopes.
* Of matching: pay, inferred or posted, and its own compare-and-set; excluded companies; an
  unset profile (no call is made).
* Feeds, IMAP, document formats, templates, schema and its migrations, setup: I/O,
  parsing and layout. `PROJECT.json` lists every component with its reason.

## 8. Plan

Done: the core (ledger, claims, registry, streams, packet, filing, lease), the tracker with
its abstract life cycle, the employer's descriptions, the daily run, the supervised call,
matching; every safety property of the runs proved; the packet claim as an abstract
specification that both the claims and their reduced form implement. What is left, in order:

1. More abstract specifications with refinements proved step by step: of a day's budget
   (`CallLedger`), of one lock that a death frees (`RefineLease`, `DailyRun`), of ordered
   delivery (`RunStream`).
2. Composition with `RolePacket`: that the one worker it has is what `PacketClaim` promises.
3. `Algorithms`: the clustering of same roles, pacing, retry ages and the arithmetic of the
   text checks as operators checked against reference definitions over small inputs.
4. Mail: what is processed once although a run fails between a message and its mark.
5. The document renames of a filing pass, as an extension of `PacketFiling`.
