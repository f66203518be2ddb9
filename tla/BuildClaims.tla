---------------------------- MODULE BuildClaims ----------------------------
(***************************************************************************)
(* Who may write a job's packet: the claims of db/client.py, and the runs  *)
(* of web/build.py (tailor) and web/refine.py (revise) that take them.     *)
(*                                                                         *)
(* A claim is a `running` row of build_runs with a lease; a tailor also    *)
(* moves jobs.build_state.  The cockpit is one event loop, so each         *)
(* db.client call is one step; runs interleave at their awaits, are        *)
(* stopped there, outlive their lease there, and all die with a restart.   *)
(***************************************************************************)
EXTENDS Naturals, FiniteSets

CONSTANTS
  Jobs,
  Runs          \* ids of cockpit runs; an id is never used twice

VARIABLES
  build,   \* jobs.build_state
  claim,   \* the build_runs row of each run
  run,     \* control state of each run
  calm     \* history: no run has outlived its lease (20 minutes, 90 for a refine), and
           \* no cockpit was launched beside another

vars == <<build, claim, run, calm>>

-----------------------------------------------------------------------------

BuildState == {"none", "tailoring", "tailored", "failed"}
NoRow == [st |-> "absent"]
NewRun == [pc |-> "unused"]

\* `older` stands for the row id: the job's running rows that were there before it.
ClaimState ==
  {NoRow} \cup [st : {"running", "done", "failed"}, kind : {"tailor", "refine"},
                job : Jobs, leased : BOOLEAN, older : SUBSET Runs]

\* queued: before the claim (it may wait for a model slot).  building, recording: a
\* tailor's run_build, then its wait for the filing lock before finish_build.
\* claimed, revising: a refine's wait for the filing lock, then its run_refine.
RunState ==
  {NewRun}
    \cup [pc : {"queued"}, kind : {"tailor", "refine"}, job : Jobs]
    \cup [pc : {"building", "claimed", "revising", "over"}, job : Jobs]
    \cup [pc : {"recording"}, job : Jobs, ok : BOOLEAN]

RowsTyped ==
  /\ build \in [Jobs -> BuildState]
  /\ claim \in [Runs -> ClaimState]
  /\ run \in [Runs -> RunState]

TypeOK == RowsTyped /\ calm \in BOOLEAN

Init ==
  /\ build = [j \in Jobs |-> "none"]
  /\ claim = [r \in Runs |-> NoRow]
  /\ run = [r \in Runs |-> NewRun]
  /\ calm = TRUE

Running(r) == claim[r].st = "running"
RefineHolds(j) ==
  \E r \in Runs : Running(r) /\ claim[r].kind = "refine" /\ claim[r].job = j /\ claim[r].leased

InProgress(r) == run[r].pc \notin {"unused", "over"}
Over(r) == [run EXCEPT ![r] = [pc |-> "over", job |-> run[r].job]]
Claimed(r, kind) ==
  [claim EXCEPT ![r] =
     [st |-> "running", kind |-> kind, job |-> run[r].job, leased |-> TRUE,
      older |-> {s \in Runs : Running(s) /\ claim[s].job = run[r].job}]]

-----------------------------------------------------------------------------
(* The cockpit's clicks *)

\* Tailor, or Revise: a run is started; nothing is claimed until it gets a slot.
Start(r, j, kind) ==
  /\ run[r].pc = "unused"
  /\ run' = [run EXCEPT ![r] = [pc |-> "queued", kind |-> kind, job |-> j]]
  /\ UNCHANGED <<build, claim>>

\* The running row of j that reset_build_state looks at: the newest.
Newest(j, r) ==
  /\ Running(r) /\ claim[r].job = j
  /\ \A s \in Runs : Running(s) /\ claim[s].job = j => r \notin claim[s].older

\* The state may change: it is final, or tailoring with no run in lease behind it.
Resettable(j) ==
  \/ build[j] \in {"tailored", "failed"}
  \/ build[j] = "tailoring" /\ \A r \in Runs : Newest(j, r) => ~claim[r].leased

\* reset_build_state: back to none; the expired row behind a tailoring is failed.
ResetBuild(j) ==
  /\ Resettable(j)
  /\ claim' = [r \in Runs |->
       IF build[j] = "tailoring" /\ Newest(j, r)
       THEN [claim[r] EXCEPT !.st = "failed"] ELSE claim[r]]
  /\ build' = [build EXCEPT ![j] = "none"]

\* Unkeep, once the stage move is made.
Unkeep(j) == ResetBuild(j) /\ UNCHANGED run

\* Re-tailor: reset, then a tailor run whatever the reset answered.
Retailor(r, j) ==
  /\ run[r].pc = "unused"
  /\ ResetBuild(j) \/ (~Resettable(j) /\ UNCHANGED <<build, claim>>)
  /\ run' = [run EXCEPT ![r] = [pc |-> "queued", kind |-> "tailor", job |-> j]]

-----------------------------------------------------------------------------
(* A tailor run *)

CanBuild(j) == build[j] \in {"none", "failed"} /\ ~RefineHolds(j)

\* claim_for_build: the state and the row change in one transaction.
TailorClaims(r) ==
  /\ run[r].pc = "queued" /\ run[r].kind = "tailor"
  /\ CanBuild(run[r].job)
  /\ build' = [build EXCEPT ![run[r].job] = "tailoring"]
  /\ claim' = Claimed(r, "tailor")
  /\ run' = [run EXCEPT ![r] = [pc |-> "building", job |-> run[r].job]]

\* Refused: the job is held, has only a snippet, or the row could not be written.
TailorRefused(r) ==
  /\ run[r].pc = "queued" /\ run[r].kind = "tailor"
  /\ run' = Over(r)
  /\ UNCHANGED <<build, claim>>

\* run_build returns, or raises: the outcome is noted and the filing lock awaited.
TailorBuilt(r) ==
  /\ run[r].pc = "building"
  /\ \E ok \in BOOLEAN :
       run' = [run EXCEPT ![r] = [pc |-> "recording", job |-> run[r].job, ok |-> ok]]
  /\ UNCHANGED <<build, claim>>

\* Mutant of TailorFinishes: the job is not updated.
TailorFinishesRowOnly(r) ==
  /\ run[r].pc = "recording"
  /\ claim[r].st # "absent"
  /\ claim' = [claim EXCEPT ![r].st = IF run[r].ok THEN "done" ELSE "failed"]
  /\ run' = Over(r)
  /\ UNCHANGED build

\* finish_build: by run id alone, whatever became of the row and of the job.
TailorFinishes(r) ==
  /\ run[r].pc = "recording"
  /\ claim[r].st # "absent"
  /\ claim' = [claim EXCEPT ![r].st = IF run[r].ok THEN "done" ELSE "failed"]
  /\ build' = [build EXCEPT ![run[r].job] = IF run[r].ok THEN "tailored" ELSE "failed"]
  /\ run' = Over(r)

-----------------------------------------------------------------------------
(* A refine run *)

\* Mutant of CanRefine: only another refine is in the way.
CanRefineWhileTailoring(j) == ~RefineHolds(j)

CanRefine(j) == build[j] # "tailoring" /\ ~RefineHolds(j)

\* claim_for_refine, then the folder is located again under the filing lock.
RefineClaims(r) ==
  /\ run[r].pc = "queued" /\ run[r].kind = "refine"
  /\ CanRefine(run[r].job)
  /\ claim' = Claimed(r, "refine")
  /\ run' = [run EXCEPT ![r] = [pc |-> "claimed", job |-> run[r].job]]
  /\ UNCHANGED build

\* Refused: no packet folder, no such job, or the job is held.
RefineRefused(r) ==
  /\ run[r].pc = "queued" /\ run[r].kind = "refine"
  /\ run' = Over(r)
  /\ UNCHANGED <<build, claim>>

RefineLocates(r) ==
  /\ run[r].pc = "claimed"
  /\ run' = [run EXCEPT ![r] = [pc |-> "revising", job |-> run[r].job]]
  /\ UNCHANGED <<build, claim>>

\* run_refine returns or raises: release_refine, in the finally block.
RefineReleases(r) ==
  /\ run[r].pc = "revising"
  /\ claim' = [claim EXCEPT ![r] = NoRow]
  /\ run' = Over(r)
  /\ UNCHANGED build

-----------------------------------------------------------------------------
(* Stop, leases and restarts *)

\* Stop cancels the task at its await.  Only the finally block of a revision under
\* way writes anything: CancelledError is no Exception, so a tailor records nothing,
\* and a refine's claim is taken before its try block.
Stop(r) ==
  /\ InProgress(r)
  /\ claim' = IF run[r].pc = "revising" THEN [claim EXCEPT ![r] = NoRow] ELSE claim
  /\ run' = Over(r)
  /\ UNCHANGED build

\* Time passes: the lease is written once and never renewed.
LeaseExpires(r) ==
  /\ Running(r) /\ claim[r].leased
  /\ claim' = [claim EXCEPT ![r].leased = FALSE]
  /\ calm' = (calm /\ ~InProgress(r))
  /\ UNCHANGED <<build, run>>

\* Mutant of Recovered: the jobs of the failed rows keep their state.
RecoveredRowsOnly ==
  /\ claim' = [r \in Runs |->
       IF ~Running(r) THEN claim[r]
       ELSE IF claim[r].kind = "refine" THEN NoRow
       ELSE [claim[r] EXCEPT !.st = "failed"]]
  /\ UNCHANGED build

\* Mutant of Recovered: any tailor row of the jobs that are tailoring is failed.
RecoveredWholeJobs ==
  /\ claim' = [r \in Runs |->
       IF claim[r].st = "absent" THEN NoRow
       ELSE IF claim[r].kind = "refine" THEN (IF Running(r) THEN NoRow ELSE claim[r])
       ELSE IF build[claim[r].job] = "tailoring" THEN [claim[r] EXCEPT !.st = "failed"]
       ELSE claim[r]]
  /\ build' = [j \in Jobs |-> IF build[j] = "tailoring" THEN "failed" ELSE build[j]]

\* recover_stale_builds, at a launch: every running row is of another process.
Recovered ==
  /\ claim' = [r \in Runs |->
       IF ~Running(r) THEN claim[r]
       ELSE IF claim[r].kind = "refine" THEN NoRow
       ELSE [claim[r] EXCEPT !.st = "failed"]]
  /\ build' = [j \in Jobs |->
       IF /\ build[j] = "tailoring"
          /\ \E r \in Runs : Running(r) /\ claim[r].kind = "tailor" /\ claim[r].job = j
       THEN "failed" ELSE build[j]]

\* The cockpit dies, its runs with it, and launchd starts it again.
Restart ==
  /\ Recovered
  /\ run' = [r \in Runs |-> IF InProgress(r) THEN [pc |-> "over", job |-> run[r].job]
                            ELSE run[r]]

\* `blastjob-web` is started by hand while the service runs: it recovers before it
\* tries to bind the port.
SecondLaunch ==
  /\ Recovered
  /\ calm' = FALSE
  /\ UNCHANGED run

-----------------------------------------------------------------------------

Advances(r) ==
  \/ TailorClaims(r) \/ TailorRefused(r) \/ TailorBuilt(r) \/ TailorFinishes(r)
  \/ RefineClaims(r) \/ RefineRefused(r) \/ RefineLocates(r) \/ RefineReleases(r)

Calmly ==
  \/ \E r \in Runs, j \in Jobs, kind \in {"tailor", "refine"} : Start(r, j, kind)
  \/ \E r \in Runs, j \in Jobs : Retailor(r, j)
  \/ \E j \in Jobs : Unkeep(j)
  \/ \E r \in Runs : Advances(r) \/ Stop(r)
  \/ Restart

Next ==
  \/ Calmly /\ UNCHANGED calm
  \/ \E r \in Runs : LeaseExpires(r)
  \/ SecondLaunch

Spec == Init /\ [][Next]_vars

\* Every model call has a deadline, so a run's task always moves on, and time passes.
Fairness == \A r \in Runs : WF_vars(Advances(r) /\ UNCHANGED calm) /\ WF_vars(LeaseExpires(r))

FairSpec == Spec /\ Fairness

-----------------------------------------------------------------------------
(* Properties *)

\* A run that may be writing the packet of its job.
Writing(r) == run[r].pc \in {"building", "recording", "claimed", "revising"}

\* "A job is never double-tailored" (db/client.py:572-573), and a tailor and a refine
\* exclude each other (claim_for_refine): one writer of a packet at a time.
NeverTwoWriters ==
  \A r, s \in Runs : Writing(r) /\ Writing(s) /\ run[r].job = run[s].job => r = s

\* One writer of a packet at a time, as long as leases outlive their runs and no second
\* cockpit is launched (the next three as well).
OneWriter == calm => NeverTwoWriters

\* The filer and the next claim see the writer: its row is running and leased as long
\* as it may write (web/build.py: "the claim's running build_runs row makes the filer
\* skip this job's entries").
WriterIsProtected ==
  calm => \A r \in Runs : Writing(r) => Running(r) /\ claim[r].leased /\ claim[r].job = run[r].job

\* The job's state and the runs table tell one story: tailoring is a running tailor.
StateMatchesRuns ==
  calm => \A j \in Jobs :
            build[j] = "tailoring" <=>
              \E r \in Runs : Running(r) /\ claim[r].kind = "tailor" /\ claim[r].job = j

\* The record of attempts (build_runs) stands, leases outlived and second launches
\* included: what is done stays so, whatever is reset, recovered or claimed later, and
\* what a reset or a recovery has failed changes only when that very run, which was alive
\* after all, records its own end (finish_build goes by run id alone).
Attempted(r, outcome) == claim[r].st = outcome /\ claim[r].kind = "tailor"

OutcomeIsFinal ==
  [][\A r \in Runs :
       /\ Attempted(r, "done") => claim'[r] = claim[r]
       /\ Attempted(r, "failed") => claim'[r] = claim[r] \/ TailorFinishes(r)]_vars

\* The claims implement PacketClaim, whatever is clicked, stopped, lapses or dies: the
\* state of the job, its tailor rows and its refine rows are one lock with a lease.
Leased(j) == {r \in Runs : Running(r) /\ claim[r].leased /\ claim[r].job = j}
AtWork(j) == {r \in Runs : Writing(r) /\ run[r].job = j}

Claims ==
  INSTANCE PacketClaim WITH
    leased <- [j \in Jobs |-> Leased(j)],
    working <- [j \in Jobs |-> AtWork(j)]

ImplementsPacketClaim == Claims!CSpec

Stopped(j) == \E r \in Runs : Running(r) /\ claim[r].kind = "tailor" /\ claim[r].job = j /\ run[r].pc = "over"

\* A crash never leaves a job stuck in `tailoring` (recover_stale_builds), nor does any
\* expiry, reset or second launch: it gets an outcome, unless its run was stopped by hand.
TailoringEnds == \A j \in Jobs : build[j] = "tailoring" ~> build[j] # "tailoring" \/ Stopped(j)
=============================================================================
