------------------------- MODULE BuildClaimsProofs -------------------------
(***************************************************************************)
(* What the claims guarantee for any number of jobs and runs, as long as   *)
(* no run outlives its lease and no second cockpit is launched.            *)
(***************************************************************************)
EXTENDS BuildClaims, TLAPS

Kind(r) == IF run[r].pc \in {"building", "recording"} THEN "tailor" ELSE "refine"

\* A writer's own row is running, in lease, and of the writer's kind and job.
OwnRow ==
  \A r \in Runs : Writing(r) =>
    /\ Running(r) /\ claim[r].leased
    /\ claim[r].job = run[r].job /\ claim[r].kind = Kind(r)

\* A job is tailoring exactly when one of its tailor rows is running.
Matches ==
  \A j \in Jobs :
    build[j] = "tailoring" <=>
      \E r \in Runs : Running(r) /\ claim[r].kind = "tailor" /\ claim[r].job = j

\* A job has at most one running tailor row.
TailorRows ==
  /\ Matches
  /\ \A r, s \in Runs :
       /\ Running(r) /\ claim[r].kind = "tailor"
       /\ Running(s) /\ claim[s].kind = "tailor"
       /\ claim[r].job = claim[s].job
       => r = s

\* A leased refine row is alone, and its job is not tailoring.
RefineRows ==
  \A r \in Runs : Running(r) /\ claim[r].kind = "refine" /\ claim[r].leased =>
    /\ build[claim[r].job] # "tailoring"
    /\ \A s \in Runs : /\ Running(s) /\ claim[s].kind = "refine" /\ claim[s].leased
                       /\ claim[s].job = claim[r].job
                       => r = s

\* The row behind a tailoring job is the newest running row of that job.
TailorIsNewest ==
  \A r, s \in Runs :
    /\ Running(r) /\ claim[r].kind = "tailor"
    /\ Running(s) /\ claim[s].job = claim[r].job
    => r \notin claim[s].older

\* A run that has not claimed has no row, and is older than nothing.
Unclaimed ==
  \A r \in Runs : run[r].pc \in {"unused", "queued"} =>
    /\ claim[r] = NoRow
    /\ \A s \in Runs : claim[s].st # "absent" => r \notin claim[s].older

IInv == RowsTyped /\ OwnRow /\ TailorRows /\ RefineRows /\ TailorIsNewest /\ Unclaimed

-----------------------------------------------------------------------------

LEMMA InitIInv == Init => IInv
BY DEF Init, IInv, RowsTyped, OwnRow, TailorRows, Matches, RefineRows, TailorIsNewest,
       Unclaimed, Writing, Running, NoRow, NewRun, BuildState, ClaimState, RunState

\* What the rest of the proof uses of the types of rows and runs.
LEMMA Types ==
  ASSUME RowsTyped, NEW r \in Runs
  PROVE  /\ Running(r) => /\ claim[r].kind \in {"tailor", "refine"}
                          /\ claim[r].job \in Jobs
                          /\ claim[r].leased \in BOOLEAN
         /\ run[r].pc # "unused" => run[r].job \in Jobs
         /\ run[r].pc = "queued" => run[r].kind \in {"tailor", "refine"}
         /\ run[r].pc = "recording" => run[r].ok \in BOOLEAN
BY DEF RowsTyped, ClaimState, RunState, Running, NoRow, NewRun

-----------------------------------------------------------------------------
(* Steps that only move a run *)

\* A step that changes no claim and no job, and makes no run a writer or unclaimed
\* that was not, keeps the invariant.
LEMMA RunsOnly ==
  ASSUME IInv, UNCHANGED <<build, claim>>, run' \in [Runs -> RunState],
         \A r \in Runs :
           /\ Writing(r)' => Writing(r) /\ run'[r].job = run[r].job /\ Kind(r)' = Kind(r)
           /\ run'[r].pc \in {"unused", "queued"} => run[r].pc \in {"unused", "queued"}
  PROVE  IInv'
<1>1. RowsTyped' BY DEF IInv, RowsTyped
<1>2. OwnRow' BY DEF IInv, OwnRow, Running
<1>3. TailorRows' BY DEF IInv, TailorRows, Matches, Running
<1>4. RefineRows' BY DEF IInv, RefineRows, Running
<1>5. TailorIsNewest' BY DEF IInv, TailorIsNewest, Running
<1>6. Unclaimed' BY DEF IInv, Unclaimed
<1> QED BY <1>1, <1>2, <1>3, <1>4, <1>5, <1>6 DEF IInv

LEMMA StartKeeps ==
  ASSUME IInv, NEW r \in Runs, NEW j \in Jobs, NEW kind \in {"tailor", "refine"},
         Start(r, j, kind)
  PROVE  IInv'
<1>1. run' \in [Runs -> RunState] BY DEF IInv, RowsTyped, Start, RunState
<1>2. \A s \in Runs \ {r} : run'[s] = run[s] BY DEF IInv, RowsTyped, Start
<1>3. run[r].pc = "unused" /\ run'[r].pc = "queued" BY DEF IInv, RowsTyped, Start
<1> QED BY <1>1, <1>2, <1>3, RunsOnly DEF Start, Writing, Kind

\* A run that is over wrote nothing that the invariant still speaks of.
LEMMA OverKeepsTypes ==
  ASSUME RowsTyped, NEW r \in Runs, run[r].pc # "unused"
  PROVE  /\ Over(r) \in [Runs -> RunState]
         /\ Over(r)[r].pc = "over"
         /\ \A s \in Runs \ {r} : Over(r)[s] = run[s]
<1>1. run[r].job \in Jobs BY Types
<1>2. [pc |-> "over", job |-> run[r].job] \in RunState BY <1>1 DEF RunState
<1> QED BY <1>2 DEF RowsTyped, Over

LEMMA RefusedKeeps ==
  ASSUME IInv, NEW r \in Runs, TailorRefused(r) \/ RefineRefused(r)
  PROVE  IInv'
<1>1. RowsTyped /\ run[r].pc = "queued" /\ run' = Over(r) /\ UNCHANGED <<build, claim>>
  BY DEF IInv, TailorRefused, RefineRefused
<1>2. /\ run' \in [Runs -> RunState] /\ run'[r].pc = "over"
      /\ \A s \in Runs \ {r} : run'[s] = run[s]
  BY <1>1, OverKeepsTypes
<1> QED BY <1>1, <1>2, RunsOnly DEF Writing, Kind

LEMMA BuiltKeeps ==
  ASSUME IInv, NEW r \in Runs, TailorBuilt(r)
  PROVE  IInv'
<1>1. PICK ok \in BOOLEAN :
        run' = [run EXCEPT ![r] = [pc |-> "recording", job |-> run[r].job, ok |-> ok]]
  BY DEF TailorBuilt
<1>2. run[r].pc = "building" /\ run[r].job \in Jobs BY Types DEF IInv, TailorBuilt
<1>3. [pc |-> "recording", job |-> run[r].job, ok |-> ok] \in RunState BY <1>2 DEF RunState
<1>4. /\ run' \in [Runs -> RunState]
      /\ run'[r] = [pc |-> "recording", job |-> run[r].job, ok |-> ok]
      /\ \A s \in Runs \ {r} : run'[s] = run[s]
  BY <1>1, <1>3 DEF IInv, RowsTyped
<1> QED BY <1>2, <1>4, RunsOnly DEF TailorBuilt, Writing, Kind

LEMMA LocatesKeeps ==
  ASSUME IInv, NEW r \in Runs, RefineLocates(r)
  PROVE  IInv'
<1>1. run[r].pc = "claimed" /\ run[r].job \in Jobs BY Types DEF IInv, RefineLocates
<1>2. [pc |-> "revising", job |-> run[r].job] \in RunState BY <1>1 DEF RunState
<1>3. /\ run' \in [Runs -> RunState]
      /\ run'[r] = [pc |-> "revising", job |-> run[r].job]
      /\ \A s \in Runs \ {r} : run'[s] = run[s]
  BY <1>2 DEF IInv, RowsTyped, RefineLocates
<1> QED BY <1>1, <1>3, RunsOnly DEF RefineLocates, Writing, Kind

-----------------------------------------------------------------------------
(* Claims *)

\* What a claim writes: the row of r alone.
LEMMA ClaimedRow ==
  ASSUME RowsTyped, NEW r \in Runs, NEW kind \in {"tailor", "refine"}, run[r].pc = "queued",
         claim' = Claimed(r, kind)
  PROVE  /\ claim' \in [Runs -> ClaimState]
         /\ claim'[r].st = "running" /\ claim'[r].kind = kind /\ claim'[r].leased
         /\ claim'[r].job = run[r].job
         /\ claim'[r].older = {s \in Runs : Running(s) /\ claim[s].job = run[r].job}
         /\ \A s \in Runs \ {r} : claim'[s] = claim[s]
<1> DEFINE Row == [st |-> "running", kind |-> kind, job |-> run[r].job, leased |-> TRUE,
                   older |-> {s \in Runs : Running(s) /\ claim[s].job = run[r].job}]
<1>1. run[r].job \in Jobs BY Types
<1>2. Row \in ClaimState BY <1>1 DEF ClaimState
<1>3. claim' = [claim EXCEPT ![r] = Row] BY DEF Claimed
<1> HIDE DEF Row
<1>4. claim' \in [Runs -> ClaimState] /\ claim'[r] = Row /\ \A s \in Runs \ {r} : claim'[s] = claim[s]
  BY <1>2, <1>3 DEF RowsTyped
<1> QED BY <1>4 DEF Row

LEMMA TailorClaimsKeeps ==
  ASSUME IInv, NEW r \in Runs, TailorClaims(r)
  PROVE  IInv'
<1> DEFINE j == run[r].job
<1>1. run[r].pc = "queued" /\ CanBuild(j) /\ j \in Jobs /\ RowsTyped
  BY Types DEF IInv, TailorClaims
<1>2. /\ claim' \in [Runs -> ClaimState]
      /\ claim'[r].st = "running" /\ claim'[r].kind = "tailor" /\ claim'[r].leased
      /\ claim'[r].job = j
      /\ claim'[r].older = {s \in Runs : Running(s) /\ claim[s].job = j}
      /\ \A s \in Runs \ {r} : claim'[s] = claim[s]
  BY <1>1, ClaimedRow DEF TailorClaims
<1>3. [pc |-> "building", job |-> j] \in RunState BY <1>1 DEF RunState
<1>4. /\ run' \in [Runs -> RunState]
      /\ run'[r] = [pc |-> "building", job |-> j]
      /\ \A s \in Runs \ {r} : run'[s] = run[s]
  BY <1>1, <1>3 DEF RowsTyped, TailorClaims
<1>5. /\ build' \in [Jobs -> BuildState] /\ build'[j] = "tailoring"
      /\ \A k \in Jobs \ {j} : build'[k] = build[k]
  BY <1>1 DEF RowsTyped, TailorClaims, BuildState
<1>6. build[j] # "tailoring" /\ ~RefineHolds(j) BY <1>1 DEF CanBuild
<1>7. \A s \in Runs : Running(s) /\ claim[s].job = j => ~(claim[s].kind = "tailor")
  BY <1>1, <1>6 DEF IInv, TailorRows, Matches
<1>8. \A s \in Runs : Running(s) /\ claim[s].job = j => ~(claim[s].kind = "refine" /\ claim[s].leased)
  BY <1>6 DEF RefineHolds
<1>9. claim[r] = NoRow /\ \A s \in Runs : claim[s].st # "absent" => r \notin claim[s].older
  BY <1>1 DEF IInv, Unclaimed
<1> HIDE DEF j
<1>10. \A s \in Runs \ {r} : Running(s) => claim[s].st # "absent" BY DEF Running
<1>11. \A s \in Runs \ {r} : Running(s)' = Running(s) BY <1>2 DEF Running
<1>12. Running(r)' BY <1>2 DEF Running
<1>13. ~Running(r) BY <1>9 DEF Running, NoRow
<1>14. RowsTyped' BY <1>2, <1>4, <1>5 DEF RowsTyped
<1>15. OwnRow' BY <1>2, <1>4, <1>11, <1>12 DEF IInv, OwnRow, Writing, Kind
<1>16. Matches'
  BY <1>1, <1>2, <1>5, <1>11, <1>12, <1>13 DEF IInv, TailorRows, Matches
<1>17. \A s, t \in Runs : /\ Running(s)' /\ claim'[s].kind = "tailor"
                          /\ Running(t)' /\ claim'[t].kind = "tailor"
                          /\ claim'[s].job = claim'[t].job
                          => s = t
  BY <1>2, <1>7, <1>11 DEF IInv, TailorRows, Matches
<1>18. TailorRows' BY <1>16, <1>17 DEF TailorRows, Matches
<1>19. RefineRows' BY <1>1, <1>2, <1>5, <1>8, <1>11, Types DEF IInv, RefineRows
<1>20. TailorIsNewest' BY <1>2, <1>7, <1>9, <1>10, <1>11, <1>13 DEF IInv, TailorIsNewest
<1>21. Unclaimed' BY <1>1, <1>2, <1>4, <1>9, <1>13 DEF IInv, Unclaimed, Running, NoRow
<1> QED BY <1>14, <1>15, <1>18, <1>19, <1>20, <1>21 DEF IInv

LEMMA RefineClaimsKeeps ==
  ASSUME IInv, NEW r \in Runs, RefineClaims(r)
  PROVE  IInv'
<1> DEFINE j == run[r].job
<1>1. run[r].pc = "queued" /\ CanRefine(j) /\ j \in Jobs /\ RowsTyped /\ build' = build
  BY Types DEF IInv, RefineClaims
<1>2. /\ claim' \in [Runs -> ClaimState]
      /\ claim'[r].st = "running" /\ claim'[r].kind = "refine" /\ claim'[r].leased
      /\ claim'[r].job = j
      /\ claim'[r].older = {s \in Runs : Running(s) /\ claim[s].job = j}
      /\ \A s \in Runs \ {r} : claim'[s] = claim[s]
  BY <1>1, ClaimedRow DEF RefineClaims
<1>3. [pc |-> "claimed", job |-> j] \in RunState BY <1>1 DEF RunState
<1>4. /\ run' \in [Runs -> RunState]
      /\ run'[r] = [pc |-> "claimed", job |-> j]
      /\ \A s \in Runs \ {r} : run'[s] = run[s]
  BY <1>1, <1>3 DEF RowsTyped, RefineClaims
<1>6. build[j] # "tailoring" /\ ~RefineHolds(j) BY <1>1 DEF CanRefine
<1>7. \A s \in Runs : Running(s) /\ claim[s].job = j => ~(claim[s].kind = "tailor")
  BY <1>1, <1>6 DEF IInv, TailorRows, Matches
<1>8. \A s \in Runs : Running(s) /\ claim[s].job = j => ~(claim[s].kind = "refine" /\ claim[s].leased)
  BY <1>6 DEF RefineHolds
<1>9. claim[r] = NoRow /\ \A s \in Runs : claim[s].st # "absent" => r \notin claim[s].older
  BY <1>1 DEF IInv, Unclaimed
<1> HIDE DEF j
<1>11. \A s \in Runs \ {r} : Running(s)' = Running(s) BY <1>2 DEF Running
<1>12. Running(r)' BY <1>2 DEF Running
<1>13. ~Running(r) BY <1>9 DEF Running, NoRow
<1>14. RowsTyped' BY <1>1, <1>2, <1>4 DEF RowsTyped
<1>15. OwnRow' BY <1>2, <1>4, <1>11, <1>12 DEF IInv, OwnRow, Writing, Kind
<1>16. Matches'
  BY <1>1, <1>2, <1>11, <1>13 DEF IInv, TailorRows, Matches
<1>17. TailorRows' BY <1>2, <1>11, <1>16 DEF IInv, TailorRows, Matches
<1>18. RefineRows' BY <1>1, <1>2, <1>6, <1>8, <1>11, Types DEF IInv, RefineRows
<1>19. TailorIsNewest' BY <1>2, <1>7, <1>11 DEF IInv, TailorIsNewest
<1>20. Unclaimed' BY <1>1, <1>2, <1>4, <1>9, <1>13 DEF IInv, Unclaimed, Running, NoRow
<1> QED BY <1>14, <1>15, <1>17, <1>18, <1>19, <1>20 DEF IInv

-----------------------------------------------------------------------------
(* Ends of runs *)

LEMMA FinishesKeeps ==
  ASSUME IInv, NEW r \in Runs, TailorFinishes(r)
  PROVE  IInv'
<1> DEFINE j == run[r].job
           outcome == IF run[r].ok THEN "done" ELSE "failed"
<1>1. RowsTyped /\ run[r].pc = "recording" /\ j \in Jobs /\ run[r].ok \in BOOLEAN
  BY Types DEF IInv, TailorFinishes
<1>2. Running(r) /\ claim[r].kind = "tailor" /\ claim[r].job = j
  BY <1>1 DEF IInv, OwnRow, Writing, Kind
<1>3. [claim[r] EXCEPT !.st = outcome] \in ClaimState
  BY <1>1, <1>2 DEF RowsTyped, ClaimState, Running, NoRow
<1>4. claim' = [claim EXCEPT ![r] = [claim[r] EXCEPT !.st = outcome]] BY DEF TailorFinishes
<1>5. claim[r] \in ClaimState BY <1>1 DEF RowsTyped
<1>6. [claim[r] EXCEPT !.st = outcome].st = outcome
  BY <1>2, <1>5 DEF ClaimState, Running, NoRow
<1>7. claim' \in [Runs -> ClaimState] /\ claim'[r].st \in {"done", "failed"}
      /\ \A s \in Runs \ {r} : claim'[s] = claim[s]
  BY <1>1, <1>3, <1>4, <1>6 DEF RowsTyped
<1>8. claim'[r].older = claim[r].older
  BY <1>1, <1>2, <1>4, <1>5 DEF RowsTyped, ClaimState, Running, NoRow
<1>9. /\ build' \in [Jobs -> BuildState] /\ build'[j] # "tailoring"
      /\ \A k \in Jobs \ {j} : build'[k] = build[k]
  BY <1>1 DEF RowsTyped, TailorFinishes, BuildState
<1>10. /\ run' \in [Runs -> RunState] /\ run'[r].pc = "over"
       /\ \A s \in Runs \ {r} : run'[s] = run[s]
  BY <1>1, OverKeepsTypes DEF TailorFinishes
<1> HIDE DEF j, outcome
<1>11. \A s \in Runs : Running(s)' <=> Running(s) /\ s # r BY <1>7 DEF Running
<1>12. RowsTyped' BY <1>7, <1>9, <1>10 DEF RowsTyped
<1>13. OwnRow' BY <1>7, <1>10, <1>11 DEF IInv, OwnRow, Writing, Kind
<1>14. \A s \in Runs \ {r} : Running(s) /\ claim[s].kind = "tailor" => claim[s].job # j
  BY <1>2 DEF IInv, TailorRows, Matches
<1>15. Matches'
  BY <1>1, <1>2, <1>7, <1>9, <1>11, <1>14 DEF IInv, TailorRows, Matches
<1>16. TailorRows' BY <1>7, <1>11, <1>15 DEF IInv, TailorRows, Matches
<1>17. RefineRows' BY <1>7, <1>9, <1>11, <1>12, Types DEF IInv, RefineRows
<1>18. TailorIsNewest' BY <1>7, <1>11 DEF IInv, TailorIsNewest
<1>19. Unclaimed'
  <2>1. \A s \in Runs : claim'[s].st # "absent" =>
          claim[s].st # "absent" /\ claim'[s].older = claim[s].older
    BY <1>2, <1>7, <1>8 DEF Running
  <2> QED BY <2>1, <1>7, <1>10 DEF IInv, Unclaimed
<1> QED BY <1>12, <1>13, <1>16, <1>17, <1>18, <1>19 DEF IInv

\* Deleting the row of a refine whose run is over with it.
LEMMA ReleaseKeeps ==
  ASSUME IInv, NEW r \in Runs, run[r].pc = "revising",
         claim' = [claim EXCEPT ![r] = NoRow], run' = Over(r), build' = build
  PROVE  IInv'
<1>1. RowsTyped /\ Running(r) /\ claim[r].kind = "refine"
  BY DEF IInv, OwnRow, Writing, Kind
<1>2. /\ claim' \in [Runs -> ClaimState] /\ claim'[r] = NoRow
      /\ \A s \in Runs \ {r} : claim'[s] = claim[s]
  BY <1>1 DEF RowsTyped, ClaimState
<1>3. /\ run' \in [Runs -> RunState] /\ run'[r].pc = "over"
      /\ \A s \in Runs \ {r} : run'[s] = run[s]
  BY <1>1, OverKeepsTypes
<1>4. \A s \in Runs : Running(s)' <=> Running(s) /\ s # r BY <1>2 DEF Running, NoRow
<1>5. RowsTyped' BY <1>1, <1>2, <1>3 DEF RowsTyped
<1>6. OwnRow' BY <1>2, <1>3, <1>4 DEF IInv, OwnRow, Writing, Kind
<1>7. TailorRows' BY <1>1, <1>2, <1>4 DEF IInv, TailorRows, Matches
<1>8. RefineRows' BY <1>2, <1>4 DEF IInv, RefineRows
<1>9. TailorIsNewest' BY <1>2, <1>4 DEF IInv, TailorIsNewest
<1>10. Unclaimed' BY <1>2, <1>3 DEF IInv, Unclaimed, NoRow
<1> QED BY <1>5, <1>6, <1>7, <1>8, <1>9, <1>10 DEF IInv

LEMMA StopKeeps ==
  ASSUME IInv, NEW r \in Runs, Stop(r)
  PROVE  IInv'
<1>1. CASE run[r].pc = "revising" BY <1>1, ReleaseKeeps DEF Stop
<1>2. CASE run[r].pc # "revising"
  <2>1. RowsTyped /\ run[r].pc # "unused" /\ run' = Over(r) /\ UNCHANGED <<build, claim>>
    BY <1>2 DEF IInv, Stop, InProgress
  <2>2. /\ run' \in [Runs -> RunState] /\ run'[r].pc = "over"
        /\ \A s \in Runs \ {r} : run'[s] = run[s]
    BY <2>1, OverKeepsTypes
  <2> QED BY <2>1, <2>2, RunsOnly DEF Writing, Kind
<1> QED BY <1>1, <1>2

-----------------------------------------------------------------------------
(* Leases, resets and recovery *)

\* A lease expires only behind a run that is over.
LEMMA LeaseKeeps ==
  ASSUME IInv, NEW r \in Runs, ~InProgress(r), LeaseExpires(r)
  PROVE  IInv'
<1>1. RowsTyped /\ Running(r) /\ ~InProgress(r) /\ claim[r] \in ClaimState
  BY DEF IInv, LeaseExpires, RowsTyped
<1>2. ~Writing(r) BY <1>1 DEF InProgress, Writing
<1> DEFINE Row == [claim[r] EXCEPT !.leased = FALSE]
<1>3. /\ Row \in ClaimState /\ Row.st = claim[r].st /\ Row.kind = claim[r].kind
      /\ Row.job = claim[r].job /\ Row.older = claim[r].older /\ Row.leased = FALSE
  <2>1. claim[r] \in [st : {"running", "done", "failed"}, kind : {"tailor", "refine"},
                      job : Jobs, leased : BOOLEAN, older : SUBSET Runs]
    BY <1>1 DEF ClaimState, Running, NoRow
  <2>2. Row \in [st : {"running", "done", "failed"}, kind : {"tailor", "refine"},
                 job : Jobs, leased : BOOLEAN, older : SUBSET Runs]
    BY <2>1
  <2>3. /\ Row.st = claim[r].st /\ Row.kind = claim[r].kind
        /\ Row.job = claim[r].job /\ Row.older = claim[r].older
    BY <2>1
  <2>4. Row.leased = FALSE BY <2>1
  <2> QED BY <2>2, <2>3, <2>4 DEF ClaimState
<1>4. claim' = [claim EXCEPT ![r] = Row] /\ UNCHANGED <<build, run>> BY DEF LeaseExpires
<1> HIDE DEF Row
<1>5. /\ claim' \in [Runs -> ClaimState] /\ claim'[r] = Row
      /\ \A s \in Runs \ {r} : claim'[s] = claim[s]
  BY <1>1, <1>3, <1>4 DEF RowsTyped
<1>6. \A s \in Runs : /\ claim'[s].st = claim[s].st
                      /\ Running(s) => /\ claim'[s].kind = claim[s].kind
                                       /\ claim'[s].job = claim[s].job
                      /\ claim'[s].older = claim[s].older
                      /\ Running(s) /\ claim'[s].leased => claim[s].leased
  BY <1>3, <1>5
<1>7. \A s \in Runs : Running(s)' = Running(s) BY <1>6 DEF Running
<1>8. RowsTyped' BY <1>1, <1>4, <1>5 DEF RowsTyped
<1>9. OwnRow' BY <1>2, <1>4, <1>5, <1>7 DEF IInv, OwnRow, Writing, Kind
<1>10. Matches' BY <1>4, <1>6, <1>7 DEF IInv, TailorRows, Matches
<1>11. TailorRows' BY <1>6, <1>7, <1>10 DEF IInv, TailorRows, Matches
<1>12. RefineRows' BY <1>4, <1>6, <1>7 DEF IInv, RefineRows
<1>13. TailorIsNewest' BY <1>6, <1>7 DEF IInv, TailorIsNewest
<1>14. Unclaimed'
  BY <1>1, <1>4, <1>5, <1>6 DEF IInv, Unclaimed, Running, NoRow
<1> QED BY <1>8, <1>9, <1>11, <1>12, <1>13, <1>14 DEF IInv

\* A reset fails the tailor behind an expired claim, which writes nothing any more.
LEMMA ResetKeeps ==
  ASSUME IInv, NEW j \in Jobs, ResetBuild(j), run' \in [Runs -> RunState],
         \A r \in Runs :
           /\ Writing(r)' => Writing(r) /\ run'[r].job = run[r].job /\ Kind(r)' = Kind(r)
           /\ run'[r].pc \in {"unused", "queued"} => run[r].pc \in {"unused", "queued"}
  PROVE  IInv'
<1> DEFINE Failed(s) == build[j] = "tailoring" /\ Newest(j, s)
<1>1. RowsTyped BY DEF IInv
<1>2. \A s \in Runs : Failed(s) => Running(s) /\ claim[s].job = j /\ ~claim[s].leased
  BY DEF ResetBuild, Resettable, Newest
<1>3. \A s \in Runs : Failed(s) =>
        /\ [claim[s] EXCEPT !.st = "failed"] \in ClaimState
        /\ [claim[s] EXCEPT !.st = "failed"].st = "failed"
        /\ [claim[s] EXCEPT !.st = "failed"].older = claim[s].older
  BY <1>1, <1>2 DEF RowsTyped, ClaimState, Running, NoRow
<1>4. claim' = [s \in Runs |-> IF Failed(s) THEN [claim[s] EXCEPT !.st = "failed"] ELSE claim[s]]
  BY DEF ResetBuild
<1>5. \A s \in Runs : Running(s) /\ claim[s].kind = "tailor" /\ claim[s].job = j => Failed(s)
  BY DEF IInv, TailorRows, Matches, TailorIsNewest, Newest
<1>6. /\ build' \in [Jobs -> BuildState] /\ build'[j] # "tailoring"
      /\ \A k \in Jobs \ {j} : build'[k] = build[k]
  BY <1>1 DEF RowsTyped, ResetBuild, BuildState
<1> HIDE DEF Failed
<1>7. /\ claim' \in [Runs -> ClaimState]
      /\ \A s \in Runs : /\ Failed(s) => claim'[s].st = "failed" /\ claim'[s].older = claim[s].older
                         /\ ~Failed(s) => claim'[s] = claim[s]
  BY <1>1, <1>3, <1>4 DEF RowsTyped
<1>8. \A s \in Runs : Running(s)' <=> Running(s) /\ ~Failed(s) BY <1>2, <1>7 DEF Running
<1>9. RowsTyped' BY <1>1, <1>6, <1>7 DEF RowsTyped
<1>10. OwnRow' BY <1>2, <1>7, <1>8 DEF IInv, OwnRow
<1>11. Matches'
  BY <1>1, <1>2, <1>5, <1>6, <1>7, <1>8, Types DEF IInv, TailorRows, Matches
<1>12. TailorRows' BY <1>7, <1>8, <1>11 DEF IInv, TailorRows, Matches
<1>13. RefineRows' BY <1>1, <1>6, <1>7, <1>8, Types DEF IInv, RefineRows
<1>14. TailorIsNewest' BY <1>7, <1>8 DEF IInv, TailorIsNewest
<1>15. Unclaimed'
  <2>1. \A s \in Runs : claim'[s].st # "absent" => claim[s].st # "absent" /\ claim'[s].older = claim[s].older
    BY <1>2, <1>7 DEF Running
  <2>2. \A s \in Runs : claim[s] = NoRow => claim'[s] = NoRow
    BY <1>2, <1>7 DEF Running, NoRow
  <2> QED BY <2>1, <2>2 DEF IInv, Unclaimed
<1> QED BY <1>9, <1>10, <1>12, <1>13, <1>14, <1>15 DEF IInv

LEMMA RetailorKeeps ==
  ASSUME IInv, NEW r \in Runs, NEW j \in Jobs, Retailor(r, j)
  PROVE  IInv'
<1> DEFINE q == [run EXCEPT ![r] = [pc |-> "queued", kind |-> "tailor", job |-> j]]
<1>1. RowsTyped /\ run[r].pc = "unused" /\ run' = q BY DEF IInv, Retailor
<1>2. /\ q \in [Runs -> RunState] /\ q[r].pc = "queued"
      /\ \A s \in Runs \ {r} : q[s] = run[s]
  BY <1>1 DEF RowsTyped, RunState
<1> HIDE DEF q
<1>3. CASE UNCHANGED <<build, claim>> BY <1>1, <1>2, <1>3, RunsOnly DEF Writing, Kind
<1>4. CASE ResetBuild(j) BY <1>1, <1>2, <1>4, ResetKeeps DEF Writing, Kind
<1> QED BY <1>1, <1>3, <1>4 DEF Retailor

LEMMA UnkeepKeeps ==
  ASSUME IInv, NEW j \in Jobs, Unkeep(j)
  PROVE  IInv'
BY ResetKeeps DEF Unkeep, IInv, RowsTyped, Writing, Kind

\* A restart fails the tailors, forgets the refines, and leaves nobody writing.
LEMMA RestartKeeps ==
  ASSUME IInv, Restart
  PROVE  IInv'
<1>1. RowsTyped /\ Recovered BY DEF IInv, Restart
<1>2. \A r \in Runs : Running(r) => [claim[r] EXCEPT !.st = "failed"] \in ClaimState
                                  /\ [claim[r] EXCEPT !.st = "failed"].st = "failed"
                                  /\ [claim[r] EXCEPT !.st = "failed"].older = claim[r].older
  BY <1>1 DEF RowsTyped, ClaimState, Running, NoRow
<1>3. /\ claim' \in [Runs -> ClaimState]
      /\ \A r \in Runs : /\ ~Running(r)'
                         /\ ~Running(r) => claim'[r] = claim[r]
                         /\ claim'[r].st # "absent" =>
                              claim[r].st # "absent" /\ claim'[r].older = claim[r].older
  <2>1. /\ claim' \in [Runs -> {claim'[r] : r \in Runs}]
        /\ \A r \in Runs : /\ ~Running(r) => claim'[r] = claim[r]
                           /\ Running(r) => claim'[r] \in {NoRow, [claim[r] EXCEPT !.st = "failed"]}
    BY <1>1 DEF Recovered
  <2>2. \A r \in Runs : claim'[r] \in ClaimState
    <3>1. NoRow \in ClaimState BY DEF ClaimState
    <3>2. \A r \in Runs : claim[r] \in ClaimState BY <1>1 DEF RowsTyped
    <3> QED BY <1>2, <2>1, <3>1, <3>2
  <2>3. \A r \in Runs : /\ claim'[r].st # "running"
                        /\ claim'[r].st # "absent" =>
                            claim[r].st # "absent" /\ claim'[r].older = claim[r].older
    <3> SUFFICES ASSUME NEW r \in Runs
                 PROVE  /\ claim'[r].st # "running"
                        /\ claim'[r].st # "absent" =>
                             claim[r].st # "absent" /\ claim'[r].older = claim[r].older
      OBVIOUS
    <3>1. CASE ~Running(r) BY <2>1, <3>1 DEF Running
    <3>2. CASE Running(r) /\ claim'[r] = NoRow BY <3>2 DEF NoRow
    <3>3. CASE Running(r) /\ claim'[r] = [claim[r] EXCEPT !.st = "failed"]
      BY <1>2, <3>3 DEF Running
    <3> QED BY <2>1, <3>1, <3>2, <3>3
  <2>4. claim' \in [Runs -> ClaimState] BY <2>1, <2>2
  <2> QED BY <2>1, <2>3, <2>4 DEF Running
<1>4. build' \in [Jobs -> BuildState] /\ \A j \in Jobs : build'[j] # "tailoring"
  <2>1. \A j \in Jobs : build[j] = "tailoring" =>
          \E r \in Runs : Running(r) /\ claim[r].kind = "tailor" /\ claim[r].job = j
    BY DEF IInv, TailorRows, Matches
  <2> QED BY <1>1, <2>1 DEF RowsTyped, Recovered, BuildState
<1>5. /\ run' \in [Runs -> RunState]
      /\ \A r \in Runs : run'[r].pc \in {"unused", "over"}
                         /\ (run'[r].pc = "unused" => run[r].pc = "unused")
  <2>1. /\ run' \in [Runs -> {run'[r] : r \in Runs}]
        /\ \A r \in Runs : /\ InProgress(r) => run'[r] = [pc |-> "over", job |-> run[r].job]
                           /\ ~InProgress(r) => run'[r] = run[r]
    BY DEF Restart
  <2>2. \A r \in Runs : InProgress(r) => run[r].job \in Jobs BY <1>1, Types DEF InProgress
  <2>3. \A r \in Runs : /\ run'[r] \in RunState
                        /\ run'[r].pc \in {"unused", "over"}
                        /\ run'[r].pc = "unused" => run[r].pc = "unused"
    <3> SUFFICES ASSUME NEW r \in Runs
                 PROVE  /\ run'[r] \in RunState
                        /\ run'[r].pc \in {"unused", "over"}
                        /\ run'[r].pc = "unused" => run[r].pc = "unused"
      OBVIOUS
    <3>1. CASE InProgress(r) BY <2>1, <2>2, <3>1 DEF RunState
    <3>2. CASE ~InProgress(r) BY <1>1, <2>1, <3>2 DEF RowsTyped, InProgress
    <3> QED BY <3>1, <3>2
  <2>4. run' \in [Runs -> RunState] BY <2>1, <2>3
  <2> QED BY <2>3, <2>4
<1>6. \A r \in Runs : ~Writing(r)' BY <1>5 DEF Writing
<1>7. RowsTyped' BY <1>3, <1>4, <1>5 DEF RowsTyped
<1>8. OwnRow' BY <1>6 DEF OwnRow
<1>9. TailorRows' BY <1>3, <1>4 DEF TailorRows, Matches
<1>10. RefineRows' /\ TailorIsNewest' BY <1>3 DEF RefineRows, TailorIsNewest
<1>11. Unclaimed' BY <1>3, <1>5 DEF IInv, Unclaimed, Running, NoRow
<1> QED BY <1>7, <1>8, <1>9, <1>10, <1>11 DEF IInv

-----------------------------------------------------------------------------
(* The invariant, and the theorems *)

LEMMA NextIInv ==
  ASSUME IInv, [Next]_vars, calm'
  PROVE  IInv'
<1>1. CASE UNCHANGED vars
  BY <1>1 DEF vars, IInv, RowsTyped, OwnRow, TailorRows, Matches, RefineRows,
     TailorIsNewest, Unclaimed, Writing, Running, Kind
<1>2. CASE Calmly
  <2>1. CASE \E r \in Runs, j \in Jobs, kind \in {"tailor", "refine"} : Start(r, j, kind)
    BY <2>1, StartKeeps
  <2>2. CASE \E r \in Runs, j \in Jobs : Retailor(r, j) BY <2>2, RetailorKeeps
  <2>3. CASE \E j \in Jobs : Unkeep(j) BY <2>3, UnkeepKeeps
  <2>4. CASE \E r \in Runs : Advances(r)
    <3> PICK r \in Runs : Advances(r) BY <2>4
    <3>1. CASE TailorClaims(r) BY <3>1, TailorClaimsKeeps
    <3>2. CASE TailorRefused(r) \/ RefineRefused(r) BY <3>2, RefusedKeeps
    <3>3. CASE TailorBuilt(r) BY <3>3, BuiltKeeps
    <3>4. CASE TailorFinishes(r) BY <3>4, FinishesKeeps
    <3>5. CASE RefineClaims(r) BY <3>5, RefineClaimsKeeps
    <3>6. CASE RefineLocates(r) BY <3>6, LocatesKeeps
    <3>7. CASE RefineReleases(r) BY <3>7, ReleaseKeeps DEF RefineReleases
    <3> QED BY <3>1, <3>2, <3>3, <3>4, <3>5, <3>6, <3>7 DEF Advances
  <2>5. CASE \E r \in Runs : Stop(r) BY <2>5, StopKeeps
  <2>6. CASE Restart BY <2>6, RestartKeeps
  <2> QED BY <1>2, <2>1, <2>2, <2>3, <2>4, <2>5, <2>6 DEF Calmly
<1>3. CASE \E r \in Runs : LeaseExpires(r)
  <2> PICK r \in Runs : LeaseExpires(r) BY <1>3
  <2>1. ~InProgress(r) BY DEF LeaseExpires
  <2> QED BY <2>1, LeaseKeeps
<1>4. ~SecondLaunch BY DEF SecondLaunch
<1> QED BY <1>1, <1>2, <1>3, <1>4 DEF Next

\* Once upset, a history stays upset.
LEMMA CalmBefore ==
  ASSUME [Next]_vars, calm', calm \in BOOLEAN
  PROVE  calm
BY DEF Next, vars, LeaseExpires, SecondLaunch

CalmInv == calm \in BOOLEAN /\ (calm => IInv)

\* The strengthened invariant of the claims: it holds in every calm state.
LEMMA ClaimsInvariant == Spec => []CalmInv
<1>1. Init => CalmInv BY InitIInv DEF Init, CalmInv
<1>2. CalmInv /\ [Next]_vars => CalmInv'
  <2> SUFFICES ASSUME CalmInv, [Next]_vars PROVE CalmInv' OBVIOUS
  <2>1. calm' \in BOOLEAN BY DEF CalmInv, Next, vars, LeaseExpires, SecondLaunch
  <2>2. calm' => IInv' BY CalmBefore, NextIInv DEF CalmInv
  <2> QED BY <2>1, <2>2 DEF CalmInv
<1> QED BY <1>1, <1>2, PTL DEF Spec

-----------------------------------------------------------------------------
(* The claims implement PacketClaim *)

\* A job has at most one leased row, and whoever works for it stands behind it.
LEMMA OneLease ==
  ASSUME IInv, NEW j \in Jobs
  PROVE  /\ AtWork(j) \subseteq Leased(j)
         /\ \A r, s \in Leased(j) : r = s
<1>1. AtWork(j) \subseteq Leased(j) BY DEF IInv, OwnRow, AtWork, Leased
<1>2. ASSUME NEW r \in Leased(j), NEW s \in Leased(j) PROVE r = s
  <2>1. /\ r \in Runs /\ Running(r) /\ claim[r].leased /\ claim[r].job = j
        /\ s \in Runs /\ Running(s) /\ claim[s].leased /\ claim[s].job = j
    BY <1>2 DEF Leased
  <2>2. claim[r].kind \in {"tailor", "refine"} /\ claim[s].kind \in {"tailor", "refine"}
    BY <2>1, Types DEF IInv
  <2>3. CASE claim[r].kind = "tailor" /\ claim[s].kind = "tailor"
    BY <2>1, <2>3 DEF IInv, TailorRows
  <2>4. CASE claim[r].kind = "refine" /\ claim[s].kind = "refine"
    BY <2>1, <2>4 DEF IInv, RefineRows
  <2>5. CASE claim[r].kind # claim[s].kind
    <3>1. build[j] = "tailoring" BY <2>1, <2>2, <2>5 DEF IInv, TailorRows, Matches
    <3>2. build[j] # "tailoring" BY <2>1, <2>2, <2>5 DEF IInv, RefineRows
    <3> QED BY <3>1, <3>2
  <2> QED BY <2>2, <2>3, <2>4, <2>5
<1> QED BY <1>1, <1>2

\* A step that leaves every job's lease and workers alone is a stutter.
LEMMA ClaimsStutter ==
  ASSUME \A j \in Jobs : Leased(j)' = Leased(j) /\ AtWork(j)' = AtWork(j), calm' = calm
  PROVE  UNCHANGED Claims!cvars
<1>1. [j \in Jobs |-> Leased(j)]' = [j \in Jobs |-> Leased(j)] OBVIOUS
<1>2. [j \in Jobs |-> AtWork(j)]' = [j \in Jobs |-> AtWork(j)] OBVIOUS
<1> QED BY <1>1, <1>2 DEF Claims!cvars

\* What the abstract variables become when a step concerns one job.
LEMMA OneJobOnly ==
  ASSUME NEW j \in Jobs, NEW L, NEW W, Leased(j)' = L, AtWork(j)' = W,
         \A k \in Jobs \ {j} : Leased(k)' = Leased(k) /\ AtWork(k)' = AtWork(k)
  PROVE  /\ [k \in Jobs |-> Leased(k)]' = [[k \in Jobs |-> Leased(k)] EXCEPT ![j] = L]
         /\ [k \in Jobs |-> AtWork(k)]' = [[k \in Jobs |-> AtWork(k)] EXCEPT ![j] = W]
OBVIOUS

\* A run that starts or is refused, or whose build or locate returns, changes nobody's turn.
LEMMA RunOnlyStutters ==
  ASSUME RowsTyped, NEW r \in Runs, UNCHANGED claim, calm' = calm,
         \A s \in Runs \ {r} : run'[s] = run[s],
         Writing(r)' <=> Writing(r), Writing(r) => run'[r].job = run[r].job
  PROVE  UNCHANGED Claims!cvars
<1>1. \A s \in Runs, j \in Jobs : (s \in AtWork(j))' <=> s \in AtWork(j)
  BY DEF AtWork, Writing
<1>2. \A j \in Jobs : AtWork(j)' = AtWork(j)
  <2>1. \A j \in Jobs : AtWork(j) \subseteq Runs /\ AtWork(j)' \subseteq Runs BY DEF AtWork
  <2> QED BY <1>1, <2>1
<1>3. \A j \in Jobs : Leased(j)' = Leased(j) BY DEF Leased, Running
<1> QED BY <1>2, <1>3, ClaimsStutter

\* claim_for_build and claim_for_refine take a claim that nobody holds.
LEMMA TakesStep ==
  ASSUME IInv, NEW r \in Runs, TailorClaims(r) \/ RefineClaims(r)
  PROVE  \E j \in Jobs : Claims!Takes(j, r)
<1>0. RowsTyped /\ run[r].pc = "queued" /\ run[r].job \in Jobs
  BY Types DEF IInv, TailorClaims, RefineClaims
<1> PICK j \in Jobs : j = run[r].job BY <1>0
<1>1. RowsTyped /\ run[r].pc = "queued" /\ j \in Jobs BY <1>0
<1>2. \E kind \in {"tailor", "refine"} : claim' = Claimed(r, kind)
  BY DEF TailorClaims, RefineClaims
<1>3. /\ Running(r)' /\ claim'[r].leased /\ claim'[r].job = j
      /\ \A s \in Runs \ {r} : claim'[s] = claim[s]
  BY <1>1, <1>2, ClaimedRow DEF Running
<1>4. /\ run'[r].pc \in {"building", "claimed"} /\ run'[r].job = j
      /\ \A s \in Runs \ {r} : run'[s] = run[s]
  BY <1>1 DEF RowsTyped, TailorClaims, RefineClaims
<1>5. build[j] # "tailoring" /\ ~RefineHolds(j)
  BY DEF TailorClaims, CanBuild, RefineClaims, CanRefine
<1>6. ~Writing(r) /\ ~Running(r)
  BY <1>1 DEF IInv, Unclaimed, Writing, Running, NoRow
<1>7. \A s \in Runs : Running(s) => claim[s].kind \in {"tailor", "refine"} BY <1>1, Types
<1>8. Leased(j) = {}
  BY <1>1, <1>5, <1>7 DEF Leased, RefineHolds, IInv, TailorRows, Matches
<1>9. AtWork(j) = {} BY <1>1, <1>8, OneLease
<1>10. Leased(j)' = {r} BY <1>3, <1>8 DEF Leased, Running
<1>11. AtWork(j)' = {r} BY <1>4, <1>9 DEF AtWork, Writing
<1>12. \A k \in Jobs \ {j} : Leased(k)' = Leased(k) BY <1>3, <1>6 DEF Leased, Running
<1>13. \A k \in Jobs \ {j} : AtWork(k)' = AtWork(k) BY <1>4, <1>6 DEF AtWork, Writing
<1>14. /\ [k \in Jobs |-> Leased(k)]' = [[k \in Jobs |-> Leased(k)] EXCEPT ![j] = {r}]
       /\ [k \in Jobs |-> AtWork(k)]' = [[k \in Jobs |-> AtWork(k)] EXCEPT ![j] = {r}]
  BY <1>10, <1>11, <1>12, <1>13, OneJobOnly
<1>15. Claims!Takes(j, r) BY <1>8, <1>14 DEF Claims!Takes
<1> QED BY <1>15

\* A run that works is over, with its row or without it.
LEMMA EndsStep ==
  ASSUME IInv, NEW r \in Runs, Writing(r), run' = Over(r),
         UNCHANGED claim \/ (~Running(r)' /\ \A s \in Runs \ {r} : claim'[s] = claim[s])
  PROVE  \E j \in Jobs : Claims!GivesBack(j) \/ Claims!Abandons(j)
<1>1. RowsTyped /\ run[r].pc # "unused" BY DEF IInv, Writing
<1> PICK j \in Jobs : j = run[r].job BY <1>1, Types
<1>2. j \in Jobs OBVIOUS
<1>3. run'[r].pc = "over" /\ \A s \in Runs \ {r} : run'[s] = run[s]
  BY <1>1, OverKeepsTypes
<1>4. claim[r].job = j BY DEF IInv, OwnRow
<1>5. r \in AtWork(j) BY DEF AtWork
<1>6. Leased(j) = {r} /\ AtWork(j) = {r} BY <1>2, <1>5, OneLease
<1>7. AtWork(j)' = {} BY <1>3, <1>6 DEF AtWork, Writing
<1>8. \A k \in Jobs \ {j} : AtWork(k)' = AtWork(k)
  <2>1. \A k \in Jobs \ {j} : r \notin AtWork(k) BY DEF AtWork
  <2>2. \A k \in Jobs \ {j} : r \notin AtWork(k)' BY <1>3 DEF AtWork, Writing
  <2> QED BY <1>3, <2>1, <2>2 DEF AtWork, Writing
<1>9. CASE UNCHANGED claim
  <2>1. \A k \in Jobs : Leased(k)' = Leased(k) BY <1>9 DEF Leased, Running
  <2>2. UNCHANGED [k \in Jobs |-> Leased(k)] BY <2>1
  <2>3. [k \in Jobs |-> AtWork(k)]' = [[k \in Jobs |-> AtWork(k)] EXCEPT ![j] = {}]
    BY <1>2, <1>7, <1>8, <2>1, OneJobOnly
  <2> QED BY <1>2, <1>6, <2>2, <2>3 DEF Claims!Abandons
<1>10. CASE ~Running(r)' /\ \A s \in Runs \ {r} : claim'[s] = claim[s]
  <2>1. Leased(j)' = {} BY <1>6, <1>10 DEF Leased, Running
  <2>2. \A k \in Jobs \ {j} : Leased(k)' = Leased(k)
    <3>1. \A k \in Jobs \ {j} : r \notin Leased(k) BY <1>4 DEF Leased
    <3>2. \A k \in Jobs \ {j} : r \notin Leased(k)' BY <1>10 DEF Leased
    <3> QED BY <1>10, <3>1, <3>2 DEF Leased, Running
  <2>3. /\ [k \in Jobs |-> Leased(k)]' = [[k \in Jobs |-> Leased(k)] EXCEPT ![j] = {}]
        /\ [k \in Jobs |-> AtWork(k)]' = [[k \in Jobs |-> AtWork(k)] EXCEPT ![j] = {}]
    BY <1>7, <1>8, <2>1, <2>2, OneJobOnly
  <2>4. Claims!GivesBack(j) BY <1>6, <2>3 DEF Claims!GivesBack
  <2> QED BY <2>4
<1> QED BY <1>9, <1>10

\* The lease of a run that is over lapses.
LEMMA LapsesStep ==
  ASSUME IInv, NEW r \in Runs, ~InProgress(r), LeaseExpires(r)
  PROVE  \E j \in Jobs : Claims!Lapses(j)
<1>1. RowsTyped /\ Running(r) /\ claim[r].leased BY DEF IInv, LeaseExpires
<1> PICK j \in Jobs : j = claim[r].job BY <1>1, Types
<1>2. j \in Jobs OBVIOUS
<1>3. ~claim'[r].leased /\ \A s \in Runs \ {r} : claim'[s] = claim[s]
  <2>1. claim[r] \in [st : {"running", "done", "failed"}, kind : {"tailor", "refine"},
                      job : Jobs, leased : BOOLEAN, older : SUBSET Runs]
    BY <1>1 DEF RowsTyped, ClaimState, Running, NoRow
  <2>2. [claim[r] EXCEPT !.leased = FALSE].leased = FALSE BY <2>1
  <2>3. claim' = [claim EXCEPT ![r] = [claim[r] EXCEPT !.leased = FALSE]] BY DEF LeaseExpires
  <2> QED BY <1>1, <2>2, <2>3 DEF RowsTyped
<1>4. r \in Leased(j) BY <1>1 DEF Leased
<1>5. ~Writing(r) BY DEF InProgress, Writing
<1>6. Leased(j) = {r} BY <1>2, <1>4, OneLease
<1>7. AtWork(j) = {}
  <2>1. r \notin AtWork(j) BY <1>5 DEF AtWork
  <2> QED BY <1>2, <1>6, <2>1, OneLease
<1>8. Leased(j)' = {} BY <1>3, <1>6 DEF Leased, Running
<1>9. \A k \in Jobs \ {j} : Leased(k)' = Leased(k)
  <2>1. \A k \in Jobs \ {j} : r \notin Leased(k) BY DEF Leased
  <2>2. \A k \in Jobs \ {j} : r \notin Leased(k)' BY <1>3 DEF Leased
  <2> QED BY <1>3, <2>1, <2>2 DEF Leased, Running
<1>10. \A k \in Jobs : AtWork(k)' = AtWork(k) BY DEF LeaseExpires, AtWork, Writing
<1>11. UNCHANGED [k \in Jobs |-> AtWork(k)] BY <1>10
<1>12. [k \in Jobs |-> Leased(k)]' = [[k \in Jobs |-> Leased(k)] EXCEPT ![j] = {}]
  BY <1>2, <1>8, <1>9, <1>10, OneJobOnly
<1> QED BY <1>2, <1>6, <1>7, <1>11, <1>12 DEF Claims!Lapses

\* A reset writes only rows whose lease has lapsed.
LEMMA ResetStutters ==
  ASSUME RowsTyped, NEW j \in Jobs, ResetBuild(j),
         \A s \in Runs : (Writing(s)' <=> Writing(s)) /\ (Writing(s) => run'[s].job = run[s].job),
         calm' = calm
  PROVE  UNCHANGED Claims!cvars
<1>1. \A s \in Runs : Running(s) /\ claim[s].leased => claim'[s] = claim[s]
  BY DEF ResetBuild, Resettable, Newest
<1>2. \A s \in Runs : Running(s)' => claim'[s] = claim[s]
  <2> SUFFICES ASSUME NEW s \in Runs, Running(s)' PROVE claim'[s] = claim[s] OBVIOUS
  <2>1. CASE build[j] = "tailoring" /\ Newest(j, s)
    <3>1. claim'[s] = [claim[s] EXCEPT !.st = "failed"] BY <2>1 DEF ResetBuild
    <3>2. claim[s] \in [st : {"running", "done", "failed"}, kind : {"tailor", "refine"},
                        job : Jobs, leased : BOOLEAN, older : SUBSET Runs]
      BY <2>1 DEF RowsTyped, ClaimState, Newest, Running, NoRow
    <3> QED BY <3>1, <3>2 DEF Running
  <2>2. CASE ~(build[j] = "tailoring" /\ Newest(j, s)) BY <2>2 DEF ResetBuild
  <2> QED BY <2>1, <2>2
<1>3. \A k \in Jobs : Leased(k)' = Leased(k) BY <1>1, <1>2 DEF Leased, Running
<1>4. \A k \in Jobs : AtWork(k)' = AtWork(k) BY DEF AtWork
<1> QED BY <1>3, <1>4, ClaimsStutter

LEMMA RestartStep ==
  ASSUME IInv, Restart
  PROVE  Claims!AllDie
<1>1. \A r \in Runs : ~Running(r)'
  <2> SUFFICES ASSUME NEW r \in Runs PROVE claim'[r].st # "running" BY DEF Running
  <2>1. CASE ~Running(r) BY <2>1 DEF Restart, Recovered, Running
  <2>2. CASE Running(r)
    <3>1. claim'[r] = NoRow \/ claim'[r] = [claim[r] EXCEPT !.st = "failed"]
      BY <2>2 DEF Restart, Recovered
    <3>2. claim[r] \in [st : {"running", "done", "failed"}, kind : {"tailor", "refine"},
                        job : Jobs, leased : BOOLEAN, older : SUBSET Runs]
      BY <2>2 DEF IInv, RowsTyped, ClaimState, Running, NoRow
    <3> QED BY <3>1, <3>2 DEF NoRow
  <2> QED BY <2>1, <2>2
<1>2. \A r \in Runs : ~Writing(r)'
  BY DEF Restart, InProgress, Writing
<1>3. \A j \in Jobs : Leased(j)' = {} /\ AtWork(j)' = {} BY <1>1, <1>2 DEF Leased, AtWork
<1>4. [j \in Jobs |-> Leased(j)]' = Claims!Nobody /\ [j \in Jobs |-> AtWork(j)]' = Claims!Nobody
  BY <1>3 DEF Claims!Nobody
<1> QED BY <1>4 DEF Claims!AllDie

LEMMA StepImplements ==
  ASSUME IInv, Calmly, calm' = calm
  PROVE  Claims!AllDie \/ UNCHANGED Claims!cvars
         \/ \E j \in Jobs : \/ \E r \in Runs : Claims!Takes(j, r)
                            \/ Claims!GivesBack(j) \/ Claims!Abandons(j)
<1> DEFINE Goal == Claims!AllDie \/ UNCHANGED Claims!cvars
                   \/ \E j \in Jobs : \/ \E r \in Runs : Claims!Takes(j, r)
                                      \/ Claims!GivesBack(j) \/ Claims!Abandons(j)
<1>1. RowsTyped BY DEF IInv
<1>2. ASSUME NEW r \in Runs, NEW j \in Jobs, NEW kind \in {"tailor", "refine"}, Start(r, j, kind)
      PROVE  UNCHANGED Claims!cvars
  BY <1>1, <1>2, RunOnlyStutters DEF RowsTyped, Start, Writing
<1>3. ASSUME NEW r \in Runs, NEW j \in Jobs, Retailor(r, j) PROVE UNCHANGED Claims!cvars
  <2>1. /\ run[r].pc = "unused" /\ run'[r].pc = "queued"
        /\ \A s \in Runs \ {r} : run'[s] = run[s]
    BY <1>1, <1>3 DEF RowsTyped, Retailor
  <2>2. CASE ResetBuild(j) BY <1>1, <2>1, <2>2, ResetStutters DEF Writing
  <2>3. CASE UNCHANGED claim BY <1>1, <2>1, <2>3, RunOnlyStutters DEF Writing
  <2> QED BY <1>3, <2>2, <2>3 DEF Retailor
<1>4. ASSUME NEW j \in Jobs, Unkeep(j) PROVE UNCHANGED Claims!cvars
  BY <1>1, <1>4, ResetStutters DEF Unkeep, Writing
<1>5. ASSUME NEW r \in Runs, TailorRefused(r) \/ RefineRefused(r) PROVE UNCHANGED Claims!cvars
  <2>1. run[r].pc = "queued" /\ run' = Over(r) /\ UNCHANGED claim
    BY <1>5 DEF TailorRefused, RefineRefused
  <2>2. run'[r].pc = "over" /\ \A s \in Runs \ {r} : run'[s] = run[s]
    BY <1>1, <2>1, OverKeepsTypes
  <2> QED BY <1>1, <2>1, <2>2, RunOnlyStutters DEF Writing
<1>6. ASSUME NEW r \in Runs, TailorBuilt(r) \/ RefineLocates(r) PROVE UNCHANGED Claims!cvars
  <2>1. /\ run[r].pc \in {"building", "claimed"} /\ UNCHANGED claim
        /\ run'[r].pc \in {"recording", "revising"} /\ run'[r].job = run[r].job
        /\ \A s \in Runs \ {r} : run'[s] = run[s]
    BY <1>1, <1>6 DEF RowsTyped, TailorBuilt, RefineLocates
  <2> QED BY <1>1, <2>1, RunOnlyStutters DEF Writing
<1>7. ASSUME NEW r \in Runs, TailorFinishes(r) \/ RefineReleases(r) PROVE Goal
  <2>1. Writing(r) /\ run' = Over(r) BY <1>7 DEF TailorFinishes, RefineReleases, Writing
  <2>2. \A s \in Runs \ {r} : claim'[s] = claim[s]
    BY <1>1, <1>7 DEF RowsTyped, TailorFinishes, RefineReleases
  <2>3. claim[r] \in [st : {"running", "done", "failed"}, kind : {"tailor", "refine"},
                      job : Jobs, leased : BOOLEAN, older : SUBSET Runs]
    BY <1>1, <2>1 DEF IInv, OwnRow, RowsTyped, ClaimState, Running, NoRow
  <2>4. claim'[r].st # "running"
    <3>1. CASE RefineReleases(r) BY <1>1, <3>1 DEF RowsTyped, RefineReleases, NoRow
    <3>2. CASE TailorFinishes(r)
      <4>1. claim'[r] = [claim[r] EXCEPT !.st = IF run[r].ok THEN "done" ELSE "failed"]
        BY <1>1, <3>2 DEF RowsTyped, TailorFinishes
      <4> QED BY <2>3, <4>1
    <3> QED BY <1>7, <3>1, <3>2
  <2> QED BY <2>1, <2>2, <2>4, EndsStep DEF Running
<1>8. ASSUME NEW r \in Runs, Stop(r) PROVE Goal
  <2>1. CASE Writing(r)
    <3>1. CASE run[r].pc = "revising"
      BY <1>1, <1>8, <2>1, <3>1, EndsStep DEF RowsTyped, Stop, Running, NoRow
    <3>2. CASE run[r].pc # "revising" BY <1>8, <2>1, <3>2, EndsStep DEF Stop
    <3> QED BY <3>1, <3>2
  <2>2. CASE ~Writing(r)
    <3>1. run[r].pc # "unused" /\ run' = Over(r) /\ UNCHANGED claim
      BY <1>8, <2>2 DEF Stop, InProgress, Writing
    <3>2. run'[r].pc = "over" /\ \A s \in Runs \ {r} : run'[s] = run[s]
      BY <1>1, <3>1, OverKeepsTypes
    <3> QED BY <1>1, <2>2, <3>1, <3>2, RunOnlyStutters DEF Writing
  <2> QED BY <2>1, <2>2
<1>9. CASE Restart BY <1>9, RestartStep
<1>10. ASSUME NEW r \in Runs, TailorClaims(r) \/ RefineClaims(r) PROVE Goal
  BY <1>10, TakesStep
<1> HIDE DEF Goal
<1>11. ASSUME NEW r \in Runs, Advances(r) PROVE Goal
  BY <1>5, <1>6, <1>7, <1>10, <1>11 DEF Advances, Goal
<1>12. Goal
  BY <1>2, <1>3, <1>4, <1>8, <1>9, <1>11 DEF Calmly, Goal
<1> QED BY <1>12 DEF Goal

\* The claims are one lock with a lease: a packet is taken only when no claim on it counts,
\* given back only by who works on it, and a claim left behind by a Stop lapses before
\* the next one is taken (claim_for_build, claim_for_refine, finish_build,
\* release_refine, reset_build_state, recover_stale_builds).
THEOREM ClaimsImplementPacketClaim == Spec => ImplementsPacketClaim
<1>1. Init => Claims!CInit
  <2> SUFFICES ASSUME Init PROVE Claims!CInit OBVIOUS
  <2>1. \A j \in Jobs : Leased(j) = {} /\ AtWork(j) = {}
    BY DEF Init, Leased, AtWork, Running, Writing, NoRow, NewRun
  <2> QED BY <2>1 DEF Init, Claims!CInit, Claims!Nobody
<1>2. CalmInv /\ [Next]_vars => [Claims!CNext]_(Claims!cvars)
  <2> SUFFICES ASSUME CalmInv, [Next]_vars, calm', ~UNCHANGED Claims!cvars
               PROVE  Claims!CNext
    BY DEF Claims!CNext
  <2>1. calm /\ IInv BY CalmBefore DEF CalmInv
  <2>2. CASE UNCHANGED vars
    BY <2>2, ClaimsStutter DEF vars, Leased, AtWork, Running, Writing
  <2>3. CASE Calmly /\ UNCHANGED calm BY <2>1, <2>3, StepImplements DEF Claims!CNext
  <2>4. ASSUME NEW r \in Runs, LeaseExpires(r) PROVE Claims!CNext
    BY <2>1, <2>4, LapsesStep DEF LeaseExpires, Claims!CNext
  <2>5. ~SecondLaunch BY DEF SecondLaunch
  <2> QED BY <2>2, <2>3, <2>4, <2>5 DEF Next
<1> QED BY <1>1, <1>2, ClaimsInvariant, PTL DEF Spec, ImplementsPacketClaim, Claims!CSpec

\* What PacketClaim promises by itself: whoever works holds the only claim that counts.
LEMMA ClaimAlone == Claims!CSpec => []Claims!Alone
<1>1. Claims!CInit => Claims!Alone BY DEF Claims!CInit, Claims!Nobody, Claims!Alone
<1>2. ASSUME Claims!Alone, [Claims!CNext]_(Claims!cvars) PROVE Claims!Alone'
  <2> USE DEF Claims!Alone
  <2>1. CASE UNCHANGED Claims!cvars BY <1>2, <2>1 DEF Claims!cvars
  <2> SUFFICES ASSUME Claims!CNext, calm' PROVE Claims!Alone' BY <1>2, <2>1
  <2>2. calm BY DEF Claims!CNext
  <2>3. ASSUME NEW j \in Jobs, NEW r \in Runs, Claims!Takes(j, r) PROVE Claims!Alone'
    <3>1. \A k \in Jobs : /\ Leased(k)' = IF k = j THEN {r} ELSE Leased(k)
                          /\ AtWork(k)' = IF k = j THEN {r} ELSE AtWork(k)
      BY <2>3 DEF Claims!Takes
    <3>2. \A k \in Jobs : \A q \in AtWork(k) : Leased(k) = {q} BY <1>2, <2>2
    <3>3. \A k \in Jobs : \A q \in AtWork(k)' : Leased(k)' = {q} BY <3>1, <3>2
    <3> QED BY <3>3
  <2>4. CASE \E j \in Jobs : Claims!GivesBack(j) BY <1>2, <2>2, <2>4 DEF Claims!GivesBack
  <2>5. CASE \E j \in Jobs : Claims!Abandons(j) BY <1>2, <2>2, <2>5 DEF Claims!Abandons
  <2>6. CASE \E j \in Jobs : Claims!Lapses(j) BY <1>2, <2>2, <2>6 DEF Claims!Lapses
  <2>7. CASE Claims!AllDie BY <2>7 DEF Claims!AllDie, Claims!Nobody
  <2> QED BY <2>3, <2>4, <2>5, <2>6, <2>7 DEF Claims!CNext
<1> QED BY <1>1, <1>2, PTL DEF Claims!CSpec

\* One run at a time may write the packet of a job (claim_for_build, claim_for_refine).
THEOREM OneWriterHolds == Spec => []OneWriter
<1>1. CalmInv /\ Claims!Alone => OneWriter
  <2> SUFFICES ASSUME IInv, calm, Claims!Alone, NEW r \in Runs, NEW s \in Runs,
                      Writing(r), Writing(s), run[r].job = run[s].job
               PROVE  r = s
    BY DEF CalmInv, OneWriter, NeverTwoWriters
  <2>1. run[r].job \in Jobs BY Types DEF IInv, Writing
  <2>2. r \in AtWork(run[r].job) /\ s \in AtWork(run[r].job) BY DEF AtWork
  <2> QED BY <2>1, <2>2 DEF Claims!Alone
<1> QED BY <1>1, ClaimsInvariant, ClaimsImplementPacketClaim, ClaimAlone, PTL
        DEF ImplementsPacketClaim

\* The filer and the next claim always see the writer's leased running row.
THEOREM WriterIsProtectedHolds == Spec => []WriterIsProtected
<1>1. CalmInv => WriterIsProtected BY DEF CalmInv, IInv, OwnRow, WriterIsProtected
<1> QED BY <1>1, ClaimsInvariant, PTL

\* jobs.build_state is tailoring exactly while a tailor row is running.
THEOREM StateMatchesRunsHolds == Spec => []StateMatchesRuns
<1>1. CalmInv => StateMatchesRuns BY DEF CalmInv, IInv, TailorRows, Matches, StateMatchesRuns
<1> QED BY <1>1, ClaimsInvariant, PTL

-----------------------------------------------------------------------------
(* The record of attempts, calm or not *)

\* What holds of rows and runs whatever outlives its lease and whoever recovers: a run that
\* has not claimed has no row, a row is of the kind of its run, and a run records its end once.
Recorded ==
  /\ RowsTyped
  /\ \A r \in Runs :
       /\ run[r].pc \in {"unused", "queued"} => claim[r] = NoRow
       /\ claim[r].st # "absent" /\ run[r].pc \in {"building", "recording"} => claim[r].kind = "tailor"
       /\ claim[r].st # "absent" /\ run[r].pc \in {"claimed", "revising"} => claim[r].kind = "refine"
       /\ Attempted(r, "done") => run[r].pc = "over"

\* Closing rows that run, and nothing else, keeps the record; no row comes to be done.
LEMMA ClosingKeeps ==
  ASSUME Recorded, claim' \in [Runs -> ClaimState], build' \in [Jobs -> BuildState],
         run' \in [Runs -> RunState],
         \A r \in Runs : \/ claim'[r] = claim[r]
                         \/ claim'[r] = NoRow
                         \/ Running(r) /\ claim'[r].kind = claim[r].kind /\ claim'[r].st # "done",
         \A r \in Runs : run'[r] = run[r] \/ run'[r].pc = "over"
  PROVE  Recorded'
<1>1. RowsTyped' BY DEF RowsTyped
<1>2. ASSUME NEW r \in Runs
      PROVE  /\ run'[r].pc \in {"unused", "queued"} => claim'[r] = NoRow
             /\ claim'[r].st # "absent" /\ run'[r].pc \in {"building", "recording"} => claim'[r].kind = "tailor"
             /\ claim'[r].st # "absent" /\ run'[r].pc \in {"claimed", "revising"} => claim'[r].kind = "refine"
             /\ claim'[r].st = "done" /\ claim'[r].kind = "tailor" => run'[r].pc = "over"
  BY DEF Recorded, Running, NoRow, Attempted
<1> QED BY <1>1, <1>2 DEF Recorded, Attempted

\* A step that moves one run, and at most its own row, keeps the record.
LEMMA MovingKeeps ==
  ASSUME Recorded, NEW q \in Runs, claim' \in [Runs -> ClaimState],
         build' \in [Jobs -> BuildState], run' \in [Runs -> RunState],
         \A r \in Runs \ {q} : claim'[r] = claim[r] /\ run'[r] = run[r],
         run'[q].pc \in {"unused", "queued"} => claim'[q] = NoRow,
         claim'[q].st # "absent" /\ run'[q].pc \in {"building", "recording"} => claim'[q].kind = "tailor",
         claim'[q].st # "absent" /\ run'[q].pc \in {"claimed", "revising"} => claim'[q].kind = "refine",
         claim'[q].st = "done" /\ claim'[q].kind = "tailor" => run'[q].pc = "over"
  PROVE  Recorded'
<1>1. RowsTyped' BY DEF RowsTyped
<1>2. ASSUME NEW r \in Runs
      PROVE  /\ run'[r].pc \in {"unused", "queued"} => claim'[r] = NoRow
             /\ claim'[r].st # "absent" /\ run'[r].pc \in {"building", "recording"} => claim'[r].kind = "tailor"
             /\ claim'[r].st # "absent" /\ run'[r].pc \in {"claimed", "revising"} => claim'[r].kind = "refine"
             /\ claim'[r].st = "done" /\ claim'[r].kind = "tailor" => run'[r].pc = "over"
  <2>1. CASE r = q BY <2>1
  <2>2. CASE r # q BY <2>2 DEF Recorded, Attempted
  <2> QED BY <2>1, <2>2
<1> QED BY <1>1, <1>2 DEF Recorded, Attempted

\* What a reset or a recovery does to the rows and the jobs.
LEMMA ClosedRows ==
  ASSUME RowsTyped, (\E j \in Jobs : ResetBuild(j)) \/ Recovered
  PROVE  /\ claim' \in [Runs -> ClaimState] /\ build' \in [Jobs -> BuildState]
         /\ \A r \in Runs : \/ claim'[r] = claim[r]
                            \/ claim'[r] = NoRow /\ Running(r)
                            \/ Running(r) /\ claim'[r].kind = claim[r].kind /\ claim'[r].st # "done"
<1>1. \A r \in Runs : Running(r) =>
        /\ [claim[r] EXCEPT !.st = "failed"] \in ClaimState
        /\ [claim[r] EXCEPT !.st = "failed"].kind = claim[r].kind
        /\ [claim[r] EXCEPT !.st = "failed"].st = "failed"
  BY DEF RowsTyped, ClaimState, Running, NoRow
<1>2. NoRow \in ClaimState BY DEF ClaimState
<1>3. ASSUME NEW j \in Jobs, ResetBuild(j)
      PROVE  /\ claim' \in [Runs -> ClaimState] /\ build' \in [Jobs -> BuildState]
             /\ \A r \in Runs : \/ claim'[r] = claim[r]
                                \/ Running(r) /\ claim'[r].kind = claim[r].kind /\ claim'[r].st # "done"
  BY <1>1, <1>3 DEF RowsTyped, ResetBuild, Newest, BuildState
<1>4. CASE Recovered
  <2>1. \A r \in Runs : \/ claim'[r] = claim[r]
                        \/ claim'[r] = NoRow /\ Running(r)
                        \/ Running(r) /\ claim'[r].kind = claim[r].kind /\ claim'[r].st # "done"
    BY <1>1, <1>4 DEF Recovered
  <2>2. claim' \in [Runs -> ClaimState] BY <1>1, <1>2, <1>4 DEF Recovered, RowsTyped
  <2>3. build' \in [Jobs -> BuildState] BY <1>4 DEF Recovered, RowsTyped, BuildState
  <2> QED BY <2>1, <2>2, <2>3
<1> QED BY <1>3, <1>4

\* A run that has its claim has a row of its own kind, which did not exist before.
LEMMA ClaimingKeeps ==
  ASSUME Recorded, NEW q \in Runs, TailorClaims(q) \/ RefineClaims(q)
  PROVE  Recorded'
<1>1. run[q].pc = "queued" /\ run[q].job \in Jobs
  BY Types DEF Recorded, TailorClaims, RefineClaims
<1>2. ASSUME NEW kind \in {"tailor", "refine"}, claim' = Claimed(q, kind)
      PROVE  /\ claim' \in [Runs -> ClaimState] /\ claim'[q].kind = kind /\ claim'[q].st = "running"
             /\ \A r \in Runs \ {q} : claim'[r] = claim[r]
  BY <1>1, <1>2 DEF Recorded, RowsTyped, Claimed, ClaimState
<1>3. CASE TailorClaims(q)
  <2>1. build' \in [Jobs -> BuildState] BY <1>1, <1>3 DEF Recorded, RowsTyped, TailorClaims, BuildState
  <2>2. /\ run' \in [Runs -> RunState] /\ run'[q].pc = "building"
        /\ \A r \in Runs \ {q} : run'[r] = run[r]
    BY <1>1, <1>3 DEF Recorded, RowsTyped, TailorClaims, RunState
  <2> QED BY <1>2, <1>3, <2>1, <2>2, MovingKeeps DEF TailorClaims
<1>4. CASE RefineClaims(q)
  <2>1. build' \in [Jobs -> BuildState] BY <1>4 DEF Recorded, RowsTyped, RefineClaims
  <2>2. /\ run' \in [Runs -> RunState] /\ run'[q].pc = "claimed"
        /\ \A r \in Runs \ {q} : run'[r] = run[r]
    BY <1>1, <1>4 DEF Recorded, RowsTyped, RefineClaims, RunState
  <2> QED BY <1>2, <1>4, <2>1, <2>2, MovingKeeps DEF RefineClaims
<1> QED BY <1>3, <1>4

\* A run that ends, by itself or stopped, is over; only finish_build makes a row done.
LEMMA EndingKeeps ==
  ASSUME Recorded, NEW q \in Runs,
         \/ TailorRefused(q) \/ RefineRefused(q) \/ TailorFinishes(q)
         \/ RefineReleases(q) \/ Stop(q)
  PROVE  Recorded'
<1>1. RowsTyped /\ run[q].pc # "unused" /\ run' = Over(q)
  BY DEF Recorded, TailorRefused, RefineRefused, TailorFinishes, RefineReleases, Stop, InProgress
<1>2. /\ run' \in [Runs -> RunState] /\ run'[q].pc = "over"
      /\ \A r \in Runs \ {q} : run'[r] = run[r]
  BY <1>1, OverKeepsTypes
<1>3. build' \in [Jobs -> BuildState]
  <2>1. CASE TailorFinishes(q) BY <1>1, <2>1 DEF RowsTyped, TailorFinishes, BuildState
  <2>2. CASE UNCHANGED build BY <1>1, <2>2 DEF RowsTyped
  <2> QED BY <2>1, <2>2 DEF TailorRefused, RefineRefused, RefineReleases, Stop
<1>4. claim' \in [Runs -> ClaimState] /\ \A r \in Runs \ {q} : claim'[r] = claim[r]
  <2>1. CASE UNCHANGED claim BY <1>1, <2>1 DEF RowsTyped
  <2>2. CASE claim' = [claim EXCEPT ![q] = NoRow] BY <1>1, <2>2 DEF RowsTyped, ClaimState
  <2>3. CASE TailorFinishes(q)
    <3>1. \A st \in {"done", "failed"} : [claim[q] EXCEPT !.st = st] \in ClaimState
      BY <1>1, <2>3 DEF RowsTyped, TailorFinishes, ClaimState, NoRow
    <3> QED BY <1>1, <2>3, <3>1 DEF RowsTyped, TailorFinishes
  <2> QED BY <2>1, <2>2, <2>3 DEF TailorRefused, RefineRefused, RefineReleases, Stop
<1> QED BY <1>2, <1>3, <1>4, MovingKeeps

\* Every step keeps the record.
LEMMA NextRecorded == Recorded /\ [Next]_vars => Recorded'
<1> SUFFICES ASSUME Recorded, [Next]_vars PROVE Recorded' OBVIOUS
<1>1. RowsTyped BY DEF Recorded
<1>2. ASSUME NEW q \in Runs, NEW j \in Jobs, run[q].pc = "unused",
             \E kind \in {"tailor", "refine"} :
               run' = [run EXCEPT ![q] = [pc |-> "queued", kind |-> kind, job |-> j]]
      PROVE  /\ run' \in [Runs -> RunState] /\ run'[q].pc = "queued"
             /\ \A r \in Runs \ {q} : run'[r] = run[r]
  BY <1>1, <1>2 DEF RowsTyped, RunState
<1>3. ASSUME NEW q \in Runs, NEW j \in Jobs, NEW kind \in {"tailor", "refine"}, Start(q, j, kind)
      PROVE  Recorded'
  <2>1. run[q].pc = "unused" /\ UNCHANGED <<build, claim>> /\ claim[q] = NoRow
    BY <1>3 DEF Start, Recorded
  <2>2. /\ run' \in [Runs -> RunState] /\ run'[q].pc = "queued"
        /\ \A r \in Runs \ {q} : run'[r] = run[r]
    BY <1>2, <1>3, <2>1 DEF Start
  <2>3. claim' \in [Runs -> ClaimState] /\ build' \in [Jobs -> BuildState]
    BY <1>1, <2>1 DEF RowsTyped
  <2> QED BY <2>1, <2>2, <2>3, MovingKeeps DEF NoRow
<1>4. ASSUME NEW j \in Jobs, Unkeep(j) PROVE Recorded'
  BY <1>1, <1>4, ClosedRows, ClosingKeeps DEF Unkeep, RowsTyped
<1>5. ASSUME NEW q \in Runs, NEW j \in Jobs, Retailor(q, j) PROVE Recorded'
  <2>1. /\ run' \in [Runs -> RunState] /\ run'[q].pc = "queued" /\ claim[q] = NoRow
        /\ \A r \in Runs \ {q} : run'[r] = run[r]
    BY <1>2, <1>5 DEF Retailor, Recorded
  <2>2. /\ claim' \in [Runs -> ClaimState] /\ build' \in [Jobs -> BuildState]
        /\ \A r \in Runs : \/ claim'[r] = claim[r]
                           \/ claim'[r] = NoRow /\ Running(r)
                           \/ Running(r) /\ claim'[r].kind = claim[r].kind /\ claim'[r].st # "done"
    BY <1>1, <1>5, ClosedRows DEF Retailor, RowsTyped
  <2>3. claim'[q] = NoRow BY <2>1, <2>2 DEF Running, NoRow
  <2>4. RowsTyped' BY <2>1, <2>2 DEF RowsTyped
  <2>5. ASSUME NEW r \in Runs
        PROVE  /\ run'[r].pc \in {"unused", "queued"} => claim'[r] = NoRow
               /\ claim'[r].st # "absent" /\ run'[r].pc \in {"building", "recording"} => claim'[r].kind = "tailor"
               /\ claim'[r].st # "absent" /\ run'[r].pc \in {"claimed", "revising"} => claim'[r].kind = "refine"
               /\ claim'[r].st = "done" /\ claim'[r].kind = "tailor" => run'[r].pc = "over"
    <3>1. CASE r = q BY <2>1, <2>3, <3>1 DEF NoRow
    <3>2. CASE r # q BY <2>1, <2>2, <3>2 DEF Recorded, Attempted, Running, NoRow
    <3> QED BY <3>1, <3>2
  <2> QED BY <2>4, <2>5 DEF Recorded, Attempted
<1>6. ASSUME NEW q \in Runs, TailorBuilt(q) \/ RefineLocates(q) PROVE Recorded'
  <2>1. run[q].job \in Jobs BY <1>1, <1>6, Types DEF TailorBuilt, RefineLocates
  <2>2. CASE TailorBuilt(q)
    <3>1. /\ run' \in [Runs -> RunState] /\ run'[q].pc = "recording" /\ run[q].pc = "building"
          /\ \A r \in Runs \ {q} : run'[r] = run[r]
      BY <1>1, <2>1, <2>2 DEF RowsTyped, TailorBuilt, RunState
    <3> QED BY <1>1, <2>2, <3>1, MovingKeeps DEF TailorBuilt, Recorded, RowsTyped, Attempted
  <2>3. CASE RefineLocates(q)
    <3>1. /\ run' \in [Runs -> RunState] /\ run'[q].pc = "revising" /\ run[q].pc = "claimed"
          /\ \A r \in Runs \ {q} : run'[r] = run[r]
      BY <1>1, <2>1, <2>3 DEF RowsTyped, RefineLocates, RunState
    <3> QED BY <1>1, <2>3, <3>1, MovingKeeps DEF RefineLocates, Recorded, RowsTyped, Attempted
  <2> QED BY <1>6, <2>2, <2>3
<1>7. ASSUME NEW q \in Runs, LeaseExpires(q) PROVE Recorded'
  <2>1. [claim[q] EXCEPT !.leased = FALSE] \in ClaimState
    BY <1>1, <1>7 DEF RowsTyped, LeaseExpires, Running, ClaimState, NoRow
  <2>2. /\ claim' \in [Runs -> ClaimState]
        /\ claim'[q].kind = claim[q].kind /\ claim'[q].st = "running"
        /\ \A r \in Runs \ {q} : claim'[r] = claim[r]
    BY <1>1, <1>7, <2>1 DEF RowsTyped, LeaseExpires, Running, ClaimState, NoRow
  <2> QED BY <1>1, <1>7, <2>2, ClosingKeeps DEF LeaseExpires, RowsTyped
<1>8. CASE Restart
  <2>1. \A r \in Runs : InProgress(r) => [pc |-> "over", job |-> run[r].job] \in RunState
    BY <1>1, Types DEF InProgress, RunState
  <2>2. run' \in [Runs -> RunState] BY <1>1, <1>8, <2>1 DEF Restart, RowsTyped
  <2>3. \A r \in Runs : run'[r] = run[r] \/ run'[r].pc = "over" BY <1>8 DEF Restart
  <2> QED BY <1>1, <1>8, <2>2, <2>3, ClosedRows, ClosingKeeps DEF Restart
<1>9. CASE SecondLaunch BY <1>1, <1>9, ClosedRows, ClosingKeeps DEF SecondLaunch, RowsTyped
<1>10. CASE UNCHANGED vars BY <1>1, <1>10, ClosingKeeps DEF vars, RowsTyped
<1>11. ASSUME NEW q \in Runs, Advances(q) PROVE Recorded'
  BY <1>6, <1>11, ClaimingKeeps, EndingKeeps DEF Advances
<1> QED BY <1>3, <1>4, <1>5, <1>7, <1>8, <1>9, <1>10, <1>11, EndingKeeps DEF Next, Calmly

\* An attempt that is done stays done, and one that a reset or a recovery has failed is
\* rewritten by its own run alone, at its end: outlived leases and second launches included.
THEOREM OutcomeIsFinalHolds == Spec => OutcomeIsFinal
<1> DEFINE Final ==
      \A r \in Runs :
        /\ Attempted(r, "done") => claim'[r] = claim[r]
        /\ Attempted(r, "failed") => claim'[r] = claim[r] \/ TailorFinishes(r)
<1>1. Init => Recorded
  BY DEF Init, Recorded, RowsTyped, Attempted, NoRow, NewRun, BuildState, ClaimState, RunState
<1>2. ASSUME Recorded, [Next]_vars PROVE Final
  <2>1. RowsTyped BY <1>2 DEF Recorded
  <2>2. CASE UNCHANGED claim BY <2>2
  <2>3. CASE \A r \in Runs : ~Running(r) => claim'[r] = claim[r] BY <2>3 DEF Running, Attempted
  <2>4. CASE (\E j \in Jobs : ResetBuild(j)) \/ Recovered
    BY <2>1, <2>3, <2>4, ClosedRows
  <2>5. ASSUME NEW q \in Runs, TailorClaims(q) \/ RefineClaims(q) PROVE Final
    <3>1. claim[q] = NoRow BY <1>2, <2>5 DEF Recorded, TailorClaims, RefineClaims
    <3>2. \A r \in Runs \ {q} : claim'[r] = claim[r]
      BY <2>1, <2>5 DEF RowsTyped, TailorClaims, RefineClaims, Claimed
    <3> QED BY <3>1, <3>2 DEF Attempted, NoRow
  <2>6. ASSUME NEW q \in Runs, RefineReleases(q) \/ Stop(q) PROVE Final
    <3>1. CASE run[q].pc = "revising"
      <4>1. ~Attempted(q, "done") /\ ~Attempted(q, "failed") BY <1>2, <3>1 DEF Recorded, Attempted
      <4>2. \A r \in Runs \ {q} : claim'[r] = claim[r]
        BY <2>1, <2>6, <3>1 DEF RowsTyped, RefineReleases, Stop
      <4> QED BY <4>1, <4>2
    <3>2. CASE run[q].pc # "revising" BY <2>2, <2>6, <3>2 DEF RefineReleases, Stop
    <3> QED BY <3>1, <3>2
  <2>7. ASSUME NEW q \in Runs, TailorFinishes(q) PROVE Final
    <3>1. ~Attempted(q, "done") BY <1>2, <2>7 DEF Recorded, TailorFinishes
    <3>2. \A r \in Runs \ {q} : claim'[r] = claim[r] BY <2>1, <2>7 DEF RowsTyped, TailorFinishes
    <3> QED BY <2>7, <3>1, <3>2
  <2>8. ASSUME NEW q \in Runs, LeaseExpires(q) PROVE Final
    <3>1. \A r \in Runs \ {q} : claim'[r] = claim[r] BY <2>1, <2>8 DEF RowsTyped, LeaseExpires
    <3> QED BY <2>3, <2>8, <3>1 DEF LeaseExpires
  <2>9. ASSUME NEW q \in Runs, Advances(q) PROVE Final
    <3>1. CASE TailorRefused(q) \/ TailorBuilt(q) \/ RefineRefused(q) \/ RefineLocates(q)
      BY <2>2, <3>1 DEF TailorRefused, TailorBuilt, RefineRefused, RefineLocates
    <3> QED BY <2>5, <2>6, <2>7, <2>9, <3>1 DEF Advances
  <2>10. CASE Restart \/ SecondLaunch BY <2>4, <2>10 DEF Restart, SecondLaunch
  <2>11. CASE \E j \in Jobs : Unkeep(j) BY <2>4, <2>11 DEF Unkeep
  <2>12. CASE \E r \in Runs, j \in Jobs : Retailor(r, j) BY <2>2, <2>4, <2>12 DEF Retailor
  <2>13. CASE \E r \in Runs, j \in Jobs, kind \in {"tailor", "refine"} : Start(r, j, kind)
    BY <2>2, <2>13 DEF Start
  <2>14. CASE UNCHANGED vars BY <2>2, <2>14 DEF vars
  <2> HIDE DEF Final
  <2> QED BY <2>6, <2>8, <2>9, <2>10, <2>11, <2>12, <2>13, <2>14, <1>2 DEF Next, Calmly
<1>3. Recorded /\ [Next]_vars => [Final]_vars BY <1>2
<1> QED BY <1>1, <1>3, NextRecorded, PTL DEF Spec, OutcomeIsFinal
=============================================================================
