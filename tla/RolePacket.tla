----------------------------- MODULE RolePacket -----------------------------
(***************************************************************************)
(* One role's documents in a packet folder: core/build.py (steps 4 to 7b), *)
(* core/refine.py, core/refine_files.py, core/packet_verify.py,            *)
(* core/quarantine.py and the release route of web/app.py.                 *)
(*                                                                         *)
(* A build exports into the public folder and is gated there.  A refine    *)
(* stages its revision, is gated, and then published.  A document the gate *)
(* fails is moved to quarantine/; the user may release it.  From the gate  *)
(* to the end of the hold no task of the cockpit can run (there is no      *)
(* await), but the process can die between two file operations, each of    *)
(* them can raise an OSError, and a download reads whatever is there.      *)
(*                                                                         *)
(* Documents are the revisions they hold: the resume's markdown, one       *)
(* export of it (docx stands for docx, pdf and the ATS text), the letter.  *)
(***************************************************************************)
EXTENDS Integers, FiniteSetsExt

CONSTANTS
  MaxRevs,      \* bound: builds and refines
  MaxFaults,    \* bound: file operations that raise an OSError, checks that crash
  MaxCrashes,   \* bound: deaths of the process in the middle of an operation
  MaxReleases   \* bound: clicks on Release

ASSUME RolePacketAssumption == {MaxRevs, MaxFaults, MaxCrashes, MaxReleases} \subseteq Nat

VARIABLES
  pub,       \* the packet folder: name -> revision, 0 when there is none
  held,      \* its quarantine/ folder, likewise
  older,     \* {stem}.vN.md beside the resume: N -> revision
  retired,   \* {stem}.vN.md under quarantine/superseded/, likewise
  parked,    \* what was parked under a timestamped name: pairs of a name and a revision
  report,    \* the role's packet_report.json
  work,      \* the build or refine that holds the role's claim, or Idle
  rel,       \* the Release request that is being served, or Quiet
  revs,      \* revisions made so far
  fatal,     \* history: the <<artifact, revision>> whose last verdict was fatal
  freed,     \* history: the <<name, revision>> a Release of the user has moved back
  budget     \* faults, crashes and releases spent so far

vars == <<pub, held, older, retired, parked, report, work, rel, revs, fatal, freed, budget>>

-----------------------------------------------------------------------------

Resume == {"md", "docx"}
Names == Resume \cup {"letter"}
Artifacts == {"resume", "letter"}
Revs == 1..MaxRevs
Folder == [Names -> 0..MaxRevs]
Kind(n) == IF n = "letter" THEN "letter" ELSE "resume"

\* about, aboutLetter: the revisions the verdict is on; behind: a letter was written
\* since; letterFatal: the report records a fatal finding on the letter; unscored: it
\* records that the letter was not scored.
Report == [state : {"none", "ready", "quarantined", "acknowledged_override", "verification_failed"},
           arts : SUBSET Artifacts, named : SUBSET Names, override : BOOLEAN,
           letterFatal : BOOLEAN, unscored : BOOLEAN, behind : BOOLEAN,
           about : 0..MaxRevs, aboutLetter : 0..MaxRevs]
NoReport == [state |-> "none", arts |-> {}, named |-> {}, override |-> FALSE,
             letterFatal |-> FALSE, unscored |-> FALSE, behind |-> FALSE, about |-> 0, aboutLetter |-> 0]

\* at: what the task does next.  writing and scoring are model calls, the rest is one
\* stretch of the event loop.  was: the report as read; letter: the letter as read;
\* hold: the artifacts to hold; todo: names left to move; ended: how the last one ended.
Places == {"idle", "writing", "scoring", "rescoring", "gate", "rotate", "publish", "retire", "hold"}
Work == [at : Places, kind : {"build", "refine"}, rev : 0..MaxRevs, inQuarantine : BOOLEAN,
         stage : SUBSET Resume, letter : 0..MaxRevs, was : Report, rescored : {"no", "clean", "fatal", "unscored"},
         hold : SUBSET Artifacts, todo : SUBSET Names, rotated : 0..MaxRevs, published : BOOLEAN,
         ended : {"", "done", "failed", "died"}]
Idle(how) == [at |-> "idle", kind |-> "build", rev |-> 0, inQuarantine |-> FALSE, stage |-> {},
              letter |-> 0, was |-> NoReport, rescored |-> "no", hold |-> {}, todo |-> {},
              rotated |-> 0, published |-> FALSE, ended |-> how]

Release == [at : {"quiet", "moving", "recording", "undoing"}, todo : SUBSET Names, moved : SUBSET Names]
Quiet == [at |-> "quiet", todo |-> {}, moved |-> {}]

TypeOK ==
  /\ pub \in Folder /\ held \in Folder
  /\ older \in [Revs -> 0..MaxRevs] /\ retired \in [Revs -> 0..MaxRevs]
  /\ parked \subseteq Names \X Revs
  /\ report \in Report /\ work \in Work /\ rel \in Release
  /\ revs \in 0..MaxRevs
  /\ fatal \subseteq Artifacts \X Revs /\ freed \subseteq Names \X Revs
  /\ budget \in [faults : 0..MaxFaults, crashes : 0..MaxCrashes, releases : 0..MaxReleases]

Init ==
  /\ pub = [n \in Names |-> 0] /\ held = [n \in Names |-> 0]
  /\ older = [v \in Revs |-> 0] /\ retired = [v \in Revs |-> 0]
  /\ parked = {} /\ report = NoReport /\ work = Idle("") /\ rel = Quiet
  /\ revs = 0 /\ fatal = {} /\ freed = {}
  /\ budget = [faults |-> 0, crashes |-> 0, releases |-> 0]

\* No task runs between the gate and the end of a hold, nor inside a release's moves.
LoopIsFree == work.at \in {"idle", "writing", "scoring", "rescoring"} /\ rel.at = "quiet"
Fault == budget.faults < MaxFaults /\ budget' = [budget EXCEPT !.faults = @ + 1]

Put(folder, n, r) == [folder EXCEPT ![n] = r]
Drop(folder, n) == [folder EXCEPT ![n] = 0]

\* The names left to move are taken in one order, and released or retired in the other.
Rank(n) == IF n = "md" THEN 1 ELSE IF n = "docx" THEN 2 ELSE 3
First(names) == CHOOSE n \in names : \A m \in names : Rank(n) <= Rank(m)
Last(names) == CHOOSE n \in names : \A m \in names : Rank(m) <= Rank(n)

Present(folder) == {n \in Names : folder[n] # 0}

-----------------------------------------------------------------------------
(* The gate *)

NamesOf(arts) == {n \in Names : Kind(n) \in arts}

\* Mutant of Named: only what is public already is named.
NamedPublic(arts, willPublish) == NamesOf(arts) \cap Present(pub)

Named(arts, willPublish) == NamesOf(arts) \cap (Present(pub) \cup willPublish)

\* A released letter whose findings are carried over, so unchanged, stays released.
Waived(w) ==
  IF w.rescored = "no" /\ w.was.state = "acknowledged_override" /\ w.was.override
  THEN {"letter"} ELSE {}

Verdict(resumeFatal, letterFatal, waived) ==
  LET arts == (IF resumeFatal THEN {"resume"} ELSE {}) \cup (IF letterFatal THEN {"letter"} ELSE {})
  IN [arts |-> arts \ waived,
      state |-> IF arts \ waived # {} THEN "quarantined"
                ELSE IF arts # {} THEN "acknowledged_override" ELSE "ready"]

\* The letter's findings in the report of w: carried, or those of the new score.
LetterFatal(w) ==
  w.letter # 0 /\ IF w.kind = "refine" /\ w.rescored = "no" THEN w.was.letterFatal ELSE w.rescored = "fatal"

\* Files a refine is about to publish; a build has published before the gate.
WillPublish(w) == IF w.kind = "refine" THEN Resume ELSE {}

NewReport(w, v) ==
  [state |-> v.state, arts |-> v.arts, named |-> Named(v.arts, WillPublish(w)),
   override |-> v.state = "acknowledged_override",
   letterFatal |-> LetterFatal(w), unscored |-> w.letter # 0 /\ w.rescored = "unscored", behind |-> FALSE,
   about |-> w.rev, aboutLetter |-> w.letter]

\* A crashed check is no verdict: it carries the holds of the report before it.
FailureReport(w) ==
  LET kept == report.state = "quarantined"
  IN [NoReport EXCEPT
        !.state = IF kept THEN "quarantined" ELSE "verification_failed",
        !.arts = IF kept THEN report.arts ELSE {},
        !.named = IF kept THEN report.named \cup (IF "resume" \in report.arts THEN WillPublish(w) ELSE {}) ELSE {},
        !.unscored = w.letter # 0 /\ w.rescored = "unscored"]

\* What a refine still holds after a crashed check.
KeptHold(w) ==
  IF w.kind = "build" THEN {}
  ELSE (IF w.was.state = "quarantined" THEN w.was.arts ELSE {})
       \cup (IF w.inQuarantine THEN {"resume"} ELSE {})

After(w) == IF w.kind = "refine" THEN "rotate" ELSE "hold"

Gate ==
  /\ work.at = "gate"
  /\ \E resumeFatal \in BOOLEAN :
       LET v == Verdict(resumeFatal, LetterFatal(work), Waived(work))
           judged == {<<"resume", work.rev>>} \cup {<<"letter", l>> : l \in {work.letter} \ {0}}
           failed == {j \in judged : IF j[1] = "resume" THEN resumeFatal ELSE LetterFatal(work)}
       IN /\ report' = NewReport(work, v)
          /\ fatal' = (fatal \ judged) \cup failed
          /\ work' = [work EXCEPT !.at = After(work), !.hold = v.arts, !.todo = NamesOf(v.arts)]
  /\ UNCHANGED <<pub, held, older, retired, parked, rel, revs, freed, budget>>

\* The check raises, or the report cannot be written; then perhaps not even the
\* record of the failure can.
GateCrashes ==
  /\ work.at = "gate"
  /\ Fault
  /\ report' \in {report, FailureReport(work)}
  /\ work' = [work EXCEPT !.at = After(work), !.hold = KeptHold(work), !.todo = NamesOf(KeptHold(work))]
  /\ UNCHANGED <<pub, held, older, retired, parked, rel, revs, fatal, freed>>

-----------------------------------------------------------------------------
(* The hold *)

\* Moves n to quarantine; an older document that is held under the name is parked.
HoldOne ==
  /\ work.at = "hold" /\ work.todo # {}
  /\ LET n == First(work.todo)
         older_one == {<<n, r>> : r \in {held[n]} \ {0}}
     IN /\ work' = [work EXCEPT !.todo = @ \ {n}]
        /\ \/ /\ pub[n] = 0
              /\ UNCHANGED <<pub, held, parked, budget>>
           \/ /\ pub[n] # 0
              /\ held' = Put(held, n, pub[n]) /\ pub' = Drop(pub, n)
              /\ parked' = parked \cup older_one
              /\ UNCHANGED budget
           \/ /\ pub[n] # 0   \* one of the two renames fails: logged, and on with the next
              /\ Fault
              /\ UNCHANGED pub
              /\ \/ UNCHANGED <<held, parked>>
                 \/ held' = Drop(held, n) /\ parked' = parked \cup older_one
  /\ UNCHANGED <<older, retired, report, rel, revs, fatal, freed>>

\* A document that is still public fails the operation.
HoldEnds ==
  /\ work.at = "hold" /\ work.todo = {}
  /\ work' = Idle(IF NamesOf(work.hold) \cap Present(pub) = {} THEN "done" ELSE "failed")
  /\ UNCHANGED <<pub, held, older, retired, parked, report, rel, revs, fatal, freed, budget>>

-----------------------------------------------------------------------------
(* A build *)

BuildStarts ==
  /\ LoopIsFree /\ work.at = "idle" /\ revs < MaxRevs
  /\ revs' = revs + 1
  /\ work' = [Idle("") EXCEPT !.at = "writing", !.rev = revs + 1]
  /\ UNCHANGED <<pub, held, older, retired, parked, report, rel, fatal, freed, budget>>

\* The resume is written into the public folder; its export may fail, and is skipped.
BuildExports ==
  /\ LoopIsFree /\ work.at = "writing" /\ work.kind = "build"
  /\ \E exported \in {{"md"}, Resume} : pub' = [n \in Names |-> IF n \in exported THEN work.rev ELSE pub[n]]
  /\ work' = [work EXCEPT !.at = "scoring"]
  /\ UNCHANGED <<held, older, retired, parked, report, rel, revs, fatal, freed, budget>>

\* The letter, when it is asked for and its generation succeeds, and its score; then
\* the resume is scored.
BuildLetter ==
  /\ LoopIsFree /\ work.at = "scoring" /\ work.kind = "build" /\ work.letter = 0
  /\ pub' = Put(pub, "letter", work.rev)
  /\ report' = [report EXCEPT !.behind = report # NoReport]
  /\ \E s \in {"clean", "fatal", "unscored"} : work' = [work EXCEPT !.letter = work.rev, !.rescored = s]
  /\ UNCHANGED <<held, older, retired, parked, rel, revs, fatal, freed, budget>>

BuildScored ==
  /\ LoopIsFree /\ work.at = "scoring" /\ work.kind = "build"
  /\ work' = [work EXCEPT !.at = "gate"]
  /\ UNCHANGED <<pub, held, older, retired, parked, report, rel, revs, fatal, freed, budget>>

\* A model call fails: what was exported stays, and the report is the one before.
WorkFails ==
  /\ LoopIsFree /\ work.at \in {"writing", "scoring", "rescoring"}
  /\ work' = Idle("failed")
  /\ UNCHANGED <<pub, held, older, retired, parked, report, rel, revs, fatal, freed, budget>>

-----------------------------------------------------------------------------
(* A refine *)

\* locate: the public resume, else the held one.
RefineStarts ==
  /\ LoopIsFree /\ work.at = "idle" /\ revs < MaxRevs
  /\ pub["md"] # 0 \/ held["md"] # 0
  /\ revs' = revs + 1
  /\ work' = [Idle("") EXCEPT !.at = "writing", !.kind = "refine", !.rev = revs + 1, !.inQuarantine = pub["md"] = 0]
  /\ UNCHANGED <<pub, held, older, retired, parked, report, rel, fatal, freed, budget>>

RefineStages ==
  /\ LoopIsFree /\ work.at = "writing" /\ work.kind = "refine"
  /\ \E staged \in {{"md"}, Resume} : work' = [work EXCEPT !.at = "scoring", !.stage = staged]
  /\ UNCHANGED <<pub, held, older, retired, parked, report, rel, revs, fatal, freed, budget>>

\* The report and the letter are read; a letter that changed or was never scored is
\* scored now, which is one more model call.
LetterFile == IF pub["letter"] # 0 THEN pub["letter"] ELSE held["letter"]
Changed == LetterFile # 0 /\ (report = NoReport \/ report.behind \/ report.unscored)

RefineReads ==
  /\ LoopIsFree /\ work.at = "scoring" /\ work.kind = "refine"
  /\ work' = [work EXCEPT !.was = report, !.letter = LetterFile, !.at = IF Changed THEN "rescoring" ELSE "gate"]
  /\ UNCHANGED <<pub, held, older, retired, parked, report, rel, revs, fatal, freed, budget>>

RefineRescores ==
  /\ LoopIsFree /\ work.at = "rescoring"
  /\ \E s \in {"clean", "fatal", "unscored"} : work' = [work EXCEPT !.rescored = s, !.at = "gate"]
  /\ UNCHANGED <<pub, held, older, retired, parked, report, rel, revs, fatal, freed, budget>>

-----------------------------------------------------------------------------
(* Publishing a revision *)

\* Mutant of HighestVersion: the quarantine folders are not searched.
HighestPublicVersion == Max({0} \cup {v \in Revs : older[v] # 0})

HighestVersion == Max({0} \cup {v \in Revs : older[v] # 0 \/ retired[v] # 0})

\* Mutant of RotatedTo: a held version is archived beside the new resume.
RotatedToPublic(n, r) == older' = Put(older, n, r) /\ UNCHANGED retired

\* The old markdown becomes version n, out of the public folder when it was held.
RotatedTo(n, r) ==
  \/ ~work.inQuarantine /\ older' = Put(older, n, r) /\ UNCHANGED retired
  \/ work.inQuarantine /\ retired' = Put(retired, n, r) /\ UNCHANGED older

OldMd == IF work.inQuarantine THEN held["md"] ELSE pub["md"]

Rotate ==
  /\ work.at = "rotate"
  /\ work' = [work EXCEPT !.at = "publish", !.todo = Resume, !.rotated = IF OldMd = 0 THEN 0 ELSE HighestVersion + 1]
  /\ IF OldMd = 0 THEN UNCHANGED <<pub, held, older, retired>>
     ELSE /\ RotatedTo(HighestVersion + 1, OldMd)
          /\ held' = IF work.inQuarantine THEN Drop(held, "md") ELSE held
          /\ pub' = IF work.inQuarantine THEN pub ELSE Drop(pub, "md")
  /\ UNCHANGED <<parked, report, rel, revs, fatal, freed, budget>>

\* The rotation raises: the refine fails, its stage is kept.
RotateFails ==
  /\ work.at = "rotate" /\ OldMd # 0
  /\ Fault
  /\ work' = Idle("failed")
  /\ UNCHANGED <<pub, held, older, retired, parked, report, rel, revs, fatal, freed>>

\* What is public under a name that was not staged: an export of the old resume.
Outdated(n) == {<<n, r>> : r \in {pub[n]} \ {0}}

PublishOne ==
  /\ work.at = "publish" /\ work.todo # {}
  /\ LET n == First(work.todo)
     IN IF n \in work.stage
        THEN /\ pub' = Put(pub, n, work.rev) /\ UNCHANGED parked
             /\ work' = [work EXCEPT !.todo = @ \ {n}, !.stage = @ \ {n}, !.published = TRUE]
        ELSE /\ parked' = parked \cup Outdated(n)
             /\ pub' = IF Outdated(n) = {} THEN pub ELSE Drop(pub, n)
             /\ work' = [work EXCEPT !.todo = @ \ {n}]
  /\ UNCHANGED <<held, older, retired, report, rel, revs, fatal, freed, budget>>

\* Mutant of PutBack: the rotated resume stays in the archive.
PutBackNever == FALSE

PutBack == work.rotated # 0 /\ ~work.published /\ OldMd = 0

\* A rename raises: the refine fails; when nothing has landed the old resume is put
\* back, which may raise as well.
PublishFails ==
  /\ work.at = "publish" /\ work.todo # {}
  /\ First(work.todo) \in work.stage \/ Outdated(First(work.todo)) # {}
  /\ work' = Idle("failed")
  /\ LET v == work.rotated
         r == IF v = 0 THEN 0 ELSE IF work.inQuarantine THEN retired[v] ELSE older[v]
     IN \/ /\ PutBack /\ Fault
           /\ older' = IF work.inQuarantine THEN older ELSE Drop(older, v)
           /\ retired' = IF work.inQuarantine THEN Drop(retired, v) ELSE retired
           /\ pub' = IF work.inQuarantine THEN pub ELSE Put(pub, "md", r)
           /\ held' = IF work.inQuarantine THEN Put(held, "md", r) ELSE held
        \/ ~PutBack /\ Fault /\ UNCHANGED <<pub, held, older, retired>>
        \/ /\ PutBack /\ budget.faults + 2 <= MaxFaults
           /\ budget' = [budget EXCEPT !.faults = @ + 2]
           /\ UNCHANGED <<pub, held, older, retired>>
  /\ UNCHANGED <<parked, report, rel, revs, fatal, freed>>

\* The held documents of the resume.
ToRetire == Resume \cap Present(held)

Published ==
  /\ work.at = "publish" /\ work.todo = {}
  /\ work' = IF "resume" \in work.hold
             THEN [work EXCEPT !.at = "hold", !.todo = NamesOf(work.hold)]
             ELSE [work EXCEPT !.at = "retire", !.todo = ToRetire]
  /\ UNCHANGED <<pub, held, older, retired, parked, report, rel, revs, fatal, freed, budget>>

RetireOne ==
  /\ work.at = "retire" /\ work.todo # {}
  /\ LET n == Last(work.todo)
     IN /\ parked' = parked \cup {<<n, held[n]>>} /\ held' = Drop(held, n)
        /\ work' = [work EXCEPT !.todo = @ \ {n}]
  /\ UNCHANGED <<pub, older, retired, report, rel, revs, fatal, freed, budget>>

\* It raises: the refine fails here, and whatever was to be held is not.
RetireFails ==
  /\ work.at = "retire" /\ work.todo # {}
  /\ Fault
  /\ work' = Idle("failed")
  /\ UNCHANGED <<pub, held, older, retired, parked, report, rel, revs, fatal, freed>>

RetireEnds ==
  /\ work.at = "retire" /\ work.todo = {}
  /\ work' = [work EXCEPT !.at = "hold", !.todo = NamesOf(work.hold)]
  /\ UNCHANGED <<pub, held, older, retired, parked, report, rel, revs, fatal, freed, budget>>

-----------------------------------------------------------------------------
(* Release *)

\* A click, whether or not a build or a refine waits for the model meanwhile.
ReleaseStarts ==
  /\ LoopIsFree /\ budget.releases < MaxReleases
  /\ pub["md"] # 0 \/ held["md"] # 0
  /\ Present(held) # {}
  /\ budget' = [budget EXCEPT !.releases = @ + 1]
  /\ rel' = [at |-> "moving", todo |-> Present(held), moved |-> {}]
  /\ UNCHANGED <<pub, held, older, retired, parked, report, work, revs, fatal, freed>>

Movable(n) == pub[n] = 0

ReleaseOne ==
  /\ rel.at = "moving" /\ rel.todo # {}
  /\ LET n == Last(rel.todo)
     IN IF Movable(n)
        THEN /\ pub' = Put(pub, n, held[n]) /\ held' = Drop(held, n)
             /\ rel' = [rel EXCEPT !.todo = @ \ {n}, !.moved = @ \cup {n}]
             /\ freed' = freed \cup {<<n, held[n]>>}
        ELSE rel' = [rel EXCEPT !.todo = @ \ {n}] /\ UNCHANGED <<pub, held, freed>>
  /\ UNCHANGED <<older, retired, parked, report, work, revs, fatal, budget>>

\* A rename raises: the request ends there, with nothing recorded.
ReleaseFails ==
  /\ rel.at = "moving" /\ rel.todo # {} /\ Movable(Last(rel.todo))
  /\ Fault
  /\ rel' = Quiet
  /\ UNCHANGED <<pub, held, older, retired, parked, report, work, revs, fatal, freed>>

ReleaseMoved ==
  /\ rel.at = "moving" /\ rel.todo = {}
  /\ rel' = IF rel.moved = {} THEN Quiet ELSE [rel EXCEPT !.at = "recording"]
  /\ UNCHANGED <<pub, held, older, retired, parked, report, work, revs, fatal, freed, budget>>

Overridden(r) == [r EXCEPT !.state = "acknowledged_override", !.override = TRUE, !.behind = FALSE]

Records == report.state = "quarantined"

\* The user's decision is recorded only in a report that holds something.
ReleaseRecords ==
  /\ rel.at = "recording" /\ Records
  /\ report' = Overridden(report)
  /\ freed' = freed \cup {<<n, pub[n]>> : n \in Present(pub)}
  /\ rel' = Quiet
  /\ UNCHANGED <<pub, held, older, retired, parked, work, revs, fatal, budget>>

\* It cannot be recorded: the documents are put back.
ReleaseUndone ==
  /\ rel.at = "recording"
  /\ \/ ~Records /\ UNCHANGED budget
     \/ Records /\ Fault
  /\ rel' = [rel EXCEPT !.at = "undoing"]
  /\ UNCHANGED <<pub, held, older, retired, parked, report, work, revs, fatal, freed>>

UndoOne ==
  /\ rel.at = "undoing" /\ rel.moved # {}
  /\ \E n \in rel.moved :
       /\ rel' = [rel EXCEPT !.moved = @ \ {n}]
       /\ \/ held' = Put(held, n, pub[n]) /\ pub' = Drop(pub, n)
             /\ freed' = freed \ {<<n, pub[n]>>} /\ UNCHANGED budget
          \/ Fault /\ UNCHANGED <<pub, held, freed>>
  /\ UNCHANGED <<older, retired, parked, report, work, revs, fatal>>

UndoEnds ==
  /\ rel.at = "undoing" /\ rel.moved = {}
  /\ rel' = Quiet
  /\ UNCHANGED <<pub, held, older, retired, parked, report, work, revs, fatal, freed, budget>>

-----------------------------------------------------------------------------

\* The process dies; a stage it leaves is never read again.
Crash ==
  /\ work.at # "idle" \/ rel.at # "quiet"
  /\ budget.crashes < MaxCrashes
  /\ budget' = [budget EXCEPT !.crashes = @ + 1]
  /\ work' = Idle("died") /\ rel' = Quiet
  /\ UNCHANGED <<pub, held, older, retired, parked, report, revs, fatal, freed>>

Build == BuildStarts \/ BuildExports \/ BuildLetter \/ BuildScored
Refine == RefineStarts \/ RefineStages \/ RefineReads \/ RefineRescores
Publish == Rotate \/ RotateFails \/ PublishOne \/ PublishFails \/ Published
Retire == RetireOne \/ RetireFails \/ RetireEnds
Judge == Gate \/ GateCrashes \/ HoldOne \/ HoldEnds
ReleaseRequest ==
  ReleaseStarts \/ ReleaseOne \/ ReleaseFails \/ ReleaseMoved \/ ReleaseRecords \/ ReleaseUndone \/ UndoOne \/ UndoEnds

Next == Build \/ Refine \/ WorkFails \/ Judge \/ Publish \/ Retire \/ ReleaseRequest \/ Crash

Spec == Init /\ [][Next]_vars

-----------------------------------------------------------------------------
(* Properties *)

\* web/downloads.py: a report that holds the packet refuses the files it names.
Refused == IF report.state = "quarantined" THEN report.named ELSE {}
Failing(n, r) == <<Kind(n), r>> \in fatal /\ <<n, r>> \notin freed

\* Whatever fails or dies, a document the report's own verdict failed, and the user has
\* not released, is never served: the report names it before it lands or moves.
FailClosed ==
  \A n \in Names :
    /\ pub[n] = (IF n = "letter" THEN report.aboutLetter ELSE report.about)
    /\ Failing(n, pub[n])
    => n \in Refused

\* While no file operation fails and no process dies, no failed document the user has
\* not released can be downloaded at any moment, archived versions included.
Undisturbed == budget.faults = 0 /\ budget.crashes = 0
NoFailedDownload ==
  Undisturbed =>
    /\ \A n \in Present(pub) : Failing(n, pub[n]) => n \in Refused
    /\ \A v \in Revs : older[v] # 0 => ~Failing("md", older[v])

\* The resumes and letters that exist anywhere.
Kept ==
  {<<n, f[n]>> : n \in {"md", "letter"}, f \in {pub, held}} \cup {p \in parked : p[1] # "docx"}
  \cup {<<"md", older[v]>> : v \in Revs} \cup {<<"md", retired[v]>> : v \in Revs}

\* What replaces, holds or releases; a build writes over the documents of the build before.
Preserves == work.kind = "refine" \/ work.at \in {"idle", "hold"}

\* core/refine_files.py:11 says of a refine that "replaced or retired files are PARKED, never
\* deleted".  The code does not keep to it when a resume is released under the refine.
NothingLost == [][Preserves => {k \in Kept : k[2] # 0} \subseteq Kept']_vars

\* The one text a refine, a hold or a release can lose, whatever fails or dies: a resume
\* that the user released while a refine of the held one was under way, which decided
\* where the resume is before its model calls and lands in its place.
OnlyReleasedIsLost ==
  [][Preserves => \A k \in Kept :
        k[2] # 0 /\ k \notin Kept' => k = <<"md", pub["md"]>> /\ k \in freed /\ work.inQuarantine]_vars

\* A role whose resume was ever written has one, in the folder or in quarantine,
\* whenever nothing is at work on it: the process has not died, and no more than one file
\* operation failed (when a publish and then its put-back fail, it may have none).
AlwaysAResume ==
  budget.crashes = 0 /\ budget.faults <= 1 /\ work.at = "idle" /\ rel.at = "quiet" /\ (\E k \in Kept : k[1] = "md" /\ k[2] # 0) => pub["md"] # 0 \/ held["md"] # 0

\* When a refine has published undisturbed, every public document of the resume is of its
\* revision.
NoStaleExport == [][Undisturbed' /\ Published => \A n \in Resume : pub[n] \in {0, work.rev}]_vars

=============================================================================
