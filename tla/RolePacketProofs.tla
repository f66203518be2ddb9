-------------------------- MODULE RolePacketProofs --------------------------
(***************************************************************************)
(* What holds of one role's documents for any number of revisions, faults, *)
(* crashes and releases: a failed document is never served, no text is     *)
(* lost, and a resume is left.  The last part is on the lease that a       *)
(* refine of these documents takes first (RefineLease).                    *)
(***************************************************************************)
EXTENDS RolePacket, RefineLease, WellFoundedInduction, TLAPS

-----------------------------------------------------------------------------
(* Operators *)

\* The next name to move is one of those left; the markdown comes first.
LEMMA FirstIsOne ==
  ASSUME NEW names, names \subseteq Names, names # {}
  PROVE  First(names) \in names /\ ("md" \in names => First(names) = "md")
<1>1. \E n \in names : \A m \in names : Rank(n) <= Rank(m)
  <2>0. \A m \in names : m \in {"md", "docx", "letter"}
    BY DEF Names, Resume
  <2>1. CASE "md" \in names
    <3> \A m \in names : Rank("md") <= Rank(m) BY <2>0 DEF Rank
    <3> QED BY <2>1
  <2>2. CASE "md" \notin names /\ "docx" \in names
    <3> \A m \in names : Rank("docx") <= Rank(m) BY <2>0, <2>2 DEF Rank
    <3> QED BY <2>2
  <2>3. CASE "md" \notin names /\ "docx" \notin names
    <3> "letter" \in names /\ \A m \in names : m = "letter" BY <2>0, <2>3
    <3> \A m \in names : Rank("letter") <= Rank(m) BY DEF Rank
    <3> QED BY ZenonT(20)
  <2> QED BY <2>1, <2>2, <2>3
<1>2. First(names) \in names /\ \A m \in names : Rank(First(names)) <= Rank(m)
  BY <1>1 DEF First
<1> QED BY <1>2 DEF Names, Resume, Rank

LEMMA LastIsOne ==
  ASSUME NEW names, names \subseteq Names, names # {}
  PROVE  Last(names) \in names
<1>1. \E n \in names : \A m \in names : Rank(m) <= Rank(n)
  <2>0. \A m \in names : m \in {"md", "docx", "letter"}
    BY DEF Names, Resume
  <2>1. CASE "letter" \in names
    <3> \A m \in names : Rank(m) <= Rank("letter") BY <2>0 DEF Rank
    <3> QED BY <2>1
  <2>2. CASE "letter" \notin names /\ "docx" \in names
    <3> \A m \in names : Rank(m) <= Rank("docx") BY <2>0, <2>2 DEF Rank
    <3> QED BY <2>2
  <2>3. CASE "letter" \notin names /\ "docx" \notin names
    <3> "md" \in names /\ \A m \in names : m = "md" BY <2>0, <2>3
    <3> \A m \in names : Rank(m) <= Rank("md") BY DEF Rank
    <3> QED BY ZenonT(20)
  <2> QED BY <2>1, <2>2, <2>3
<1> QED BY <1>1 DEF Last

\* A bounded set of numbers with zero in it has a greatest.
LEMMA MaxIsGreatest ==
  ASSUME NEW bound \in Nat, NEW S, S \subseteq 0..bound, 0 \in S
  PROVE  Max(S) \in S /\ \A y \in S : y <= Max(S)
<1> DEFINE U == {u \in Nat : \A y \in S : y <= u}
<1>1. U \subseteq Nat /\ bound \in U
  OBVIOUS
<1>2. PICK m \in U : \A u \in U : <<u, m>> \notin OpToRel(<, Nat)
  BY <1>1, NatLessThanWellFounded, WFMin
<1>3. \A u \in U : ~ (u < m)
  BY <1>1, <1>2 DEF OpToRel
<1>4. m \in S
  <2> SUFFICES ASSUME m \notin S PROVE FALSE
    OBVIOUS
  <2>1. m # 0 /\ m - 1 \in Nat /\ \A y \in S : y <= m - 1
    BY <1>1
  <2> QED BY <1>3, <2>1
<1>5. \E x \in S : \A y \in S : x >= y
  BY <1>1, <1>4
<1> QED BY <1>1, <1>5 DEF Max

-----------------------------------------------------------------------------
(* Types and revisions *)

\* Where a task waits for a model, so that a release may run; where the gate is to come;
\* where a refine still looks for the resume it started from.
Resting == {"idle", "writing", "scoring", "rescoring"}
BeforeGate == {"writing", "scoring", "rescoring", "gate"}
BeforePublish == BeforeGate \cup {"rotate"}

\* Who is doing what: the revision at work is the newest one, only a refine rescores,
\* rotates, publishes and retires, it has its markdown staged until that lands, and a
\* release waits for none of them.
Control ==
  /\ work.at # "idle" => work.rev = revs /\ work.rev \in Revs
  /\ work.at \in {"rescoring", "rotate", "publish", "retire"} => work.kind = "refine"
  /\ work.letter <= revs
  /\ work.kind = "refine" /\ work.at \in {"scoring", "rescoring", "gate", "rotate"} => "md" \in work.stage
  /\ work.at = "publish" /\ "md" \in work.todo => "md" \in work.stage
  /\ work.at \in {"publish", "retire"} => work.todo \subseteq Resume
  /\ rel.at # "quiet" => work.at \in Resting
  /\ rel.at = "quiet" => rel.moved = {} /\ rel.todo = {}

\* What a release has moved is public and no longer held.
MovedIsPublic == \A n \in rel.moved : pub[n] # 0 /\ held[n] = 0

\* No document is of a revision to come; until the revision at work lands, what it finds
\* is older, and the versions in the archives leave it a number.
DocumentsAreOlder ==
  /\ \A n \in Names : pub[n] <= revs /\ held[n] <= revs
  /\ \A v \in Revs : /\ older[v] <= revs /\ (work.at # "idle" => older[v] < revs)
                     /\ retired[v] <= revs
                     /\ older[v] # 0 \/ retired[v] # 0 => v <= revs /\ (work.at \in BeforePublish => v < revs)
  /\ work.at \in BeforePublish \cup {"publish"} => \A n \in Names : held[n] < revs
  /\ work.kind = "refine" /\ work.at \in BeforePublish => \A n \in Names : pub[n] < revs
  /\ work.at # "idle" => \A n \in rel.moved : pub[n] < revs

\* Nor is any verdict.
VerdictsAreOlder ==
  /\ report.about <= revs /\ report.aboutLetter <= revs
  /\ \A j \in fatal : j[2] <= revs
  /\ work.at \in BeforeGate =>
       /\ report.about < revs /\ report.aboutLetter < revs
       /\ \A j \in fatal : j[2] < revs

\* What is left to retire, or to release, is held.
RetireIsHeld ==
  /\ work.at = "retire" => \A n \in work.todo : held[n] # 0
  /\ \A n \in rel.todo : held[n] # 0

Typed == TypeOK /\ RetireIsHeld /\ Control /\ MovedIsPublic /\ DocumentsAreOlder /\ VerdictsAreOlder

LEMMA Bounds ==
  MaxRevs \in Nat /\ MaxFaults \in Nat /\ MaxCrashes \in Nat /\ MaxReleases \in Nat /\ 0 \in 0..MaxRevs
<1>1. \A b \in {MaxRevs, MaxFaults, MaxCrashes, MaxReleases} : b \in Nat
  BY RolePacketAssumption
<1> QED BY <1>1

LEMMA NoReportType == NoReport \in Report
BY Bounds DEF NoReport, Report, Artifacts, Names

LEMMA IdleType ==
  ASSUME NEW how \in {"", "done", "failed", "died"}
  PROVE  /\ Idle(how) \in Work
         /\ Idle(how).at = "idle" /\ Idle(how).kind = "build" /\ Idle(how).letter = 0
         /\ Idle(how).was = NoReport
<1>1. 0 \in 0..MaxRevs
  BY Bounds
<1>2. "idle" \in Places /\ "build" \in {"build", "refine"} /\ "no" \in {"no", "clean", "fatal", "unscored"}
  BY DEF Places
<1> QED BY <1>1, <1>2, NoReportType DEF Idle, Work

LEMMA QuietType ==
  Quiet \in Release /\ Quiet.at = "quiet" /\ Quiet.moved = {} /\ Quiet.todo = {}
BY DEF Quiet, Release

LEMMA InitTyped == Init => Typed
<1> SUFFICES ASSUME Init PROVE Typed
  OBVIOUS
<1>1. /\ work.at = "idle" /\ work.kind = "build" /\ work.letter = 0 /\ work \in Work
      /\ rel.at = "quiet" /\ rel.moved = {} /\ rel.todo = {} /\ rel \in Release
  BY IdleType, QuietType DEF Init
<1>2. /\ \A n \in Names : pub[n] = 0 /\ held[n] = 0
      /\ \A v \in Revs : older[v] = 0 /\ retired[v] = 0
      /\ report.about = 0 /\ report.aboutLetter = 0 /\ report \in Report
  BY NoReportType DEF Init, NoReport
<1>3. revs = 0 /\ parked = {} /\ fatal = {} /\ freed = {}
  BY DEF Init
<1>4. budget = [faults |-> 0, crashes |-> 0, releases |-> 0]
  BY DEF Init
<1>5. TypeOK
  <2>1. 0 \in 0..MaxFaults /\ 0 \in 0..MaxCrashes /\ 0 \in 0..MaxReleases
    BY Bounds
  <2>2. budget \in [faults : 0..MaxFaults, crashes : 0..MaxCrashes, releases : 0..MaxReleases]
    BY <1>4, <2>1
  <2>3. pub \in Folder /\ held \in Folder /\ older \in [Revs -> 0..MaxRevs] /\ retired \in [Revs -> 0..MaxRevs]
    BY Bounds DEF Init, Folder
  <2> QED BY Bounds, <1>1, <1>2, <1>3, <2>2, <2>3 DEF TypeOK
<1>6. Control /\ MovedIsPublic /\ RetireIsHeld
  BY <1>1, <1>3 DEF Control, MovedIsPublic, RetireIsHeld, Resting
<1>7. DocumentsAreOlder /\ VerdictsAreOlder
  BY <1>1, <1>2, <1>3 DEF DocumentsAreOlder, VerdictsAreOlder, BeforePublish, BeforeGate
<1> QED BY <1>5, <1>6, <1>7 DEF Typed

\* The number a rotation takes is a version's, and free in both archives.
LEMMA NewVersion ==
  ASSUME Typed, work.at = "rotate"
  PROVE  /\ HighestVersion + 1 \in Revs /\ HighestVersion + 1 <= revs
         /\ older[HighestVersion + 1] = 0 /\ retired[HighestVersion + 1] = 0
<1> DEFINE S == {0} \cup {v \in Revs : older[v] # 0 \/ retired[v] # 0}
<1>1. MaxRevs \in Nat /\ revs \in 0..MaxRevs
  BY Bounds DEF Typed, TypeOK
<1>2. S \subseteq 0..MaxRevs /\ 0 \in S
  BY <1>1 DEF Revs
<1>3. Max(S) \in S /\ \A y \in S : y <= Max(S)
  BY <1>1, <1>2, MaxIsGreatest
<1>4. HighestVersion = Max(S)
  BY DEF HighestVersion
<1>5. \A v \in Revs : older[v] # 0 \/ retired[v] # 0 => v < revs
  BY DEF Typed, DocumentsAreOlder, BeforePublish
<1>6. revs >= 1
  BY <1>1 DEF Typed, Control, Revs
<1>7. HighestVersion \in 0..MaxRevs /\ HighestVersion < revs
  BY <1>1, <1>2, <1>3, <1>4, <1>5, <1>6
<1>8. HighestVersion + 1 \in Revs /\ HighestVersion + 1 <= revs
  BY <1>1, <1>7 DEF Revs
<1>9. HighestVersion + 1 \notin S
  BY <1>2, <1>3, <1>4, <1>7
<1> QED BY <1>8, <1>9

LEMMA ReportTypes ==
  ASSUME TypeOK
  PROVE  /\ NoReport \in Report
         /\ \A v \in [arts : SUBSET Artifacts, state : {"quarantined", "acknowledged_override", "ready"}] :
              NewReport(work, v) \in Report
         /\ FailureReport(work) \in Report
<1> USE DEF Report
<1>1. NoReport \in Report
  BY NoReportType
<1>2. \A v \in [arts : SUBSET Artifacts, state : {"quarantined", "acknowledged_override", "ready"}] :
        NewReport(work, v) \in Report
  <2>1. LetterFatal(work) \in BOOLEAN
    BY DEF LetterFatal, TypeOK, Work
  <2>2. \A v : Named(v, WillPublish(work)) \in SUBSET Names
    BY DEF Named, NamesOf
  <2>3. work.rev \in 0..MaxRevs /\ work.letter \in 0..MaxRevs
    BY DEF TypeOK, Work
  <2> QED BY Bounds, <2>1, <2>2, <2>3 DEF NewReport
<1>3. FailureReport(work) \in Report
  <2>1. WillPublish(work) \subseteq Names
    BY DEF WillPublish, Names, Resume
  <2>2. report.arts \subseteq Artifacts /\ report.named \subseteq Names
    BY DEF TypeOK
  <2> QED BY <1>1, <2>1, <2>2 DEF FailureReport
<1> QED BY <1>1, <1>2, <1>3

LEMMA VerdictType ==
  ASSUME NEW resumeFatal \in BOOLEAN, NEW letterFatal \in BOOLEAN, NEW waived
  PROVE  Verdict(resumeFatal, letterFatal, waived)
           \in [arts : SUBSET Artifacts, state : {"quarantined", "acknowledged_override", "ready"}]
BY DEF Verdict, Artifacts

\* What each part of the type says of the work and of the release.
LEMMA WorkTypes ==
  ASSUME TypeOK
  PROVE  /\ work \in Work /\ rel \in Release /\ report \in Report
         /\ pub \in [Names -> 0..MaxRevs] /\ held \in [Names -> 0..MaxRevs]
         /\ older \in [Revs -> 0..MaxRevs] /\ retired \in [Revs -> 0..MaxRevs]
         /\ revs \in 0..MaxRevs /\ MaxRevs \in Nat
BY Bounds DEF TypeOK, Folder

LEMMA FaultType ==
  ASSUME TypeOK, Fault
  PROVE  /\ budget' \in [faults : 0..MaxFaults, crashes : 0..MaxCrashes, releases : 0..MaxReleases]
         /\ budget'.faults = budget.faults + 1 /\ budget'.crashes = budget.crashes
         /\ budget.faults \in Nat
BY Bounds DEF TypeOK, Fault

\* Putting a revision under a name, and dropping it.
LEMMA PutType ==
  ASSUME NEW S, NEW f \in [S -> 0..MaxRevs], NEW n, NEW r \in 0..MaxRevs
  PROVE  Put(f, n, r) \in [S -> 0..MaxRevs] /\ Drop(f, n) \in [S -> 0..MaxRevs]
BY Bounds DEF Put, Drop

\* What the gate decides is well-formed, whatever it finds.
LEMMA GateTypes ==
  ASSUME TypeOK, NEW resumeFatal \in BOOLEAN
  PROVE  LET v == Verdict(resumeFatal, LetterFatal(work), Waived(work))
         IN /\ v.arts \subseteq Artifacts /\ NewReport(work, v) \in Report
            /\ NamesOf(v.arts) \subseteq Names
<1>1. LetterFatal(work) \in BOOLEAN
  BY DEF LetterFatal, TypeOK, Work, Report
<1> QED BY <1>1, VerdictType, ReportTypes DEF NamesOf

LEMMA TypeStep ==
  ASSUME Typed, Next
  PROVE  TypeOK'
<1>0. /\ TypeOK /\ work \in Work /\ rel \in Release /\ report \in Report
      /\ pub \in [Names -> 0..MaxRevs] /\ held \in [Names -> 0..MaxRevs]
      /\ older \in [Revs -> 0..MaxRevs] /\ retired \in [Revs -> 0..MaxRevs]
      /\ revs \in 0..MaxRevs /\ MaxRevs \in Nat
      /\ parked \subseteq Names \X Revs /\ fatal \subseteq Artifacts \X Revs /\ freed \subseteq Names \X Revs
  BY WorkTypes DEF Typed, TypeOK
<1>1. CASE Gate
  <2>1. PICK resumeFatal \in BOOLEAN :
          LET v == Verdict(resumeFatal, LetterFatal(work), Waived(work))
              judged == {<<"resume", work.rev>>} \cup {<<"letter", l>> : l \in {work.letter} \ {0}}
              failed == {j \in judged : IF j[1] = "resume" THEN resumeFatal ELSE LetterFatal(work)}
          IN /\ report' = NewReport(work, v)
             /\ fatal' = (fatal \ judged) \cup failed
             /\ work' = [work EXCEPT !.at = After(work), !.hold = v.arts, !.todo = NamesOf(v.arts)]
    BY <1>1 DEF Gate
  <2>2. report' \in Report
    BY <1>0, <2>1, GateTypes
  <2>3. work' \in Work
    BY <1>0, <2>1, GateTypes DEF Work, Places, After
  <2>4. work.rev \in Revs /\ \A l \in {work.letter} \ {0} : l \in Revs
    <3>1. work.at = "gate" /\ work.letter \in 0..MaxRevs
      BY <1>0, <1>1 DEF Gate, Work
    <3>2. work.rev \in Revs
      BY <3>1 DEF Typed, Control
    <3> QED BY <3>1, <3>2, <1>0 DEF Revs
  <2>5. fatal' \subseteq Artifacts \X Revs
    BY <1>0, <2>1, <2>4 DEF Artifacts
  <2> QED BY <1>0, <1>1, <2>2, <2>3, <2>5 DEF Gate, TypeOK
<1>2. CASE GateCrashes
  <2>1. KeptHold(work) \subseteq Artifacts
    BY <1>0 DEF KeptHold, Work, Report, Artifacts
  <2>2. work' \in Work
    BY <1>0, <1>2, <2>1 DEF GateCrashes, Work, Places, After, NamesOf
  <2> QED BY <1>0, <1>2, <2>2, FaultType, ReportTypes DEF GateCrashes, TypeOK
<1>3. CASE HoldOne
  <2> DEFINE n == First(work.todo)
  <2>1. n \in Names
    BY <1>0, <1>3, FirstIsOne DEF HoldOne, Work
  <2>2. work' \in Work
    BY <1>0, <1>3 DEF HoldOne, Work
  <2>3. held[n] \in 0..MaxRevs /\ pub[n] \in 0..MaxRevs
    BY <1>0, <2>1
  <2>4. {<<n, r>> : r \in {held[n]} \ {0}} \subseteq Names \X Revs
    BY <2>1, <2>3, <1>0 DEF Revs
  <2>5. parked' \subseteq Names \X Revs
    BY <1>0, <1>3, <2>4 DEF HoldOne
  <2>6. pub' \in Folder /\ held' \in Folder
    <3>1. Put(held, n, pub[n]) \in Folder /\ Drop(pub, n) \in Folder /\ Drop(held, n) \in Folder
      BY <1>0, <2>3, PutType DEF Folder
    <3> QED BY <1>0, <1>3, <3>1 DEF HoldOne, Folder
  <2>7. budget' \in [faults : 0..MaxFaults, crashes : 0..MaxCrashes, releases : 0..MaxReleases]
    BY <1>0, <1>3, FaultType DEF HoldOne, TypeOK
  <2> QED BY <1>0, <1>3, <2>2, <2>5, <2>6, <2>7 DEF HoldOne, TypeOK
<1>4. CASE HoldEnds
  BY <1>0, <1>4, IdleType DEF HoldEnds, TypeOK
<1>5. CASE BuildStarts
  <2> DEFINE w == Idle("")
  <2>1. revs + 1 \in 0..MaxRevs /\ w \in Work
    <3>1. revs + 1 \in 0..MaxRevs
      BY <1>0, <1>5 DEF BuildStarts
    <3>2. w \in Work
      BY IdleType
    <3> QED BY <3>1, <3>2
  <2> HIDE DEF w
  <2>2. [w EXCEPT !.at = "writing", !.rev = revs + 1] \in Work
    BY <2>1 DEF Work, Places
  <2> QED BY <1>0, <1>5, <2>1, <2>2 DEF BuildStarts, TypeOK, w
<1>6. CASE BuildExports
  <2>1. pub' \in Folder
    BY <1>0, <1>6 DEF BuildExports, Folder, Work
  <2>2. work' \in Work
    BY <1>0, <1>6 DEF BuildExports, Work, Places
  <2> QED BY <1>0, <1>6, <2>1, <2>2 DEF BuildExports, TypeOK
<1>7. CASE BuildLetter
  <2>1. pub' \in Folder
    BY <1>0, <1>7, PutType DEF BuildLetter, Folder, Work
  <2>2. work' \in Work
    BY <1>0, <1>7 DEF BuildLetter, Work, Places
  <2>3. report' \in Report
    BY <1>0, <1>7 DEF BuildLetter, Report
  <2> QED BY <1>0, <1>7, <2>1, <2>2, <2>3 DEF BuildLetter, TypeOK
<1>8. CASE BuildScored
  <2>1. work' \in Work
    BY <1>0, <1>8 DEF BuildScored, Work, Places
  <2> QED BY <1>0, <1>8, <2>1 DEF BuildScored, TypeOK
<1>9. CASE WorkFails
  BY <1>0, <1>9, IdleType DEF WorkFails, TypeOK
<1>10. CASE RefineStarts
  <2> DEFINE w == Idle("")
  <2>1. revs + 1 \in 0..MaxRevs /\ w \in Work
    <3>1. revs + 1 \in 0..MaxRevs
      BY <1>0, <1>10 DEF RefineStarts
    <3>2. w \in Work
      BY IdleType
    <3> QED BY <3>1, <3>2
  <2> HIDE DEF w
  <2>2. [w EXCEPT !.at = "writing", !.kind = "refine", !.rev = revs + 1, !.inQuarantine = pub["md"] = 0] \in Work
    BY <2>1 DEF Work, Places
  <2> QED BY <1>0, <1>10, <2>1, <2>2 DEF RefineStarts, TypeOK, w
<1>11. CASE RefineStages
  <2>1. work' \in Work
    <3>1. PICK staged \in {{"md"}, Resume} : work' = [work EXCEPT !.at = "scoring", !.stage = staged]
      BY <1>11 DEF RefineStages
    <3>2. staged \in SUBSET Resume
      BY DEF Resume
    <3> QED BY <1>0, <3>1, <3>2 DEF Work, Places
  <2> QED BY <1>0, <1>11, <2>1 DEF RefineStages, TypeOK
<1>12. CASE RefineReads
  <2>1. LetterFile \in 0..MaxRevs
    BY <1>0 DEF LetterFile, Names
  <2>2. work' \in Work
    BY <1>0, <1>12, <2>1 DEF RefineReads, Work, Places
  <2> QED BY <1>0, <1>12, <2>2 DEF RefineReads, TypeOK
<1>13. CASE RefineRescores
  <2>1. work' \in Work
    BY <1>0, <1>13 DEF RefineRescores, Work, Places
  <2> QED BY <1>0, <1>13, <2>1 DEF RefineRescores, TypeOK
<1>14. CASE Rotate
  <2>1. HighestVersion + 1 \in 0..MaxRevs /\ OldMd \in 0..MaxRevs
    <3>1. HighestVersion + 1 \in Revs
      BY <1>14, NewVersion DEF Rotate
    <3> QED BY <1>0, <3>1 DEF Revs, OldMd, Names, Resume
  <2>2. work' \in Work
    BY <1>0, <1>14, <2>1 DEF Rotate, Work, Places, Resume, Names
  <2>3. older' \in [Revs -> 0..MaxRevs] /\ retired' \in [Revs -> 0..MaxRevs]
    BY <1>0, <1>14, <2>1, PutType DEF Rotate, RotatedTo
  <2>4. pub' \in Folder /\ held' \in Folder
    <3>1. Drop(held, "md") \in Folder /\ Drop(pub, "md") \in Folder
      BY <1>0, <2>1, PutType DEF Folder
    <3> QED BY <1>0, <1>14, <3>1 DEF Rotate, Folder
  <2> QED BY <1>0, <1>14, <2>2, <2>3, <2>4 DEF Rotate, TypeOK
<1>15. CASE RotateFails
  BY <1>0, <1>15, IdleType, FaultType DEF RotateFails, TypeOK
<1>16. CASE PublishOne
  <2> DEFINE n == First(work.todo)
  <2>1. n \in Names
    BY <1>0, <1>16, FirstIsOne DEF PublishOne, Work
  <2>2. work' \in Work
    <3>1. \/ work' = [work EXCEPT !.todo = @ \ {n}]
          \/ work' = [work EXCEPT !.todo = @ \ {n}, !.stage = @ \ {n}, !.published = TRUE]
      BY <1>16 DEF PublishOne
    <3>2. [work EXCEPT !.todo = @ \ {n}] \in Work
      BY <1>0 DEF Work
    <3>3. [work EXCEPT !.todo = @ \ {n}, !.stage = @ \ {n}, !.published = TRUE] \in Work
      BY <1>0 DEF Work
    <3> QED BY <3>1, <3>2, <3>3
  <2>3. work.rev \in 0..MaxRevs /\ pub[n] \in 0..MaxRevs
    BY <1>0, <2>1 DEF Work
  <2>4. pub' \in Folder
    BY <1>0, <1>16, <2>3, PutType DEF PublishOne, Folder
  <2>5. Outdated(n) \subseteq Names \X Revs
    BY <1>0, <2>1, <2>3 DEF Outdated, Revs
  <2> QED BY <1>0, <1>16, <2>2, <2>4, <2>5 DEF PublishOne, TypeOK
<1>17. CASE PublishFails
  <2> DEFINE v == work.rotated
             r == IF v = 0 THEN 0 ELSE IF work.inQuarantine THEN retired[v] ELSE older[v]
  <2>1. v \in 0..MaxRevs /\ r \in 0..MaxRevs
    <3>1. v \in 0..MaxRevs /\ 0 \in 0..MaxRevs
      BY <1>0, Bounds DEF Work
    <3>2. v # 0 => v \in Revs
      BY <1>0, <3>1 DEF Revs
    <3> QED BY <1>0, <3>1, <3>2
  <2>2. older' \in [Revs -> 0..MaxRevs] /\ retired' \in [Revs -> 0..MaxRevs]
    <3>1. Drop(older, v) \in [Revs -> 0..MaxRevs] /\ Drop(retired, v) \in [Revs -> 0..MaxRevs]
      BY <1>0, <2>1, PutType
    <3> QED BY <1>0, <1>17, <3>1 DEF PublishFails
  <2>3. pub' \in Folder /\ held' \in Folder
    <3>1. Put(pub, "md", r) \in Folder /\ Put(held, "md", r) \in Folder
      BY <1>0, <2>1, PutType DEF Folder
    <3> QED BY <1>0, <1>17, <3>1 DEF PublishFails, Folder
  <2>4. budget' \in [faults : 0..MaxFaults, crashes : 0..MaxCrashes, releases : 0..MaxReleases]
    <3>1. CASE Fault
      BY <1>0, <3>1, FaultType
    <3>2. CASE budget.faults + 2 <= MaxFaults /\ budget' = [budget EXCEPT !.faults = @ + 2]
      BY <1>0, <3>2, Bounds DEF TypeOK
    <3> QED BY <1>17, <3>1, <3>2 DEF PublishFails
  <2> QED BY <1>0, <1>17, <2>2, <2>3, <2>4, IdleType DEF PublishFails, TypeOK
<1>18. CASE Published
  <2>1. work' \in Work
    BY <1>0, <1>18 DEF Published, Work, Places, NamesOf, ToRetire, Resume, Names
  <2> QED BY <1>0, <1>18, <2>1 DEF Published, TypeOK
<1>19. CASE RetireOne
  <2> DEFINE n == Last(work.todo)
  <2>1. n \in Names /\ n \in work.todo
    BY <1>0, <1>19, LastIsOne DEF RetireOne, Work
  <2>2. work' \in Work
    BY <1>0, <1>19 DEF RetireOne, Work
  <2>3. held' \in Folder
    BY <1>0, <1>19, Bounds, PutType DEF RetireOne, Folder
  <2>4. held[n] \in Revs
    BY <1>0, <1>19, <2>1 DEF RetireOne, Typed, RetireIsHeld, Revs
  <2>5. parked' \subseteq Names \X Revs
    BY <1>0, <1>19, <2>1, <2>4 DEF RetireOne
  <2> QED BY <1>0, <1>19, <2>2, <2>3, <2>5 DEF RetireOne, TypeOK
<1>20. CASE RetireFails
  BY <1>0, <1>20, IdleType, FaultType DEF RetireFails, TypeOK
<1>21. CASE RetireEnds
  <2>1. work' \in Work
    BY <1>0, <1>21 DEF RetireEnds, Work, Places, NamesOf
  <2> QED BY <1>0, <1>21, <2>1 DEF RetireEnds, TypeOK
<1>22. CASE ReleaseStarts
  <2>1. rel' \in Release
    BY <1>22 DEF ReleaseStarts, Release, Present
  <2>2. budget' \in [faults : 0..MaxFaults, crashes : 0..MaxCrashes, releases : 0..MaxReleases]
    BY <1>0, <1>22, Bounds DEF ReleaseStarts, TypeOK
  <2> QED BY <1>0, <1>22, <2>1, <2>2 DEF ReleaseStarts, TypeOK
<1>23. CASE ReleaseOne
  <2> DEFINE n == Last(rel.todo)
  <2>1. n \in Names /\ n \in rel.todo
    BY <1>0, <1>23, LastIsOne DEF ReleaseOne, Release
  <2>2. rel' \in Release
    <3>1. \/ rel' = [rel EXCEPT !.todo = @ \ {n}, !.moved = @ \cup {n}]
          \/ rel' = [rel EXCEPT !.todo = @ \ {n}]
      BY <1>23 DEF ReleaseOne
    <3>2. [rel EXCEPT !.todo = @ \ {n}] \in Release
      BY <1>0 DEF Release
    <3>3. [rel EXCEPT !.todo = @ \ {n}, !.moved = @ \cup {n}] \in Release
      BY <1>0, <2>1 DEF Release
    <3> QED BY <3>1, <3>2, <3>3
  <2>3. pub' \in Folder /\ held' \in Folder
    <3>1. Put(pub, n, held[n]) \in Folder /\ Drop(held, n) \in Folder
      BY <1>0, <2>1, PutType DEF Folder
    <3> QED BY <1>0, <1>23, <3>1 DEF ReleaseOne, Folder
  <2>4. Movable(n) => held[n] \in Revs
    BY <1>0, <1>23, <2>1 DEF ReleaseOne, Typed, RetireIsHeld, Revs
  <2>5. freed' \subseteq Names \X Revs
    BY <1>0, <1>23, <2>1, <2>4 DEF ReleaseOne
  <2> QED BY <1>0, <1>23, <2>2, <2>3, <2>5 DEF ReleaseOne, TypeOK
<1>24. CASE ReleaseFails
  BY <1>0, <1>24, QuietType, FaultType DEF ReleaseFails, TypeOK
<1>25. CASE ReleaseMoved
  <2>1. rel' \in Release
    BY <1>0, <1>25, QuietType DEF ReleaseMoved, Release
  <2> QED BY <1>0, <1>25, <2>1 DEF ReleaseMoved, TypeOK
<1>26. CASE ReleaseRecords
  <2>1. report' \in Report
    BY <1>0, <1>26 DEF ReleaseRecords, Overridden, Report
  <2>2. {<<n, pub[n]>> : n \in Present(pub)} \subseteq Names \X Revs
    BY <1>0 DEF Present, Revs
  <2> QED BY <1>0, <1>26, <2>1, <2>2, QuietType DEF ReleaseRecords, TypeOK
<1>27. CASE ReleaseUndone
  <2>1. rel' \in Release
    BY <1>0, <1>27 DEF ReleaseUndone, Release
  <2>2. budget' \in [faults : 0..MaxFaults, crashes : 0..MaxCrashes, releases : 0..MaxReleases]
    BY <1>0, <1>27, FaultType DEF ReleaseUndone, TypeOK
  <2> QED BY <1>0, <1>27, <2>1, <2>2 DEF ReleaseUndone, TypeOK
<1>28. CASE UndoOne
  <2>1. rel' \in Release
    BY <1>0, <1>28 DEF UndoOne, Release
  <2>2. budget' \in [faults : 0..MaxFaults, crashes : 0..MaxCrashes, releases : 0..MaxReleases]
    BY <1>0, <1>28, FaultType DEF UndoOne, TypeOK
  <2>3. pub' \in Folder /\ held' \in Folder
    <3>1. PICK n \in rel.moved : \/ held' = Put(held, n, pub[n]) /\ pub' = Drop(pub, n)
                                \/ UNCHANGED <<pub, held>>
      BY <1>28 DEF UndoOne
    <3>2. n \in Names
      BY <1>0 DEF Release
    <3>3. Put(held, n, pub[n]) \in Folder /\ Drop(pub, n) \in Folder
      BY <1>0, <3>2, PutType DEF Folder
    <3> QED BY <1>0, <3>1, <3>3 DEF Folder
  <2>4. freed' \subseteq Names \X Revs
    BY <1>0, <1>28 DEF UndoOne
  <2> QED BY <1>0, <1>28, <2>1, <2>2, <2>3, <2>4 DEF UndoOne, TypeOK
<1>29. CASE UndoEnds
  BY <1>0, <1>29, QuietType DEF UndoEnds, TypeOK
<1>30. CASE Crash
  <2>1. budget' \in [faults : 0..MaxFaults, crashes : 0..MaxCrashes, releases : 0..MaxReleases]
    BY <1>0, <1>30, Bounds DEF Crash, TypeOK
  <2> QED BY <1>0, <1>30, <2>1, QuietType, IdleType DEF Crash, TypeOK
<1> QED
  BY <1>1, <1>2, <1>3, <1>4, <1>5, <1>6, <1>7, <1>8, <1>9, <1>10, <1>11, <1>12, <1>13, <1>14, <1>15,
     <1>16, <1>17, <1>18, <1>19, <1>20, <1>21, <1>22, <1>23, <1>24, <1>25, <1>26, <1>27, <1>28, <1>29, <1>30
  DEF Next, Build, Refine, Publish, Retire, Judge, ReleaseRequest

-----------------------------------------------------------------------------
(* What a step changes of the work *)

SameTask == work'.kind = work.kind /\ work'.rev = work.rev /\ work'.inQuarantine = work.inQuarantine
SameReading == work'.letter = work.letter /\ work'.was = work.was /\ work'.rescored = work.rescored
SamePublish == work'.stage = work.stage /\ work'.rotated = work.rotated /\ work'.published = work.published

\* The task ends, or dies.
ToIdle == work'.at = "idle" /\ work'.kind = "build" /\ work'.letter = 0 /\ work'.was = NoReport

LEMMA EndFields ==
  HoldEnds \/ WorkFails \/ RotateFails \/ PublishFails \/ RetireFails \/ Crash => ToIdle
<1> SUFFICES ASSUME HoldEnds \/ WorkFails \/ RotateFails \/ PublishFails \/ RetireFails \/ Crash
             PROVE  ToIdle
  OBVIOUS
<1>1. PICK how \in {"", "done", "failed", "died"} : work' = Idle(how)
  BY DEF HoldEnds, WorkFails, RotateFails, PublishFails, RetireFails, Crash
<1> QED BY <1>1 DEF ToIdle, Idle

LEMMA StartFields ==
  BuildStarts \/ RefineStarts
    => /\ work'.at = "writing" /\ work'.rev = revs + 1 /\ work'.rescored = "no"
       /\ work'.letter = 0 /\ work'.was = NoReport /\ work'.todo = {} /\ work'.rotated = 0
       /\ IF BuildStarts THEN work'.kind = "build" /\ work'.inQuarantine = FALSE
          ELSE work'.kind = "refine" /\ (work'.inQuarantine <=> pub["md"] = 0)
BY DEF BuildStarts, RefineStarts, Idle

LEMMA BuildFields ==
  ASSUME TypeOK
  PROVE  /\ BuildExports => work'.at = "scoring" /\ SameTask /\ SameReading
         /\ BuildLetter => /\ work'.at = "scoring" /\ SameTask /\ work'.was = work.was
                           /\ work'.letter = work.rev /\ work'.rescored # "no"
         /\ BuildScored => work'.at = "gate" /\ SameTask /\ SameReading
<1> USE DEF SameTask, SameReading, Work
<1>1. work \in Work
  BY DEF TypeOK
<1>2. BuildExports => work'.at = "scoring" /\ SameTask /\ SameReading
  BY <1>1 DEF BuildExports
<1>3. BuildLetter => /\ work'.at = "scoring" /\ SameTask /\ work'.was = work.was
                     /\ work'.letter = work.rev /\ work'.rescored # "no"
  BY <1>1 DEF BuildLetter
<1>4. BuildScored => work'.at = "gate" /\ SameTask /\ SameReading
  BY <1>1 DEF BuildScored
<1> QED BY <1>2, <1>3, <1>4

LEMMA RefineFields ==
  ASSUME TypeOK
  PROVE  /\ RefineStages => work'.at = "scoring" /\ SameTask /\ SameReading /\ "md" \in work'.stage
         /\ RefineReads => /\ work'.at = (IF Changed THEN "rescoring" ELSE "gate") /\ SameTask
                           /\ work'.stage = work.stage /\ work'.rescored = work.rescored
                           /\ work'.letter = LetterFile /\ work'.was = report
         /\ RefineRescores => /\ work'.at = "gate" /\ SameTask /\ work'.stage = work.stage
                              /\ work'.letter = work.letter /\ work'.was = work.was
                              /\ work'.rescored # "no"
<1> USE DEF SameTask, SameReading, Work
<1>1. work \in Work
  BY DEF TypeOK
<1>2. RefineStages => work'.at = "scoring" /\ SameTask /\ SameReading /\ "md" \in work'.stage
  <2> SUFFICES ASSUME RefineStages
               PROVE  work'.at = "scoring" /\ SameTask /\ SameReading /\ "md" \in work'.stage
    OBVIOUS
  <2>1. PICK staged \in {{"md"}, Resume} : work' = [work EXCEPT !.at = "scoring", !.stage = staged]
    BY DEF RefineStages
  <2>2. "md" \in staged
    BY DEF Resume
  <2> QED BY <1>1, <2>1, <2>2
<1>3. RefineReads => /\ work'.at = (IF Changed THEN "rescoring" ELSE "gate") /\ SameTask
                     /\ work'.stage = work.stage /\ work'.rescored = work.rescored
                     /\ work'.letter = LetterFile /\ work'.was = report
  BY <1>1 DEF RefineReads
<1>4. RefineRescores => /\ work'.at = "gate" /\ SameTask /\ work'.stage = work.stage
                        /\ work'.letter = work.letter /\ work'.was = work.was
                        /\ work'.rescored # "no"
  BY <1>1 DEF RefineRescores
<1> QED BY <1>2, <1>3, <1>4

LEMMA GateFields ==
  ASSUME TypeOK, Gate \/ GateCrashes
  PROVE  /\ work'.at = After(work) /\ SameTask /\ SameReading /\ SamePublish
         /\ work'.todo = NamesOf(work'.hold)
<1> USE DEF SameTask, SameReading, SamePublish, Work
<1>1. work \in Work
  BY DEF TypeOK
<1>2. PICK arts : work' = [work EXCEPT !.at = After(work), !.hold = arts, !.todo = NamesOf(arts)]
  BY DEF Gate, GateCrashes
<1> QED BY <1>1, <1>2

LEMMA PublishFields ==
  ASSUME TypeOK
  PROVE  /\ Rotate => /\ work'.at = "publish" /\ SameTask /\ SameReading
                      /\ work'.stage = work.stage /\ work'.published = work.published
                      /\ work'.hold = work.hold /\ work'.todo = Resume
                      /\ work'.rotated = IF OldMd = 0 THEN 0 ELSE HighestVersion + 1
         /\ PublishOne => LET n == First(work.todo)
                          IN /\ work'.at = work.at /\ SameTask /\ SameReading
                             /\ work'.hold = work.hold /\ work'.rotated = work.rotated
                             /\ work'.todo = work.todo \ {n} /\ work'.stage = work.stage \ {n}
                             /\ work'.published = (work.published \/ n \in work.stage)
         /\ Published => /\ SameTask /\ SameReading /\ SamePublish /\ work'.hold = work.hold
                         /\ IF "resume" \in work.hold
                            THEN work'.at = "hold" /\ work'.todo = NamesOf(work.hold)
                            ELSE work'.at = "retire" /\ work'.todo = ToRetire
<1> USE DEF SameTask, SameReading, SamePublish, Work
<1>1. work \in Work
  BY DEF TypeOK
<1>2. Rotate => /\ work'.at = "publish" /\ SameTask /\ SameReading
                /\ work'.stage = work.stage /\ work'.published = work.published
                /\ work'.hold = work.hold /\ work'.todo = Resume
                /\ work'.rotated = IF OldMd = 0 THEN 0 ELSE HighestVersion + 1
  BY <1>1 DEF Rotate
<1>3. PublishOne => LET n == First(work.todo)
                    IN /\ work'.at = work.at /\ SameTask /\ SameReading
                       /\ work'.hold = work.hold /\ work'.rotated = work.rotated
                       /\ work'.todo = work.todo \ {n} /\ work'.stage = work.stage \ {n}
                       /\ work'.published = (work.published \/ n \in work.stage)
  BY <1>1 DEF PublishOne
<1>4. Published => /\ SameTask /\ SameReading /\ SamePublish /\ work'.hold = work.hold
                   /\ IF "resume" \in work.hold
                      THEN work'.at = "hold" /\ work'.todo = NamesOf(work.hold)
                      ELSE work'.at = "retire" /\ work'.todo = ToRetire
  BY <1>1 DEF Published
<1> QED BY <1>2, <1>3, <1>4

LEMMA MoveFields ==
  ASSUME TypeOK
  PROVE  /\ HoldOne => /\ work'.at = work.at /\ SameTask /\ SameReading /\ SamePublish
                       /\ work'.hold = work.hold /\ work'.todo = work.todo \ {First(work.todo)}
         /\ RetireOne => /\ work'.at = work.at /\ SameTask /\ SameReading /\ SamePublish
                         /\ work'.hold = work.hold /\ work'.todo = work.todo \ {Last(work.todo)}
         /\ RetireEnds => /\ work'.at = "hold" /\ SameTask /\ SameReading /\ SamePublish
                          /\ work'.hold = work.hold /\ work'.todo = NamesOf(work.hold)
<1> USE DEF SameTask, SameReading, SamePublish, Work
<1>1. work \in Work
  BY DEF TypeOK
<1>2. HoldOne => /\ work'.at = work.at /\ SameTask /\ SameReading /\ SamePublish
                 /\ work'.hold = work.hold /\ work'.todo = work.todo \ {First(work.todo)}
  BY <1>1 DEF HoldOne
<1>3. RetireOne => /\ work'.at = work.at /\ SameTask /\ SameReading /\ SamePublish
                   /\ work'.hold = work.hold /\ work'.todo = work.todo \ {Last(work.todo)}
  BY <1>1 DEF RetireOne
<1>4. RetireEnds => /\ work'.at = "hold" /\ SameTask /\ SameReading /\ SamePublish
                    /\ work'.hold = work.hold /\ work'.todo = NamesOf(work.hold)
  BY <1>1 DEF RetireEnds
<1> QED BY <1>2, <1>3, <1>4

\* A release runs while the work rests, and leaves it alone.
LEMMA ReleaseFields ==
  ASSUME TypeOK, ReleaseRequest
  PROVE  /\ UNCHANGED <<work, revs, older, retired, parked, fatal>>
         /\ rel.at = "quiet" => LoopIsFree
         /\ rel'.at = "quiet" => rel'.moved = {} /\ rel'.todo = {}
<1>0. rel \in Release
  BY DEF TypeOK
<1>1. UNCHANGED <<work, revs, older, retired, parked, fatal>> /\ (rel.at = "quiet" => LoopIsFree)
  BY DEF ReleaseRequest, ReleaseStarts, ReleaseOne, ReleaseFails, ReleaseMoved, ReleaseRecords, ReleaseUndone, UndoOne, UndoEnds
<1>2. rel' = Quiet \/ rel'.at # "quiet"
  <2>1. ReleaseStarts => rel'.at = "moving"
    BY DEF ReleaseStarts
  <2>2. ReleaseOne => rel'.at = "moving"
    BY <1>0 DEF ReleaseOne, Release
  <2>3. ReleaseMoved => rel' = Quiet \/ rel'.at = "recording"
    BY <1>0 DEF ReleaseMoved, Release
  <2>4. ReleaseUndone => rel'.at = "undoing"
    BY <1>0 DEF ReleaseUndone, Release
  <2>5. UndoOne => rel'.at = "undoing"
    BY <1>0 DEF UndoOne, Release
  <2>6. ReleaseFails \/ ReleaseRecords \/ UndoEnds => rel' = Quiet
    BY DEF ReleaseFails, ReleaseRecords, UndoEnds
  <2> QED BY <2>1, <2>2, <2>3, <2>4, <2>5, <2>6 DEF ReleaseRequest
<1> QED BY <1>1, <1>2, QuietType

\* What the steps of a release change.
LEMMA ReleaseMoves ==
  ASSUME TypeOK
  PROVE  /\ ReleaseStarts => rel'.todo = Present(held) /\ rel'.moved = {}
         /\ ReleaseOne =>
              LET n == Last(rel.todo)
              IN /\ n \in rel.todo /\ n \in Names /\ rel'.todo = rel.todo \ {n}
                 /\ IF Movable(n)
                    THEN /\ rel'.moved = rel.moved \cup {n}
                         /\ pub' = Put(pub, n, held[n]) /\ held' = Drop(held, n)
                         /\ freed' = freed \cup {<<n, held[n]>>}
                    ELSE rel'.moved = rel.moved /\ UNCHANGED <<pub, held, freed>>
         /\ UndoOne =>
              /\ rel'.todo = rel.todo
              /\ \E n \in rel.moved :
                   /\ n \in Names /\ rel'.moved = rel.moved \ {n}
                   /\ \/ /\ held' = Put(held, n, pub[n]) /\ pub' = Drop(pub, n)
                         /\ freed' = freed \ {<<n, pub[n]>>}
                      \/ UNCHANGED <<pub, held, freed>>
         /\ ReleaseFails \/ ReleaseMoved \/ ReleaseRecords \/ ReleaseUndone \/ UndoEnds =>
              rel'.todo \subseteq rel.todo /\ rel'.moved \subseteq rel.moved
<1>0. rel \in Release
  BY DEF TypeOK
<1>1. ReleaseStarts => rel'.todo = Present(held) /\ rel'.moved = {}
  BY DEF ReleaseStarts
<1>2. ReleaseOne =>
        LET n == Last(rel.todo)
        IN /\ n \in rel.todo /\ n \in Names /\ rel'.todo = rel.todo \ {n}
           /\ IF Movable(n)
              THEN /\ rel'.moved = rel.moved \cup {n}
                   /\ pub' = Put(pub, n, held[n]) /\ held' = Drop(held, n)
                   /\ freed' = freed \cup {<<n, held[n]>>}
              ELSE rel'.moved = rel.moved /\ UNCHANGED <<pub, held, freed>>
  BY <1>0, LastIsOne DEF ReleaseOne, Release
<1>3. UndoOne =>
        /\ rel'.todo = rel.todo
        /\ \E n \in rel.moved :
             /\ n \in Names /\ rel'.moved = rel.moved \ {n}
             /\ \/ /\ held' = Put(held, n, pub[n]) /\ pub' = Drop(pub, n)
                   /\ freed' = freed \ {<<n, pub[n]>>}
                \/ UNCHANGED <<pub, held, freed>>
  <2> SUFFICES ASSUME UndoOne
               PROVE  /\ rel'.todo = rel.todo
                      /\ \E n \in rel.moved :
                           /\ n \in Names /\ rel'.moved = rel.moved \ {n}
                           /\ \/ /\ held' = Put(held, n, pub[n]) /\ pub' = Drop(pub, n)
                                 /\ freed' = freed \ {<<n, pub[n]>>}
                              \/ UNCHANGED <<pub, held, freed>>
    OBVIOUS
  <2>1. PICK n \in rel.moved :
          /\ rel' = [rel EXCEPT !.moved = @ \ {n}]
          /\ \/ /\ held' = Put(held, n, pub[n]) /\ pub' = Drop(pub, n)
                /\ freed' = freed \ {<<n, pub[n]>>}
             \/ UNCHANGED <<pub, held, freed>>
    BY DEF UndoOne
  <2> QED BY <1>0, <2>1 DEF Release
<1>4. ReleaseFails \/ ReleaseMoved \/ ReleaseRecords \/ ReleaseUndone \/ UndoEnds =>
        rel'.todo \subseteq rel.todo /\ rel'.moved \subseteq rel.moved
  BY <1>0, QuietType DEF ReleaseFails, ReleaseMoved, ReleaseRecords, ReleaseUndone, UndoEnds, Release
<1> QED BY <1>1, <1>2, <1>3, <1>4

\* The steps that move documents; the others leave them where they are.
Moves ==
  HoldOne \/ BuildExports \/ BuildLetter \/ Rotate \/ PublishOne \/ PublishFails \/ RetireOne \/ ReleaseOne \/ UndoOne

LEMMA Still ==
  ASSUME Next, ~Moves
  PROVE  UNCHANGED <<pub, held, older, retired, parked>>
BY DEF Moves, Next, Build, Refine, Publish, Retire, Judge, ReleaseRequest, BuildStarts, BuildScored,
       WorkFails, RefineStarts, RefineStages, RefineReads, RefineRescores, Gate, GateCrashes,
       HoldEnds, RotateFails, Published, RetireFails, RetireEnds, ReleaseStarts, ReleaseFails,
       ReleaseMoved, ReleaseRecords, ReleaseUndone, UndoEnds, Crash

\* What a folder holds after a document was put in, or taken out.
LEMMA PutIs ==
  ASSUME NEW S, NEW f \in [S -> 0..MaxRevs], NEW n \in S, NEW r
  PROVE  \A m \in S : /\ Put(f, n, r)[m] = (IF m = n THEN r ELSE f[m])
                      /\ Drop(f, n)[m] = (IF m = n THEN 0 ELSE f[m])
BY DEF Put, Drop

LEMMA DropIs ==
  ASSUME NEW S, NEW f \in [S -> 0..MaxRevs], NEW n \in S
  PROVE  \A m \in S : Drop(f, n)[m] = (IF m = n THEN 0 ELSE f[m])
BY DEF Drop

-----------------------------------------------------------------------------
(* Control, documents and verdicts *)

\* Every other step is of the work, and leaves the release alone: a task that goes on
\* does so while none is served.
LEMMA WorkStep ==
  ASSUME Typed, Next, ~ReleaseRequest, ~Crash
  PROVE  UNCHANGED rel /\ rel.at = "quiet" /\ rel.moved = {} /\ rel.todo = {}
<1>1. \/ LoopIsFree
      \/ work.at \in {"gate", "rotate", "publish", "retire", "hold"}
  BY DEF Next, Build, Refine, Publish, Retire, Judge, BuildStarts, BuildExports, BuildLetter, BuildScored,
         WorkFails, RefineStarts, RefineStages, RefineReads, RefineRescores, Gate, GateCrashes, HoldOne,
         HoldEnds, Rotate, RotateFails, PublishOne, PublishFails, Published, RetireOne, RetireFails, RetireEnds
<1>2. UNCHANGED rel
  BY DEF Next, Build, Refine, Publish, Retire, Judge, BuildStarts, BuildExports, BuildLetter, BuildScored,
         WorkFails, RefineStarts, RefineStages, RefineReads, RefineRescores, Gate, GateCrashes, HoldOne,
         HoldEnds, Rotate, RotateFails, PublishOne, PublishFails, Published, RetireOne, RetireFails, RetireEnds
<1>3. rel.at = "quiet"
  BY <1>1 DEF LoopIsFree, Typed, Control, Resting
<1> QED BY <1>2, <1>3 DEF Typed, Control

LEMMA ControlStep ==
  ASSUME Typed, Next, TypeOK'
  PROVE  Control'
<1>0. /\ work \in Work /\ work' \in Work /\ rel' \in Release
      /\ revs \in 0..MaxRevs /\ MaxRevs \in Nat /\ revs' \in 0..MaxRevs
      /\ TypeOK /\ Control
  BY WorkTypes DEF Typed, TypeOK
<1>1. CASE ReleaseRequest
  BY <1>0, <1>1, ReleaseFields DEF Control, LoopIsFree, Resting
<1>2. CASE HoldEnds \/ WorkFails \/ RotateFails \/ PublishFails \/ RetireFails \/ Crash
  <2>1. revs' = revs /\ (rel' = rel \/ rel' = Quiet)
    BY <1>2 DEF HoldEnds, WorkFails, RotateFails, PublishFails, RetireFails, Crash
  <2> QED BY <1>0, <1>2, <2>1, EndFields, QuietType DEF Control, ToIdle, Resting
<1>3. CASE ~ReleaseRequest /\ ~(HoldEnds \/ WorkFails \/ RotateFails \/ PublishFails \/ RetireFails \/ Crash)
  <2>0. UNCHANGED rel /\ rel.at = "quiet" /\ rel.moved = {} /\ rel.todo = {}
    BY <1>3, WorkStep
  <2> USE <1>0, <2>0 DEF Control, SameTask, SameReading, SamePublish
  <2>1. CASE BuildStarts \/ RefineStarts
    BY <2>1, StartFields DEF BuildStarts, RefineStarts, Revs
  <2>2. CASE BuildExports \/ BuildLetter \/ BuildScored
    <3>1. UNCHANGED revs /\ work.kind = "build" /\ work.at # "idle"
      BY <2>2 DEF BuildExports, BuildLetter, BuildScored
    <3> QED BY <2>2, <3>1, BuildFields
  <2>3. CASE RefineStages \/ RefineReads \/ RefineRescores
    <3>1. /\ UNCHANGED revs /\ work.at # "idle" /\ work.at \in {"writing", "scoring", "rescoring"}
          /\ work.kind = "refine"
          /\ RefineReads \/ RefineRescores => work.at \in {"scoring", "rescoring"}
      BY <2>3 DEF RefineStages, RefineReads, RefineRescores
    <3>2. LetterFile <= revs
      BY DEF LetterFile, Typed, DocumentsAreOlder, Names
    <3> QED BY <2>3, <3>1, <3>2, RefineFields
  <2>4. CASE Gate \/ GateCrashes
    <3>1. UNCHANGED revs /\ work.at = "gate"
      BY <2>4 DEF Gate, GateCrashes
    <3> QED BY <2>4, <3>1, GateFields DEF After
  <2>5. CASE Rotate
    <3>1. UNCHANGED revs /\ work.at = "rotate"
      BY <2>5 DEF Rotate
    <3> QED BY <2>5, <3>1, PublishFields
  <2>6. CASE PublishOne
    <3>1. UNCHANGED revs /\ work.at = "publish" /\ work.todo # {} /\ work.todo \subseteq Names
      BY <2>6 DEF PublishOne, Work
    <3>2. "md" \in work.todo => First(work.todo) = "md"
      BY <3>1, FirstIsOne
    <3> QED BY <2>6, <3>1, <3>2, PublishFields
  <2>7. CASE Published
    <3>1. UNCHANGED revs /\ work.at = "publish" /\ ToRetire \subseteq Resume
      BY <2>7 DEF Published, ToRetire
    <3> QED BY <2>7, <3>1, PublishFields
  <2>8. CASE HoldOne \/ RetireOne \/ RetireEnds
    <3>1. UNCHANGED revs /\ work.at \in {"hold", "retire"}
      BY <2>8 DEF HoldOne, RetireOne, RetireEnds
    <3> QED BY <2>8, <3>1, MoveFields
  <2> QED BY <1>3, <2>1, <2>2, <2>3, <2>4, <2>5, <2>6, <2>7, <2>8
          DEF Next, Build, Refine, Publish, Retire, Judge
<1> QED BY <1>1, <1>2, <1>3

LEMMA RetireStep ==
  ASSUME Typed, Next, TypeOK'
  PROVE  RetireIsHeld' /\ MovedIsPublic'
<1>0. /\ TypeOK /\ work \in Work /\ rel \in Release
      /\ pub \in [Names -> 0..MaxRevs] /\ held \in [Names -> 0..MaxRevs]
      /\ Control /\ RetireIsHeld /\ MovedIsPublic
  BY WorkTypes DEF Typed
<1>1. ASSUME ReleaseRequest
      PROVE  work'.at # "retire"
  BY <1>0, <1>1, ReleaseFields DEF Control, LoopIsFree, Resting
<1>2. CASE ReleaseStarts
  BY <1>0, <1>1, <1>2, ReleaseMoves DEF ReleaseRequest, RetireIsHeld, MovedIsPublic, ReleaseStarts, Present
<1>3. CASE ReleaseOne
  <2> DEFINE n == Last(rel.todo)
  <2>1. n \in rel.todo /\ n \in Names /\ rel'.todo = rel.todo \ {n} /\ rel.todo \subseteq Names
    BY <1>0, <1>3, ReleaseMoves DEF Release
  <2>2. CASE Movable(n)
    <3>1. /\ rel'.moved = rel.moved \cup {n} /\ rel.moved \subseteq Names
          /\ \A m \in Names : /\ pub'[m] = (IF m = n THEN held[n] ELSE pub[m])
                              /\ held'[m] = (IF m = n THEN 0 ELSE held[m])
      <4>1. /\ rel'.moved = rel.moved \cup {n}
            /\ pub' = Put(pub, n, held[n]) /\ held' = Drop(held, n)
        BY <1>0, <1>3, <2>2, ReleaseMoves
      <4>2. rel.moved \subseteq Names BY <1>0 DEF Release
      <4>3. \A m \in Names : Put(pub, n, held[n])[m] = (IF m = n THEN held[n] ELSE pub[m])
        <5> DEFINE r == held[n]
        <5> HIDE DEF r
        <5> QED BY <1>0, <2>1, PutIs
      <4>4. \A m \in Names : Drop(held, n)[m] = (IF m = n THEN 0 ELSE held[m])
        BY <1>0, <2>1, DropIs
      <4> QED BY <4>1, <4>2, <4>3, <4>4
    <3> QED BY <1>0, <1>1, <1>3, <2>1, <3>1 DEF ReleaseRequest, RetireIsHeld, MovedIsPublic
  <2>3. CASE ~Movable(n)
    BY <1>0, <1>1, <1>3, <2>1, <2>3, ReleaseMoves DEF ReleaseRequest, RetireIsHeld, MovedIsPublic
  <2> QED BY <2>2, <2>3
<1>4. CASE UndoOne
  <2>1. PICK n \in rel.moved :
          /\ n \in Names /\ rel'.moved = rel.moved \ {n} /\ rel'.todo = rel.todo
          /\ \/ held' = Put(held, n, pub[n]) /\ pub' = Drop(pub, n)
             \/ UNCHANGED <<pub, held>>
    BY <1>0, <1>4, ReleaseMoves
  <2>2. rel.moved \subseteq Names /\ rel.todo \subseteq Names
    BY <1>0 DEF Release
  <2>3. CASE held' = Put(held, n, pub[n]) /\ pub' = Drop(pub, n)
    <3>1. \A m \in Names : /\ held'[m] = (IF m = n THEN pub[n] ELSE held[m])
                           /\ pub'[m] = (IF m = n THEN 0 ELSE pub[m])
      BY <1>0, <2>1, <2>3, PutIs
    <3> QED BY <1>0, <1>1, <1>4, <2>1, <2>2, <3>1 DEF ReleaseRequest, RetireIsHeld, MovedIsPublic
  <2>4. CASE UNCHANGED <<pub, held>>
    BY <1>0, <1>1, <1>4, <2>1, <2>4 DEF ReleaseRequest, RetireIsHeld, MovedIsPublic
  <2> QED BY <2>1, <2>3, <2>4
<1>5. CASE ReleaseFails \/ ReleaseMoved \/ ReleaseRecords \/ ReleaseUndone \/ UndoEnds
  <2>1. UNCHANGED <<pub, held>>
    BY <1>5 DEF ReleaseFails, ReleaseMoved, ReleaseRecords, ReleaseUndone, UndoEnds
  <2> QED BY <1>0, <1>1, <1>5, <2>1, ReleaseMoves DEF ReleaseRequest, RetireIsHeld, MovedIsPublic
<1>6. CASE Crash
  <2>1. rel' = Quiet /\ ToIdle
    BY <1>6, EndFields DEF Crash
  <2> QED BY <2>1, QuietType DEF ToIdle, RetireIsHeld, MovedIsPublic
<1>7. CASE ~ReleaseRequest /\ ~Crash
  <2>0. UNCHANGED rel /\ rel.moved = {} /\ rel.todo = {}
    BY <1>7, WorkStep
  <2>1. CASE Published
    <3>1. UNCHANGED held /\ (work'.at = "retire" => work'.todo = ToRetire)
      BY <1>0, <2>1, PublishFields DEF Published
    <3> QED BY <2>0, <3>1 DEF RetireIsHeld, MovedIsPublic, ToRetire, Present
  <2>2. CASE RetireOne
    <3> DEFINE n == Last(work.todo)
    <3>1. work.at = "retire" /\ work.todo \subseteq Names /\ n \in Names /\ work'.todo = work.todo \ {n}
      BY <1>0, <2>2, MoveFields, LastIsOne DEF RetireOne, Work
    <3>2. \A m \in Names : m # n => held'[m] = held[m]
      BY <1>0, <2>2, <3>1, PutIs DEF RetireOne
    <3> QED BY <1>0, <2>0, <3>1, <3>2 DEF RetireIsHeld, MovedIsPublic
  <2>3. CASE ~Published /\ ~RetireOne
    <3>1. work'.at # "retire"
      BY <1>0, <1>7, <2>3, EndFields, StartFields, BuildFields, RefineFields, GateFields, PublishFields, MoveFields
         DEF Next, Build, Refine, Publish, Retire, Judge, ToIdle, After, PublishOne, HoldOne
    <3> QED BY <2>0, <3>1 DEF RetireIsHeld, MovedIsPublic
  <2> QED BY <2>1, <2>2, <2>3
<1> QED BY <1>2, <1>3, <1>4, <1>5, <1>6, <1>7 DEF ReleaseRequest

\* What each step that moves documents does to each of them.
LEMMA HoldIs ==
  ASSUME TypeOK, HoldOne
  PROVE  LET n == First(work.todo)
         IN /\ n \in Names /\ n \in work.todo /\ UNCHANGED <<older, retired>>
            /\ \A m \in Names : m # n => pub'[m] = pub[m] /\ held'[m] = held[m]
            /\ \/ pub[n] = 0 /\ UNCHANGED <<pub, held, parked, budget>>
               \/ /\ pub[n] # 0 /\ pub'[n] = 0 /\ held'[n] = pub[n] /\ UNCHANGED budget
                  /\ parked' = parked \cup {<<n, r>> : r \in {held[n]} \ {0}}
               \/ /\ pub[n] # 0 /\ UNCHANGED pub /\ Fault
                  /\ \/ UNCHANGED <<held, parked>>
                     \/ held'[n] = 0 /\ parked' = parked \cup {<<n, r>> : r \in {held[n]} \ {0}}
<1> DEFINE n == First(work.todo)
<1>1. n \in Names /\ n \in work.todo
  BY FirstIsOne DEF HoldOne, TypeOK, Work
<1>2. \A m \in Names : /\ Drop(held, n)[m] = (IF m = n THEN 0 ELSE held[m])
                       /\ Drop(pub, n)[m] = (IF m = n THEN 0 ELSE pub[m])
  BY <1>1, WorkTypes, PutIs
<1>3. Put(held, n, pub[n])[n] = pub[n] /\ \A m \in Names : m # n => Put(held, n, pub[n])[m] = held[m]
  BY <1>1, WorkTypes, PutIs
<1> HIDE DEF n
<1> QED BY <1>1, <1>2, <1>3 DEF HoldOne, n

LEMMA RotateIs ==
  ASSUME Typed, Rotate
  PROVE  LET v == HighestVersion + 1
         IN \/ OldMd = 0 /\ UNCHANGED <<pub, held, older, retired>>
            \/ /\ OldMd # 0 /\ v \in Revs /\ v <= revs /\ older[v] = 0 /\ retired[v] = 0
               /\ \A m \in Names : m # "md" => pub'[m] = pub[m] /\ held'[m] = held[m]
               /\ \A u \in Revs : u # v => older'[u] = older[u] /\ retired'[u] = retired[u]
               /\ IF work.inQuarantine
                  THEN held'["md"] = 0 /\ retired'[v] = held["md"] /\ UNCHANGED <<pub, older>>
                  ELSE pub'["md"] = 0 /\ older'[v] = pub["md"] /\ UNCHANGED <<held, retired>>
<1> DEFINE v == HighestVersion + 1
<1>1. v \in Revs /\ v <= revs /\ older[v] = 0 /\ retired[v] = 0
  BY NewVersion DEF Rotate
<1>2. TypeOK /\ "md" \in Names
  BY DEF Typed, Names, Resume
<1>3. /\ \A m \in Names : /\ Drop(held, "md")[m] = (IF m = "md" THEN 0 ELSE held[m])
                          /\ Drop(pub, "md")[m] = (IF m = "md" THEN 0 ELSE pub[m])
      /\ \A u \in Revs : /\ Put(older, v, OldMd)[u] = (IF u = v THEN OldMd ELSE older[u])
                         /\ Put(retired, v, OldMd)[u] = (IF u = v THEN OldMd ELSE retired[u])
  BY <1>1, <1>2, WorkTypes, PutIs
<1> HIDE DEF v
<1>4. CASE OldMd = 0
  BY <1>4 DEF Rotate
<1>5. CASE OldMd # 0 /\ work.inQuarantine
  <2>1. retired' = Put(retired, v, OldMd) /\ held' = Drop(held, "md") /\ UNCHANGED <<pub, older>> /\ OldMd = held["md"]
    BY <1>5 DEF Rotate, RotatedTo, OldMd, v
  <2> QED BY <1>1, <1>2, <1>3, <1>5, <2>1 DEF v
<1>6. CASE OldMd # 0 /\ ~work.inQuarantine
  <2>1. older' = Put(older, v, OldMd) /\ pub' = Drop(pub, "md") /\ UNCHANGED <<held, retired>> /\ OldMd = pub["md"]
    BY <1>6 DEF Rotate, RotatedTo, OldMd, v
  <2> QED BY <1>1, <1>2, <1>3, <1>6, <2>1 DEF v
<1> QED BY <1>4, <1>5, <1>6

LEMMA PublishIs ==
  ASSUME TypeOK, PublishOne
  PROVE  LET n == First(work.todo)
         IN /\ n \in Names /\ n \in work.todo /\ UNCHANGED <<held, older, retired>>
            /\ "md" \in work.todo => n = "md"
            /\ \A m \in Names : m # n => pub'[m] = pub[m]
            /\ IF n \in work.stage THEN pub'[n] = work.rev /\ UNCHANGED parked
               ELSE pub'[n] = 0 /\ parked' = parked \cup Outdated(n)
<1> DEFINE n == First(work.todo)
<1>1. n \in Names /\ n \in work.todo /\ ("md" \in work.todo => n = "md")
  BY FirstIsOne DEF PublishOne, TypeOK, Work
<1>2. \A m \in Names : /\ Put(pub, n, work.rev)[m] = (IF m = n THEN work.rev ELSE pub[m])
                       /\ Drop(pub, n)[m] = (IF m = n THEN 0 ELSE pub[m])
  BY <1>1, WorkTypes, PutIs
<1>3. Outdated(n) = {} => pub[n] = 0
  BY DEF Outdated
<1> HIDE DEF n
<1> QED BY <1>1, <1>2, <1>3 DEF PublishOne, n

LEMMA PublishFailsIs ==
  ASSUME TypeOK, PublishFails
  PROVE  /\ UNCHANGED parked /\ work.at = "publish" /\ work.todo # {}
         /\ budget'.crashes = budget.crashes
         /\ \/ /\ PutBack /\ Fault /\ work.rotated \in Revs
               /\ \A m \in Names : m # "md" => pub'[m] = pub[m] /\ held'[m] = held[m]
               /\ \A u \in Revs : u # work.rotated => older'[u] = older[u] /\ retired'[u] = retired[u]
               /\ IF work.inQuarantine
                  THEN /\ held'["md"] = retired[work.rotated] /\ retired'[work.rotated] = 0
                       /\ UNCHANGED <<pub, older>>
                  ELSE /\ pub'["md"] = older[work.rotated] /\ older'[work.rotated] = 0
                       /\ UNCHANGED <<held, retired>>
            \/ ~PutBack /\ Fault /\ UNCHANGED <<pub, held, older, retired>>
            \/ PutBack /\ budget'.faults = budget.faults + 2 /\ UNCHANGED <<pub, held, older, retired>>
<1> DEFINE v == work.rotated
<1>0. "md" \in Names /\ budget \in [faults : 0..MaxFaults, crashes : 0..MaxCrashes, releases : 0..MaxReleases]
  BY DEF Names, Resume, TypeOK
<1>1. UNCHANGED parked /\ work.at = "publish" /\ work.todo # {}
  BY DEF PublishFails
<1>2. PutBack => v \in Revs /\ v # 0
  <2>1. v \in 0..MaxRevs /\ MaxRevs \in Nat
    BY Bounds DEF TypeOK, Work
  <2> QED BY <2>1 DEF PutBack, Revs
<1>3. Fault => budget'.crashes = budget.crashes
  BY FaultType
<1>4. \/ /\ PutBack /\ Fault
         /\ older' = IF work.inQuarantine THEN older ELSE Drop(older, v)
         /\ retired' = IF work.inQuarantine THEN Drop(retired, v) ELSE retired
         /\ pub' = IF work.inQuarantine THEN pub ELSE Put(pub, "md", older[v])
         /\ held' = IF work.inQuarantine THEN Put(held, "md", retired[v]) ELSE held
      \/ ~PutBack /\ Fault /\ UNCHANGED <<pub, held, older, retired>>
      \/ PutBack /\ budget' = [budget EXCEPT !.faults = @ + 2] /\ UNCHANGED <<pub, held, older, retired>>
  BY <1>2 DEF PublishFails
<1>5. CASE /\ PutBack /\ Fault
           /\ older' = IF work.inQuarantine THEN older ELSE Drop(older, v)
           /\ retired' = IF work.inQuarantine THEN Drop(retired, v) ELSE retired
           /\ pub' = IF work.inQuarantine THEN pub ELSE Put(pub, "md", older[v])
           /\ held' = IF work.inQuarantine THEN Put(held, "md", retired[v]) ELSE held
  <2>1. \A m \in Names : Put(held, "md", retired[v])[m] = (IF m = "md" THEN retired[v] ELSE held[m])
    BY <1>0, WorkTypes, PutIs
  <2>2. \A m \in Names : Put(pub, "md", older[v])[m] = (IF m = "md" THEN older[v] ELSE pub[m])
    BY <1>0, WorkTypes, PutIs
  <2>3. \A u \in Revs : /\ Drop(older, v)[u] = (IF u = v THEN 0 ELSE older[u])
                        /\ Drop(retired, v)[u] = (IF u = v THEN 0 ELSE retired[u])
    <3>1. v \in Revs /\ older \in [Revs -> 0..MaxRevs] /\ retired \in [Revs -> 0..MaxRevs]
      BY <1>2, <1>5, WorkTypes
    <3>2. \A u \in Revs : Drop(older, v)[u] = (IF u = v THEN 0 ELSE older[u])
      BY <3>1, PutIs
    <3>3. \A u \in Revs : Drop(retired, v)[u] = (IF u = v THEN 0 ELSE retired[u])
      BY <3>1, PutIs
    <3> QED BY <3>2, <3>3
  <2> QED BY <1>0, <1>1, <1>2, <1>3, <1>5, <2>1, <2>2, <2>3
<1>6. CASE ~PutBack /\ Fault /\ UNCHANGED <<pub, held, older, retired>>
  BY <1>1, <1>3, <1>6
<1>7. CASE PutBack /\ budget' = [budget EXCEPT !.faults = @ + 2] /\ UNCHANGED <<pub, held, older, retired>>
  BY <1>0, <1>1, <1>7
<1> QED BY <1>4, <1>5, <1>6, <1>7

LEMMA DocumentsStep ==
  ASSUME Typed, Next, TypeOK', Control'
  PROVE  DocumentsAreOlder'
<1>0. /\ TypeOK /\ work \in Work /\ rel \in Release /\ rel.moved \subseteq Names
      /\ \A n \in Names : pub[n] \in Nat /\ held[n] \in Nat
      /\ \A v \in Revs : older[v] \in Nat /\ retired[v] \in Nat /\ v \in Nat
      /\ pub \in [Names -> 0..MaxRevs] /\ held \in [Names -> 0..MaxRevs]
      /\ revs \in Nat /\ "md" \in Names
      /\ Control /\ DocumentsAreOlder
  BY WorkTypes DEF Typed, Release, Names, Resume, Revs
<1>1. CASE ReleaseRequest
  <2>0. /\ UNCHANGED <<work, revs, older, retired>> /\ work.at \in Resting
    BY <1>0, <1>1, ReleaseFields DEF Control, LoopIsFree, Resting
  <2>1. CASE ReleaseOne
    <3> DEFINE n == Last(rel.todo)
    <3>1. CASE Movable(n)
      <4>1. /\ n \in Names /\ rel'.moved = rel.moved \cup {n}
            /\ \A m \in Names : /\ pub'[m] = (IF m = n THEN held[n] ELSE pub[m])
                                /\ held'[m] = (IF m = n THEN 0 ELSE held[m])
        BY <1>0, <2>1, <3>1, ReleaseMoves, PutIs
      <4> HIDE DEF n
      <4>2. work.at # "idle" => held[n] < revs /\ revs > 0
        BY <1>0, <2>0, <4>1 DEF DocumentsAreOlder, Resting, BeforePublish, BeforeGate
      <4> QED BY <1>0, <2>0, <4>1, <4>2 DEF DocumentsAreOlder
    <3>2. CASE ~Movable(n)
      BY <1>0, <2>0, <2>1, <3>2, ReleaseMoves DEF DocumentsAreOlder
    <3> QED BY <3>1, <3>2
  <2>2. CASE UndoOne
    <3>1. PICK n \in rel.moved :
            /\ n \in Names /\ rel'.moved = rel.moved \ {n}
            /\ \/ held' = Put(held, n, pub[n]) /\ pub' = Drop(pub, n)
               \/ UNCHANGED <<pub, held>>
      BY <1>0, <2>2, ReleaseMoves
    <3>2. CASE held' = Put(held, n, pub[n]) /\ pub' = Drop(pub, n)
      <4>1. \A m \in Names : held'[m] = (IF m = n THEN pub[n] ELSE held[m])
        BY <1>0, <3>1, <3>2, PutIs
      <4>2. \A m \in Names : pub'[m] = (IF m = n THEN 0 ELSE pub[m])
        BY <1>0, <3>1, <3>2, DropIs
      <4>3. pub[n] <= revs /\ (work.at # "idle" => pub[n] < revs /\ revs > 0)
        BY <1>0, <3>1 DEF DocumentsAreOlder
      <4>4. \A m \in Names : pub'[m] <= revs /\ held'[m] <= revs
        BY <1>0, <4>1, <4>2, <4>3 DEF DocumentsAreOlder
      <4>5. work.at \in BeforePublish \cup {"publish"} => \A m \in Names : held'[m] < revs
        BY <1>0, <2>0, <4>1, <4>3 DEF DocumentsAreOlder, Resting, BeforePublish, BeforeGate
      <4>6. work.kind = "refine" /\ work.at \in BeforePublish => \A m \in Names : pub'[m] < revs
        BY <1>0, <2>0, <4>2, <4>3 DEF DocumentsAreOlder, Resting, BeforePublish, BeforeGate
      <4>7. work.at # "idle" => \A m \in rel'.moved : pub'[m] < revs
        BY <1>0, <3>1, <4>2 DEF DocumentsAreOlder
      <4> QED BY <1>0, <2>0, <4>4, <4>5, <4>6, <4>7 DEF DocumentsAreOlder
    <3>3. CASE UNCHANGED <<pub, held>>
      BY <1>0, <2>0, <3>1, <3>3 DEF DocumentsAreOlder
    <3> QED BY <3>1, <3>2, <3>3
  <2>3. CASE ~ReleaseOne /\ ~UndoOne
    <3>1. UNCHANGED <<pub, held>> /\ rel'.moved \subseteq rel.moved
      BY <1>0, <1>1, <2>3, ReleaseMoves
         DEF ReleaseRequest, ReleaseStarts, ReleaseFails, ReleaseMoved, ReleaseRecords, ReleaseUndone, UndoEnds
    <3> QED BY <1>0, <2>0, <3>1 DEF DocumentsAreOlder
  <2> QED BY <2>1, <2>2, <2>3
<1>2. CASE HoldEnds \/ WorkFails \/ RotateFails \/ RetireFails \/ Crash
  <2>1. UNCHANGED <<revs, pub, held, older, retired>>
    BY <1>2 DEF HoldEnds, WorkFails, RotateFails, RetireFails, Crash
  <2> QED BY <1>0, <1>2, <2>1, EndFields DEF DocumentsAreOlder, ToIdle, BeforePublish, BeforeGate
<1>3. CASE PublishFails
  <2>1. ToIdle /\ UNCHANGED revs
    BY <1>3, EndFields DEF PublishFails
  <2>2. CASE UNCHANGED <<pub, held, older, retired>>
    BY <1>0, <2>1, <2>2 DEF DocumentsAreOlder, ToIdle, BeforePublish, BeforeGate
  <2>3. CASE ~UNCHANGED <<pub, held, older, retired>>
    <3>1. /\ work.rotated \in Revs
          /\ \A m \in Names : m # "md" => pub'[m] = pub[m] /\ held'[m] = held[m]
          /\ \A u \in Revs : u # work.rotated => older'[u] = older[u] /\ retired'[u] = retired[u]
          /\ IF work.inQuarantine
             THEN /\ held'["md"] = retired[work.rotated] /\ retired'[work.rotated] = 0
                  /\ UNCHANGED <<pub, older>>
             ELSE /\ pub'["md"] = older[work.rotated] /\ older'[work.rotated] = 0
                  /\ UNCHANGED <<held, retired>>
      BY <1>0, <1>3, <2>3, PublishFailsIs
    <3> QED BY <1>0, <2>1, <3>1 DEF DocumentsAreOlder, ToIdle, BeforePublish, BeforeGate
  <2> QED BY <2>2, <2>3
<1>4. CASE ~ReleaseRequest /\ ~(HoldEnds \/ WorkFails \/ RotateFails \/ PublishFails \/ RetireFails \/ Crash)
  <2>0. UNCHANGED rel /\ rel.moved = {}
    BY <1>4, WorkStep
  <2> USE <1>0, <2>0 DEF DocumentsAreOlder, SameTask, BeforePublish, BeforeGate
  <2>1. CASE BuildStarts \/ RefineStarts
    <3>1. revs' = revs + 1 /\ UNCHANGED <<pub, held, older, retired>> /\ work.at = "idle"
      BY <2>1 DEF BuildStarts, RefineStarts
    <3> QED BY <3>1
  <2>2. CASE BuildExports \/ BuildLetter
    <3>1. /\ UNCHANGED <<revs, held, older, retired>> /\ work.kind = "build"
          /\ work.at \in {"writing", "scoring"} /\ work.rev = revs
      BY <2>2 DEF BuildExports, BuildLetter, Control
    <3>2. \A m \in Names : pub'[m] = pub[m] \/ pub'[m] = revs
      <4>1. CASE BuildExports
        BY <3>1, <4>1 DEF BuildExports
      <4>2. CASE BuildLetter
        <5>1. "letter" \in Names /\ pub' = Put(pub, "letter", work.rev)
          BY <4>2 DEF BuildLetter, Names
        <5> QED BY <3>1, <5>1, PutIs
      <4> QED BY <2>2, <4>1, <4>2
    <3> QED BY <2>2, <3>1, <3>2, BuildFields
  <2>3. CASE BuildScored \/ RefineStages \/ RefineReads \/ RefineRescores \/ Gate \/ GateCrashes
    <3>1. /\ UNCHANGED <<revs, pub, held, older, retired>> /\ work.at \in BeforeGate
      BY <2>3 DEF BuildScored, RefineStages, RefineReads, RefineRescores, Gate, GateCrashes
    <3>2. work'.kind = work.kind
      BY <2>3, BuildFields, RefineFields, GateFields
    <3> QED BY <3>1, <3>2
  <2>4. CASE Rotate
    <3>1. work.at = "rotate" /\ work'.at = "publish" /\ work.kind = "refine" /\ UNCHANGED revs
      BY <2>4, PublishFields DEF Rotate, Control
    <3>2. CASE OldMd = 0
      <4>1. UNCHANGED <<pub, held, older, retired>>
        BY <2>4, <3>2 DEF Rotate
      <4> QED BY <3>1, <4>1
    <3>3. CASE OldMd # 0
      <4> DEFINE v == HighestVersion + 1
      <4>1. /\ v \in Revs /\ v <= revs
            /\ \A m \in Names : m # "md" => pub'[m] = pub[m] /\ held'[m] = held[m]
            /\ \A u \in Revs : u # v => older'[u] = older[u] /\ retired'[u] = retired[u]
            /\ IF work.inQuarantine
               THEN held'["md"] = 0 /\ retired'[v] = held["md"] /\ UNCHANGED <<pub, older>>
               ELSE pub'["md"] = 0 /\ older'[v] = pub["md"] /\ UNCHANGED <<held, retired>>
        BY <2>4, <3>3, RotateIs
      <4> HIDE DEF v
      <4>2. revs > 0
        BY <3>1
      <4> QED BY <3>1, <4>1, <4>2
    <3> QED BY <3>2, <3>3
  <2>5. CASE PublishOne
    <3>1. /\ work.at = "publish" /\ work'.at = "publish" /\ UNCHANGED <<revs, held, older, retired>>
          /\ work.rev = revs
      BY <2>5, PublishFields DEF PublishOne, Control
    <3>2. \A m \in Names : pub'[m] \in {pub[m], 0, revs}
      BY <2>5, <3>1, PublishIs
    <3> QED BY <3>1, <3>2
  <2>6. CASE Published \/ RetireEnds
    <3>1. UNCHANGED <<revs, pub, held, older, retired>> /\ work.at # "idle" /\ work'.at \in {"hold", "retire"}
      BY <2>6, PublishFields, MoveFields DEF Published, RetireEnds
    <3> QED BY <3>1
  <2>7. CASE RetireOne
    <3>1. /\ work.at = "retire" /\ work'.at = "retire" /\ UNCHANGED <<revs, pub, older, retired>>
          /\ Last(work.todo) \in Names
      BY <2>7, MoveFields, LastIsOne DEF RetireOne, Work
    <3>2. \A m \in Names : held'[m] \in {held[m], 0}
      <4>1. held' = Drop(held, Last(work.todo))
        BY <2>7 DEF RetireOne
      <4> QED BY <1>0, <3>1, <4>1, PutIs
    <3> QED BY <3>1, <3>2
  <2>8. CASE HoldOne
    <3>1. work.at = "hold" /\ work'.at = "hold" /\ UNCHANGED <<revs, older, retired>>
      BY <2>8, MoveFields DEF HoldOne
    <3>2. \A m \in Names : pub'[m] \in {pub[m], 0} /\ held'[m] \in {held[m], 0, pub[m]}
      BY <2>8, HoldIs
    <3> QED BY <3>1, <3>2
  <2> QED BY <1>4, <2>1, <2>2, <2>3, <2>4, <2>5, <2>6, <2>7, <2>8
          DEF Next, Build, Refine, Publish, Retire, Judge
<1> QED BY <1>1, <1>2, <1>3, <1>4

LEMMA VerdictsStep ==
  ASSUME Typed, Next, TypeOK', Control'
  PROVE  VerdictsAreOlder'
<1>0. /\ TypeOK /\ work \in Work /\ revs \in Nat /\ Control /\ VerdictsAreOlder
      /\ report \in Report /\ report.about \in Nat /\ report.aboutLetter \in Nat
      /\ \A j \in fatal : j[2] \in Nat
  <2>1. TypeOK /\ Control /\ VerdictsAreOlder
    BY DEF Typed
  <2>2. work \in Work /\ report \in Report /\ revs \in Nat
    BY <2>1, WorkTypes
  <2>3. report.about \in Nat /\ report.aboutLetter \in Nat
    BY <2>2, Bounds DEF Report
  <2>4. \A j \in fatal : j[2] \in Nat
    BY <2>1, Bounds DEF TypeOK, Revs
  <2> QED BY <2>1, <2>2, <2>3, <2>4
<1> USE <1>0 DEF VerdictsAreOlder, BeforeGate
<1>1. CASE Gate
  <2>1. /\ work.at = "gate" /\ work.rev = revs /\ work.letter <= revs /\ UNCHANGED revs
        /\ work'.at \notin BeforeGate
    BY <1>1, GateFields DEF Gate, Control, After
  <2>2. report'.about = work.rev /\ report'.aboutLetter = work.letter
    BY <1>1 DEF Gate, NewReport
  <2>3. \A j \in fatal' : j \in fatal \/ j[2] = work.rev \/ j[2] = work.letter
    BY <1>1 DEF Gate
  <2> QED BY <2>1, <2>2, <2>3
<1>2. CASE GateCrashes
  <2>1. UNCHANGED <<revs, fatal>> /\ work'.at \notin BeforeGate
    BY <1>2, GateFields DEF GateCrashes, After
  <2>2. report' = report \/ (report'.about = 0 /\ report'.aboutLetter = 0)
    BY <1>2 DEF GateCrashes, FailureReport, NoReport
  <2> QED BY <2>1, <2>2
<1>3. CASE ReleaseRequest
  <2>1. UNCHANGED <<revs, fatal, work>>
    BY <1>3, ReleaseFields
  <2>2. report'.about = report.about /\ report'.aboutLetter = report.aboutLetter
    BY <1>3 DEF ReleaseRequest, ReleaseStarts, ReleaseOne, ReleaseFails, ReleaseMoved, ReleaseRecords,
                ReleaseUndone, UndoOne, UndoEnds, Overridden, Report
  <2> QED BY <2>1, <2>2
<1>4. CASE ~Gate /\ ~GateCrashes /\ ~ReleaseRequest
  <2>1. UNCHANGED fatal /\ report'.about = report.about /\ report'.aboutLetter = report.aboutLetter
    <3>1. CASE BuildLetter
      BY <3>1 DEF BuildLetter, Report
    <3>2. CASE ~BuildLetter
      BY <1>4, <3>2 DEF Next, Build, Refine, Publish, Retire, Judge, BuildStarts, BuildExports, BuildScored,
         WorkFails, RefineStarts, RefineStages, RefineReads, RefineRescores, HoldOne,
         HoldEnds, Rotate, RotateFails, PublishOne, PublishFails, Published, RetireOne, RetireFails, RetireEnds, Crash
    <3> QED BY <3>1, <3>2
  <2>2. CASE BuildStarts \/ RefineStarts
    <3>1. revs' = revs + 1
      BY <2>2 DEF BuildStarts, RefineStarts
    <3> QED BY <2>1, <3>1
  <2>3. CASE ~BuildStarts /\ ~RefineStarts
    <3>1. UNCHANGED revs
      BY <1>4, <2>3 DEF Next, Build, Refine, Publish, Retire, Judge, BuildExports, BuildLetter, BuildScored,
         WorkFails, RefineStages, RefineReads, RefineRescores, HoldOne,
         HoldEnds, Rotate, RotateFails, PublishOne, PublishFails, Published, RetireOne, RetireFails, RetireEnds, Crash
    <3>2. work'.at \in BeforeGate => work.at \in BeforeGate
      BY <1>4, <2>3, EndFields, BuildFields, RefineFields, PublishFields, MoveFields
         DEF Next, Build, Refine, Publish, Retire, Judge, ToIdle, BuildExports, BuildLetter, BuildScored,
             RefineStages, RefineReads, RefineRescores, PublishOne, HoldOne, RetireOne
    <3> QED BY <2>1, <3>1, <3>2
  <2> QED BY <2>2, <2>3
<1> QED BY <1>1, <1>2, <1>3, <1>4

LEMMA NextTyped == Typed /\ [Next]_vars => Typed'
<1> SUFFICES ASSUME Typed, [Next]_vars PROVE Typed'
  OBVIOUS
<1>1. CASE Next
  <2>1. TypeOK'
    BY <1>1, TypeStep
  <2>2. Control'
    BY <1>1, <2>1, ControlStep
  <2> QED BY <1>1, <2>1, <2>2, RetireStep, DocumentsStep, VerdictsStep DEF Typed
<1>2. CASE UNCHANGED vars
  BY <1>2 DEF vars, Typed, TypeOK, Control, RetireIsHeld, MovedIsPublic, DocumentsAreOlder, VerdictsAreOlder
<1> QED BY <1>1, <1>2

\* Type correctness of one role's documents, for any number of revisions and faults.
THEOREM PacketTypes == Spec => []TypeOK
<1>1. Typed => TypeOK
  BY DEF Typed
<1> QED BY <1>1, InitTyped, NextTyped, PTL DEF Spec

-----------------------------------------------------------------------------
(* No failed document is served that its report does not refuse *)

\* A letter whose release is on record, and that was not written again since, was freed.
ReleasedIsFreed ==
  report.state = "acknowledged_override" /\ report.override /\ ~report.behind
    => pub["letter"] = 0 \/ <<"letter", pub["letter"]>> \in freed

\* At the gate a refine that did not score the letter again goes by the report there is.
CarriesTheReport ==
  /\ work.at = "gate" /\ work.kind = "refine" /\ work.rescored = "no"
       => work.was = report /\ work.letter = LetterFile /\ ~Changed
  /\ work.kind = "build" => work.was = NoReport

\* The resume that a failed revision is about to replace is refused before it lands.
NamedBeforeLanding ==
  work.at \in {"rotate", "publish"} /\ report.about = work.rev /\ <<"resume", work.rev>> \in fatal
    => Resume \subseteq Refused

\* So is the one that may be put back.
NamedBeforePutBack ==
  /\ work.at = "publish" /\ work.rotated # 0 /\ ~work.inQuarantine /\ ~work.published
  /\ older[work.rotated] = report.about /\ Failing("md", older[work.rotated])
  => "md" \in Refused

ClosedInv == Typed /\ FailClosed /\ ReleasedIsFreed /\ CarriesTheReport /\ NamedBeforeLanding /\ NamedBeforePutBack

\* A verdict is on a document there is.
LEMMA FailingIsReal ==
  ASSUME TypeOK, NEW n \in Names, NEW r, Failing(n, r)
  PROVE  r \in Revs
BY DEF TypeOK, Failing

LEMMA NextFailingIsReal ==
  ASSUME TypeOK', NEW a, NEW r, <<a, r>> \in fatal'
  PROVE  r # 0
<1>1. fatal' \subseteq Artifacts \X Revs
  BY DEF TypeOK
<1>2. r \in Revs
  BY <1>1
<1> QED BY <1>2, Bounds DEF Revs

\* The gate: what it finds fatal it holds, but a letter that the user released.
LEMMA GateIs ==
  ASSUME ClosedInv, Gate
  PROVE  /\ work.at = "gate" /\ work.rev = revs /\ work.rev \in Revs
         /\ UNCHANGED <<pub, held, older, retired, freed>>
         /\ report'.about = work.rev /\ report'.aboutLetter = work.letter
         /\ ~report'.behind
         /\ work'.hold = report'.arts /\ report'.arts \subseteq Artifacts
         /\ \A j \in fatal' :
              j \in fatal \/ j = <<"resume", work.rev>> \/ (work.letter # 0 /\ j = <<"letter", work.letter>>)
         /\ <<"resume", work.rev>> \in fatal' =>
              /\ "resume" \in report'.arts /\ report'.state = "quarantined"
              /\ \A n \in Resume : pub[n] # 0 \/ work.kind = "refine" => n \in report'.named
         /\ work.letter # 0 /\ <<"letter", work.letter>> \in fatal' =>
              \/ pub["letter"] = 0
              \/ <<"letter", pub["letter"]>> \in freed
              \/ "letter" \in report'.arts /\ report'.state = "quarantined" /\ "letter" \in report'.named
         /\ report'.state = "acknowledged_override" =>
              pub["letter"] = 0 \/ <<"letter", pub["letter"]>> \in freed
<1>0. /\ TypeOK /\ work \in Work /\ report \in Report /\ Control /\ CarriesTheReport /\ ReleasedIsFreed
      /\ pub \in [Names -> 0..MaxRevs]
  BY WorkTypes DEF ClosedInv, Typed
<1>1. PICK resumeFatal \in BOOLEAN :
        LET v == Verdict(resumeFatal, LetterFatal(work), Waived(work))
            judged == {<<"resume", work.rev>>} \cup {<<"letter", l>> : l \in {work.letter} \ {0}}
            failed == {j \in judged : IF j[1] = "resume" THEN resumeFatal ELSE LetterFatal(work)}
        IN /\ report' = NewReport(work, v)
           /\ fatal' = (fatal \ judged) \cup failed
           /\ work' = [work EXCEPT !.at = After(work), !.hold = v.arts, !.todo = NamesOf(v.arts)]
  BY DEF Gate
<1> DEFINE v == Verdict(resumeFatal, LetterFatal(work), Waived(work))
<1>2. LetterFatal(work) \in BOOLEAN
  BY <1>0 DEF LetterFatal, Work, Report
<1>3. work.at = "gate" /\ work.rev = revs /\ work.rev \in Revs /\ UNCHANGED <<pub, held, older, retired, freed>>
  BY <1>0 DEF Gate, Control
<1>4. /\ report'.about = work.rev /\ report'.aboutLetter = work.letter /\ ~report'.behind
      /\ report'.arts = v.arts /\ report'.state = v.state
      /\ report'.named = Named(v.arts, WillPublish(work))
  BY <1>1 DEF NewReport
<1>5. /\ v.arts \subseteq Artifacts
      /\ resumeFatal => "resume" \in v.arts
      /\ LetterFatal(work) /\ "letter" \notin Waived(work) => "letter" \in v.arts
      /\ v.arts # {} => v.state = "quarantined"
      /\ v.state = "acknowledged_override" => "letter" \in Waived(work) /\ LetterFatal(work)
  BY <1>2 DEF Verdict, Waived, Artifacts
<1>6. work'.hold = v.arts
  BY <1>0, <1>1 DEF Work
<1>7. "letter" \in Waived(work) /\ LetterFatal(work) => pub["letter"] = 0 \/ <<"letter", pub["letter"]>> \in freed
  <2> SUFFICES ASSUME "letter" \in Waived(work), LetterFatal(work)
               PROVE  pub["letter"] = 0 \/ <<"letter", pub["letter"]>> \in freed
    OBVIOUS
  <2>1. /\ work.rescored = "no" /\ work.was.state = "acknowledged_override" /\ work.was.override
        /\ work.letter # 0
    BY DEF Waived, LetterFatal
  <2>2. work.kind = "refine"
    <3>1. NoReport.state = "none" /\ work.kind \in {"build", "refine"}
      BY <1>0 DEF NoReport, Work
    <3> QED BY <1>0, <2>1, <3>1 DEF CarriesTheReport
  <2>3. work.was = report /\ work.letter = LetterFile /\ ~Changed
    BY <1>0, <1>3, <2>1, <2>2 DEF CarriesTheReport
  <2> QED BY <1>0, <2>1, <2>3 DEF ReleasedIsFreed, Changed
<1>8. <<"resume", work.rev>> \in fatal' => resumeFatal
  BY <1>1
<1>9. work.letter # 0 /\ <<"letter", work.letter>> \in fatal' => LetterFatal(work)
  BY <1>1
<1>10. \A n \in Names : n \in Named(v.arts, WillPublish(work)) <=>
         Kind(n) \in v.arts /\ (pub[n] # 0 \/ n \in WillPublish(work))
  BY DEF Named, NamesOf, Present
<1> HIDE DEF v
<1>11. <<"resume", work.rev>> \in fatal' =>
         /\ "resume" \in report'.arts /\ report'.state = "quarantined"
         /\ \A n \in Resume : pub[n] # 0 \/ work.kind = "refine" => n \in report'.named
  BY <1>4, <1>5, <1>8, <1>10 DEF Names, Resume, Kind, WillPublish
<1>12. work.letter # 0 /\ <<"letter", work.letter>> \in fatal' =>
         \/ pub["letter"] = 0
         \/ <<"letter", pub["letter"]>> \in freed
         \/ "letter" \in report'.arts /\ report'.state = "quarantined" /\ "letter" \in report'.named
  BY <1>4, <1>5, <1>7, <1>9, <1>10 DEF Names, Kind
<1>13. \A j \in fatal' :
         j \in fatal \/ j = <<"resume", work.rev>> \/ (work.letter # 0 /\ j = <<"letter", work.letter>>)
  BY <1>1
<1> QED BY <1>3, <1>4, <1>5, <1>6, <1>7, <1>11, <1>12, <1>13

\* What a report refuses does not change but by a gate or a recorded release.
LEMMA SameReport ==
  ASSUME TypeOK, Next, ~Gate, ~GateCrashes, ~ReleaseRecords
  PROVE  /\ UNCHANGED fatal
         /\ report'.about = report.about /\ report'.aboutLetter = report.aboutLetter
         /\ report'.state = report.state /\ report'.named = report.named /\ report'.override = report.override
         /\ Refused' = Refused
         /\ ~BuildLetter => UNCHANGED report
         /\ BuildLetter => report'.behind = (report # NoReport)
<1>1. CASE BuildLetter
  <2>1. report \in Report /\ report' = [report EXCEPT !.behind = report # NoReport] /\ UNCHANGED fatal
    BY <1>1 DEF TypeOK, BuildLetter
  <2> QED BY <1>1, <2>1 DEF Report, Refused
<1>2. CASE ~BuildLetter
  <2>1. UNCHANGED <<fatal, report>>
    BY <1>2 DEF Next, Build, Refine, Publish, Retire, Judge, ReleaseRequest, BuildStarts, BuildExports, BuildScored,
       WorkFails, RefineStarts, RefineStages, RefineReads, RefineRescores, HoldOne,
       HoldEnds, Rotate, RotateFails, PublishOne, PublishFails, Published, RetireOne, RetireFails, RetireEnds, Crash,
       ReleaseStarts, ReleaseOne, ReleaseFails, ReleaseMoved, ReleaseUndone, UndoOne, UndoEnds
  <2> QED BY <1>2, <2>1 DEF Refused
<1> QED BY <1>1, <1>2

\* Only a release adds to what was freed, or takes from it.
LEMMA SameFreed ==
  ASSUME Next, ~ReleaseOne, ~ReleaseRecords, ~UndoOne
  PROVE  UNCHANGED freed
BY DEF Next, Build, Refine, Publish, Retire, Judge, ReleaseRequest, BuildStarts, BuildExports, BuildLetter, BuildScored,
   WorkFails, RefineStarts, RefineStages, RefineReads, RefineRescores, Gate, GateCrashes, HoldOne,
   HoldEnds, Rotate, RotateFails, PublishOne, PublishFails, Published, RetireOne, RetireFails, RetireEnds, Crash,
   ReleaseStarts, ReleaseFails, ReleaseMoved, ReleaseUndone, UndoEnds

\* The record of a check that crashed is on no document.
LEMMA GateCrashIs ==
  ASSUME TypeOK, GateCrashes
  PROVE  /\ work.at = "gate" /\ UNCHANGED <<pub, held, older, retired, parked, fatal, freed, revs, rel>>
         /\ \/ UNCHANGED report
            \/ report'.about = 0 /\ report'.aboutLetter = 0 /\ report'.state # "acknowledged_override"
<1>1. FailureReport(work).about = 0 /\ FailureReport(work).aboutLetter = 0
  BY DEF FailureReport, NoReport
<1>2. FailureReport(work).state # "acknowledged_override"
  BY DEF FailureReport, NoReport
<1> QED BY <1>1, <1>2 DEF GateCrashes

\* Where an undo or a move of a release leaves the folder.
LEMMA ReleaseOneIs ==
  ASSUME TypeOK, ReleaseOne
  PROVE  /\ UNCHANGED <<older, retired, parked, report, work, revs, fatal, budget>>
         /\ LET n == Last(rel.todo)
            IN /\ n \in rel.todo /\ n \in Names
               /\ IF Movable(n)
                  THEN /\ \A m \in Names : m # n => pub'[m] = pub[m] /\ held'[m] = held[m]
                       /\ pub[n] = 0 /\ pub'[n] = held[n] /\ held'[n] = 0
                       /\ freed' = freed \cup {<<n, held[n]>>}
                  ELSE UNCHANGED <<pub, held, freed>>
<1>1. UNCHANGED <<older, retired, parked, report, work, revs, fatal, budget>>
  BY DEF ReleaseOne
<1> DEFINE n == Last(rel.todo)
<1>2. /\ n \in rel.todo /\ n \in Names
      /\ IF Movable(n)
         THEN pub' = Put(pub, n, held[n]) /\ held' = Drop(held, n) /\ freed' = freed \cup {<<n, held[n]>>}
         ELSE UNCHANGED <<pub, held, freed>>
  BY ReleaseMoves
<1> HIDE DEF n
<1>3. \A m \in Names : Put(pub, n, held[n])[m] = (IF m = n THEN held[n] ELSE pub[m])
  BY <1>2, WorkTypes, PutIs
<1>4. \A m \in Names : Drop(held, n)[m] = (IF m = n THEN 0 ELSE held[m])
  BY <1>2, WorkTypes, DropIs
<1> QED BY <1>1, <1>2, <1>3, <1>4 DEF Movable, n

LEMMA UndoIs ==
  ASSUME TypeOK, UndoOne
  PROVE  /\ UNCHANGED <<older, retired, parked, report, work, revs, fatal>>
         /\ \E n \in rel.moved :
              /\ n \in Names
              /\ \/ /\ \A m \in Names : m # n => pub'[m] = pub[m] /\ held'[m] = held[m]
                    /\ pub'[n] = 0 /\ held'[n] = pub[n] /\ freed' = freed \ {<<n, pub[n]>>} /\ UNCHANGED budget
                 \/ Fault /\ UNCHANGED <<pub, held, freed>>
<1>1. UNCHANGED <<older, retired, parked, report, work, revs, fatal>>
  BY DEF UndoOne
<1>2. PICK n \in rel.moved :
        \/ /\ held' = Put(held, n, pub[n]) /\ pub' = Drop(pub, n)
           /\ freed' = freed \ {<<n, pub[n]>>} /\ UNCHANGED budget
        \/ Fault /\ UNCHANGED <<pub, held, freed>>
  BY DEF UndoOne
<1>3. n \in Names
  BY DEF TypeOK, Release
<1>4. \A m \in Names : Put(held, n, pub[n])[m] = (IF m = n THEN pub[n] ELSE held[m])
  BY <1>3, WorkTypes, PutIs
<1>5. \A m \in Names : Drop(pub, n)[m] = (IF m = n THEN 0 ELSE pub[m])
  BY <1>3, WorkTypes, DropIs
<1> QED BY <1>1, <1>2, <1>3, <1>4, <1>5

\* A build writes its own revision.
LEMMA BuildIs ==
  ASSUME TypeOK, BuildExports \/ BuildLetter
  PROVE  /\ work.kind = "build" /\ work.at \in {"writing", "scoring"} /\ rel.at = "quiet"
         /\ UNCHANGED <<held, older, retired, parked, freed, budget>>
         /\ \A m \in Names : pub'[m] = pub[m] \/ pub'[m] = work.rev
         /\ BuildExports => pub'["letter"] = pub["letter"] /\ pub'["md"] = work.rev
         /\ BuildLetter => \A m \in Resume : pub'[m] = pub[m]
<1>1. /\ work.kind = "build" /\ work.at \in {"writing", "scoring"} /\ rel.at = "quiet"
      /\ UNCHANGED <<held, older, retired, parked, freed, budget>>
  BY DEF BuildExports, BuildLetter, LoopIsFree
<1>2. CASE BuildExports
  <2>1. PICK exported \in {{"md"}, Resume} : pub' = [n \in Names |-> IF n \in exported THEN work.rev ELSE pub[n]]
    BY <1>2 DEF BuildExports
  <2>2. "md" \in exported /\ "letter" \notin exported /\ "md" \in Names /\ "letter" \in Names
    BY <2>1 DEF Resume, Names
  <2>3. ~BuildLetter
    BY <1>2 DEF BuildExports, BuildLetter
  <2> QED BY <1>1, <2>1, <2>2, <2>3
<1>3. CASE BuildLetter
  <2>1. pub' = Put(pub, "letter", work.rev) /\ "letter" \in Names
    BY <1>3 DEF BuildLetter, Names
  <2>2. \A m \in Names : pub'[m] = (IF m = "letter" THEN work.rev ELSE pub[m])
    BY <2>1, WorkTypes, PutIs
  <2>3. ~BuildExports
    BY <1>3 DEF BuildExports, BuildLetter
  <2> QED BY <1>1, <2>2, <2>3 DEF Names, Resume
<1> QED BY <1>2, <1>3

LEMMA FailClosedStep ==
  ASSUME ClosedInv, Next, TypeOK'
  PROVE  FailClosed'
<1>0. /\ TypeOK /\ work \in Work /\ report \in Report /\ Control /\ FailClosed /\ Typed
      /\ pub \in [Names -> 0..MaxRevs] /\ held \in [Names -> 0..MaxRevs]
  BY WorkTypes DEF ClosedInv, Typed
<1>1. CASE Gate
  <2>1. ASSUME NEW n \in Names, Failing(n, pub[n])',
               pub'[n] = (IF n = "letter" THEN report'.aboutLetter ELSE report'.about)
        PROVE  n \in Refused'
    <3>1. pub'[n] # 0 /\ pub'[n] = pub[n] /\ freed' = freed
      <4>1. <<Kind(n), pub'[n]>> \in fatal'
        BY <2>1 DEF Failing
      <4> QED BY <1>1, <4>1, NextFailingIsReal, GateIs
    <3>2. CASE n = "letter"
      <4>1. work.letter # 0 /\ <<"letter", work.letter>> \in fatal' /\ <<"letter", pub["letter"]>> \notin freed
        BY <1>1, <2>1, <3>1, <3>2, GateIs DEF Failing, Kind
      <4> QED BY <1>1, <3>1, <3>2, <4>1, GateIs DEF Refused
    <3>3. CASE n # "letter"
      <4>1. n \in Resume /\ <<"resume", work.rev>> \in fatal'
        BY <1>1, <2>1, <3>3, GateIs DEF Failing, Kind, Names
      <4> QED BY <1>1, <3>1, <4>1, GateIs DEF Refused
    <3> QED BY <3>2, <3>3
  <2> QED BY <2>1 DEF FailClosed
<1>2. CASE GateCrashes
  <2>1. UNCHANGED <<pub, fatal, freed>>
    BY <1>0, <1>2, GateCrashIs
  <2>2. CASE UNCHANGED report
    BY <1>0, <2>1, <2>2 DEF FailClosed, Failing, Refused
  <2>3. CASE report'.about = 0 /\ report'.aboutLetter = 0
    <3>1. \A n \in Names : Failing(n, pub[n]) => pub[n] # 0
      BY <1>0, FailingIsReal, Bounds DEF Revs
    <3> QED BY <2>1, <2>3, <3>1 DEF FailClosed, Failing
  <2> QED BY <1>0, <1>2, <2>2, <2>3, GateCrashIs
<1>3. CASE ReleaseRecords
  <2>1. UNCHANGED <<pub, fatal>> /\ freed' = freed \cup {<<n, pub[n]>> : n \in Present(pub)}
    BY <1>3 DEF ReleaseRecords
  <2>2. \A n \in Names : ~Failing(n, pub[n])'
    <3>1. \A n \in Names : Failing(n, pub[n])' => pub[n] # 0 /\ <<n, pub[n]>> \notin freed'
      BY <1>0, <2>1, Bounds DEF TypeOK, Failing, Revs
    <3> QED BY <2>1, <3>1 DEF Present
  <2> QED BY <2>2 DEF FailClosed
<1>4. CASE ~Gate /\ ~GateCrashes /\ ~ReleaseRecords
  <2>0. /\ UNCHANGED fatal /\ report'.about = report.about /\ report'.aboutLetter = report.aboutLetter
        /\ Refused' = Refused
    BY <1>0, <1>4, SameReport
  <2>a. SUFFICES ASSUME NEW n \in Names, pub'[n] # pub[n] \/ freed' # freed, Failing(n, pub[n])',
                        pub'[n] = (IF n = "letter" THEN report.aboutLetter ELSE report.about)
                 PROVE  n \in Refused
    BY <1>0, <2>0 DEF FailClosed, Failing
  <2>b. pub'[n] # 0 /\ <<Kind(n), pub'[n]>> \in fatal /\ <<n, pub'[n]>> \notin freed'
    <3>1. <<Kind(n), pub'[n]>> \in fatal' /\ <<n, pub'[n]>> \notin freed'
      BY <2>a DEF Failing
    <3> QED BY <2>0, <3>1, NextFailingIsReal
  <2>c. pub'[n] = pub[n] /\ <<n, pub[n]>> \notin freed => n \in Refused
    BY <1>0, <2>a, <2>b DEF FailClosed, Failing
  <2>1. CASE HoldOne
    BY <1>0, <1>4, <2>1, <2>b, <2>c, HoldIs, SameFreed DEF HoldOne, ReleaseOne, UndoOne
  <2>2. CASE BuildExports \/ BuildLetter
    <3>1. work.rev = revs /\ report.about < revs /\ report.aboutLetter < revs
      <4>1. work.at \in {"writing", "scoring"}
        BY <1>0, <2>2, BuildIs
      <4> QED BY <1>0, <4>1 DEF Typed, Control, VerdictsAreOlder, BeforeGate
    <3>2. revs \in Nat /\ report.about \in Nat /\ report.aboutLetter \in Nat
      BY <1>0, Bounds DEF TypeOK, Report
    <3>3. freed' = freed
      BY <1>0, <2>2, BuildIs
    <3>4. pub'[n] = pub[n]
      BY <1>0, <2>2, <2>a, <3>1, <3>2, BuildIs
    <3> QED BY <2>b, <2>c, <3>3, <3>4
  <2>3. CASE Rotate
    <3>1. "md" \in Names /\ freed' = freed
      BY <2>3 DEF Names, Resume, Rotate
    <3>2. pub'[n] = pub[n] \/ pub'[n] = 0
      BY <1>0, <2>3, <3>1, RotateIs
    <3> QED BY <2>b, <2>c, <3>1, <3>2
  <2>4. CASE PublishOne
    <3>1. freed' = freed /\ work.at = "publish" /\ work.todo \subseteq Resume
      BY <1>0, <2>4 DEF PublishOne, Control
    <3>2. pub'[n] = pub[n] \/ pub'[n] = 0 \/ (n \in Resume /\ pub'[n] = work.rev)
      BY <1>0, <2>4, <3>1, PublishIs
    <3>3. CASE n \in Resume /\ pub'[n] = work.rev
      <4>1. report.about = work.rev /\ <<"resume", work.rev>> \in fatal
        BY <2>a, <2>b, <3>3 DEF Resume, Kind
      <4> QED BY <3>1, <3>3, <4>1 DEF ClosedInv, NamedBeforeLanding
    <3> QED BY <2>b, <2>c, <3>1, <3>2, <3>3
  <2>5. CASE PublishFails
    <3>1. freed' = freed
      BY <2>5 DEF PublishFails
    <3>2. CASE pub'[n] = pub[n]
      BY <2>b, <2>c, <3>1, <3>2
    <3>3. CASE pub'[n] # pub[n]
      <4>1. n = "md" /\ PutBack /\ work.at = "publish" /\ ~work.inQuarantine /\ pub'[n] = older[work.rotated]
        BY <1>0, <2>5, <3>3, PublishFailsIs
      <4>2. older[work.rotated] = report.about /\ Failing("md", older[work.rotated])
        BY <2>a, <2>b, <3>1, <4>1 DEF Failing
      <4> QED BY <4>1, <4>2 DEF ClosedInv, NamedBeforePutBack, PutBack
    <3> QED BY <3>2, <3>3
  <2>6. CASE ReleaseOne
    <3> DEFINE m == Last(rel.todo)
    <3>1. m \in Names /\ IF Movable(m)
                         THEN /\ \A o \in Names : o # m => pub'[o] = pub[o]
                              /\ pub'[m] = held[m] /\ freed' = freed \cup {<<m, held[m]>>}
                         ELSE UNCHANGED <<pub, freed>>
      BY <1>0, <2>6, ReleaseOneIs
    <3> HIDE DEF m
    <3> QED BY <2>b, <2>c, <3>1
  <2>7. CASE UndoOne
    <3>1. PICK m \in Names :
            \/ /\ \A o \in Names : o # m => pub'[o] = pub[o]
               /\ pub'[m] = 0 /\ freed' = freed \ {<<m, pub[m]>>}
            \/ UNCHANGED <<pub, freed>>
      BY <1>0, <2>7, UndoIs
    <3>2. n # m => <<n, pub[n]>> # <<m, pub[m]>>
      OBVIOUS
    <3> QED BY <2>b, <2>c, <3>1, <3>2
  <2>8. CASE RetireOne
    <3>1. UNCHANGED <<pub, freed>>
      BY <2>8 DEF RetireOne
    <3> QED BY <2>a, <3>1
  <2>9. CASE ~Moves
    <3>1. UNCHANGED <<pub, freed>>
      BY <1>4, <2>9, Still, SameFreed DEF Moves
    <3> QED BY <2>a, <3>1
  <2> QED BY <2>1, <2>2, <2>3, <2>4, <2>5, <2>6, <2>7, <2>8, <2>9 DEF Moves
<1> QED BY <1>1, <1>2, <1>3, <1>4

LEMMA ReleasedStep ==
  ASSUME ClosedInv, Next
  PROVE  ReleasedIsFreed'
<1>0. /\ TypeOK /\ work \in Work /\ report \in Report /\ Control /\ ReleasedIsFreed /\ Typed
      /\ "letter" \in Names
  BY WorkTypes DEF ClosedInv, Typed, Names
<1>1. CASE Gate
  BY <1>1, GateIs DEF ReleasedIsFreed
<1>2. CASE GateCrashes
  BY <1>0, <1>2, GateCrashIs DEF ReleasedIsFreed
<1>3. CASE ReleaseRecords
  <2>1. UNCHANGED pub /\ freed' = freed \cup {<<n, pub[n]>> : n \in Present(pub)}
    BY <1>3 DEF ReleaseRecords
  <2> QED BY <1>0, <2>1 DEF ReleasedIsFreed, Present
<1>4. CASE BuildLetter
  <2>1. report'.state = report.state /\ report'.behind = (report # NoReport)
    BY <1>0, <1>4, SameReport DEF BuildLetter, Gate, GateCrashes, ReleaseRecords, Records
  <2>2. NoReport.state = "none"
    BY DEF NoReport
  <2> QED BY <2>1, <2>2 DEF ReleasedIsFreed
<1>5. CASE ~Gate /\ ~GateCrashes /\ ~ReleaseRecords /\ ~BuildLetter
  <2>0. UNCHANGED report
    BY <1>0, <1>5, SameReport
  <2>1. CASE HoldOne
    <3>1. freed' = freed /\ pub'["letter"] \in {pub["letter"], 0}
      BY <1>0, <2>1, HoldIs DEF HoldOne
    <3> QED BY <1>0, <2>0, <3>1 DEF ReleasedIsFreed
  <2>2. CASE BuildExports
    <3>1. freed' = freed /\ pub'["letter"] = pub["letter"]
      BY <1>0, <2>2, BuildIs
    <3> QED BY <1>0, <2>0, <3>1 DEF ReleasedIsFreed
  <2>3. CASE Rotate
    <3>1. freed' = freed /\ pub'["letter"] = pub["letter"]
      BY <1>0, <2>3, RotateIs DEF Rotate
    <3> QED BY <1>0, <2>0, <3>1 DEF ReleasedIsFreed
  <2>4. CASE PublishOne
    <3>1. freed' = freed /\ work.at = "publish" /\ work.todo \subseteq Resume /\ "letter" \notin Resume
      BY <1>0, <2>4 DEF PublishOne, Control, Resume
    <3>2. pub'["letter"] = pub["letter"]
      BY <1>0, <2>4, <3>1, PublishIs
    <3> QED BY <1>0, <2>0, <3>1, <3>2 DEF ReleasedIsFreed
  <2>5. CASE PublishFails
    <3>1. freed' = freed /\ pub'["letter"] = pub["letter"]
      BY <1>0, <2>5, PublishFailsIs DEF PublishFails
    <3> QED BY <1>0, <2>0, <3>1 DEF ReleasedIsFreed
  <2>6. CASE ReleaseOne
    <3> DEFINE m == Last(rel.todo)
    <3>1. m \in Names /\ IF Movable(m)
                         THEN /\ \A o \in Names : o # m => pub'[o] = pub[o]
                              /\ pub'[m] = held[m] /\ freed' = freed \cup {<<m, held[m]>>}
                         ELSE UNCHANGED <<pub, freed>>
      BY <1>0, <2>6, ReleaseOneIs
    <3> HIDE DEF m
    <3> QED BY <1>0, <2>0, <3>1 DEF ReleasedIsFreed
  <2>7. CASE UndoOne
    <3>1. PICK m \in Names :
            \/ /\ \A o \in Names : o # m => pub'[o] = pub[o]
               /\ pub'[m] = 0 /\ freed' = freed \ {<<m, pub[m]>>}
            \/ UNCHANGED <<pub, freed>>
      BY <1>0, <2>7, UndoIs
    <3>2. m # "letter" => <<"letter", pub["letter"]>> # <<m, pub[m]>>
      OBVIOUS
    <3> QED BY <1>0, <2>0, <3>1, <3>2 DEF ReleasedIsFreed
  <2>8. CASE RetireOne
    <3>1. UNCHANGED <<pub, freed>>
      BY <2>8 DEF RetireOne
    <3> QED BY <1>0, <2>0, <3>1 DEF ReleasedIsFreed
  <2>9. CASE ~Moves
    <3>1. UNCHANGED <<pub, freed>>
      BY <1>5, <2>9, Still, SameFreed DEF Moves
    <3> QED BY <1>0, <2>0, <3>1 DEF ReleasedIsFreed
  <2> QED BY <1>5, <2>1, <2>2, <2>3, <2>4, <2>5, <2>6, <2>7, <2>8, <2>9 DEF Moves
<1> QED BY <1>1, <1>2, <1>3, <1>4, <1>5

\* How the work comes to the places the other parts speak of.
LEMMA Arrivals ==
  ASSUME Typed, Next
  PROVE  /\ work'.at = "gate" => BuildScored \/ RefineReads \/ RefineRescores
         /\ work'.at = "rotate" => Gate \/ GateCrashes
         /\ work'.at = "publish" => Rotate \/ PublishOne
         /\ work'.at = "retire" => Published \/ RetireOne
         /\ work'.at = "hold" => Gate \/ GateCrashes \/ HoldOne \/ Published \/ RetireEnds
<1>0. TypeOK /\ Control
  BY DEF Typed
<1>1. CASE ReleaseRequest
  BY <1>0, <1>1, ReleaseFields DEF Control, LoopIsFree, Resting
<1>2. CASE HoldEnds \/ WorkFails \/ RotateFails \/ PublishFails \/ RetireFails \/ Crash
  BY <1>2, EndFields DEF ToIdle
<1>3. CASE Build \/ Refine
  BY <1>0, <1>3, StartFields, BuildFields, RefineFields DEF Build, Refine
<1>4. CASE Judge
  BY <1>0, <1>4, EndFields, GateFields, MoveFields DEF Judge, ToIdle, HoldOne, After
<1>5. CASE Publish
  BY <1>0, <1>5, EndFields, PublishFields DEF Publish, ToIdle, PublishOne
<1>6. CASE Retire
  BY <1>0, <1>6, EndFields, MoveFields DEF Retire, ToIdle, RetireOne
<1> QED BY <1>1, <1>2, <1>3, <1>4, <1>5, <1>6 DEF Next

\* A build reads no report.
LEMMA BuildReadsNothing ==
  ASSUME ClosedInv, Next
  PROVE  work'.kind = "build" => work'.was = NoReport
<1>0. TypeOK /\ (work.kind = "build" => work.was = NoReport)
  BY DEF ClosedInv, Typed, CarriesTheReport
<1>1. CASE ReleaseRequest
  BY <1>0, <1>1, ReleaseFields
<1>2. CASE HoldEnds \/ WorkFails \/ RotateFails \/ PublishFails \/ RetireFails \/ Crash
  BY <1>2, EndFields DEF ToIdle
<1>3. CASE BuildStarts \/ RefineStarts
  BY <1>3, StartFields
<1>4. CASE RefineReads
  BY <1>0, <1>4, RefineFields DEF RefineReads, SameTask
<1>5. CASE BuildExports \/ BuildLetter \/ BuildScored \/ RefineStages \/ RefineRescores
  BY <1>0, <1>5, BuildFields, RefineFields DEF SameTask, SameReading
<1>6. CASE Gate \/ GateCrashes \/ HoldOne \/ Rotate \/ PublishOne \/ Published \/ RetireOne \/ RetireEnds
  BY <1>0, <1>6, GateFields, MoveFields, PublishFields DEF SameTask, SameReading
<1> QED BY <1>1, <1>2, <1>3, <1>4, <1>5, <1>6 DEF Next, Build, Refine, Publish, Retire, Judge

LEMMA CarriesStep ==
  ASSUME ClosedInv, Next
  PROVE  CarriesTheReport'
<1>0. Typed /\ TypeOK
  BY DEF ClosedInv, Typed
<1>1. ASSUME work'.at = "gate", work'.kind = "refine", work'.rescored = "no"
      PROVE  work'.was = report' /\ work'.letter = LetterFile' /\ ~Changed'
  <2>1. RefineReads
    BY <1>0, <1>1, Arrivals, BuildFields, RefineFields DEF BuildScored, SameTask
  <2>2. UNCHANGED <<pub, held, report>> /\ LetterFile' = LetterFile /\ Changed' = Changed
    BY <2>1 DEF RefineReads, LetterFile, Changed
  <2> QED BY <1>0, <1>1, <2>1, <2>2, RefineFields
<1> QED BY <1>1, BuildReadsNothing DEF CarriesTheReport

LEMMA LandingStep ==
  ASSUME ClosedInv, Next
  PROVE  NamedBeforeLanding'
<1>0. Typed /\ TypeOK /\ Control /\ VerdictsAreOlder /\ NamedBeforeLanding
  BY DEF ClosedInv, Typed
<1> SUFFICES ASSUME work'.at \in {"rotate", "publish"}, report'.about = work'.rev, <<"resume", work'.rev>> \in fatal'
             PROVE  Resume \subseteq Refused'
  BY DEF NamedBeforeLanding
<1>1. CASE Gate
  <2>1. work'.rev = work.rev /\ work.kind = "refine"
    BY <1>0, <1>1, GateFields DEF SameTask, After
  <2> QED BY <1>1, <2>1, GateIs DEF Refused
<1>2. CASE GateCrashes
  <2>1. work'.rev = work.rev /\ work.at = "gate" /\ work.rev = revs /\ work.rev \in Revs
    BY <1>0, <1>2, GateFields DEF SameTask, GateCrashes, Control
  <2>2. report.about < revs
    BY <1>0, <2>1 DEF VerdictsAreOlder, BeforeGate
  <2>3. report.about \in Nat /\ revs \in Nat /\ revs # 0
    BY <1>0, <2>1, Bounds DEF TypeOK, Report, Revs
  <2> QED BY <1>0, <1>2, <2>1, <2>2, <2>3, GateCrashIs
<1>3. CASE Rotate \/ PublishOne
  <2>1. /\ work'.rev = work.rev /\ work.at \in {"rotate", "publish"}
        /\ report' = report /\ fatal' = fatal /\ Refused' = Refused
    BY <1>0, <1>3, PublishFields DEF SameTask, Rotate, PublishOne, Refused
  <2> QED BY <1>0, <2>1 DEF NamedBeforeLanding
<1> QED BY <1>0, <1>1, <1>2, <1>3, Arrivals

LEMMA PutBackStep ==
  ASSUME ClosedInv, Next
  PROVE  NamedBeforePutBack'
<1>0. Typed /\ TypeOK /\ Control /\ NamedBeforePutBack /\ FailClosed /\ "md" \in Names
  BY DEF ClosedInv, Typed, Names, Resume
<1> SUFFICES ASSUME work'.at = "publish", work'.rotated # 0, ~work'.inQuarantine, ~work'.published,
                    older'[work'.rotated] = report'.about, Failing("md", older[work.rotated])'
             PROVE  "md" \in Refused'
  BY DEF NamedBeforePutBack
<1>1. CASE Rotate
  <2>1. /\ report' = report /\ fatal' = fatal /\ freed' = freed /\ Refused' = Refused
        /\ work'.inQuarantine = work.inQuarantine
        /\ work'.rotated = IF OldMd = 0 THEN 0 ELSE HighestVersion + 1
    BY <1>0, <1>1, PublishFields DEF SameTask, Rotate, Refused
  <2>2. older'[work'.rotated] = pub["md"]
    BY <1>0, <1>1, <2>1, RotateIs
  <2>3. pub["md"] = report.about /\ Failing("md", pub["md"])
    BY <2>1, <2>2 DEF Failing
  <2> QED BY <1>0, <2>1, <2>3 DEF FailClosed
<1>2. CASE PublishOne
  <2>1. /\ report' = report /\ fatal' = fatal /\ freed' = freed /\ Refused' = Refused /\ older' = older
        /\ work'.inQuarantine = work.inQuarantine /\ work'.rotated = work.rotated
        /\ ~work.published /\ work.at = "publish"
    BY <1>0, <1>2, PublishFields DEF SameTask, PublishOne, Refused
  <2>2. Failing("md", older[work.rotated])
    BY <2>1 DEF Failing
  <2> QED BY <1>0, <2>1, <2>2 DEF NamedBeforePutBack
<1> QED BY <1>0, <1>1, <1>2, Arrivals

LEMMA InitClosed == Init => ClosedInv
<1> SUFFICES ASSUME Init PROVE ClosedInv
  OBVIOUS
<1>1. Typed /\ fatal = {} /\ report = NoReport /\ NoReport.state = "none"
  BY InitTyped DEF Init, NoReport
<1>2. work.at = "idle" /\ work.was = NoReport
  BY IdleType DEF Init
<1> QED BY <1>1, <1>2
        DEF ClosedInv, FailClosed, Failing, ReleasedIsFreed, CarriesTheReport, NamedBeforeLanding, NamedBeforePutBack

LEMMA NextClosed == ClosedInv /\ [Next]_vars => ClosedInv'
<1> SUFFICES ASSUME ClosedInv, [Next]_vars PROVE ClosedInv'
  OBVIOUS
<1>1. Typed'
  BY NextTyped DEF ClosedInv
<1>2. CASE Next
  <2>1. TypeOK'
    BY <1>1 DEF Typed
  <2> QED BY <1>1, <1>2, <2>1, FailClosedStep, ReleasedStep, CarriesStep, LandingStep, PutBackStep DEF ClosedInv
<1>3. CASE UNCHANGED vars
  BY <1>1, <1>3 DEF vars, ClosedInv, FailClosed, Failing, Refused, ReleasedIsFreed, CarriesTheReport, LetterFile,
                    Changed, NamedBeforeLanding, NamedBeforePutBack
<1> QED BY <1>2, <1>3

\* Whatever fails, dies or is released, and whenever: no document that the report's own
\* verdict failed, and the user has not released, can be downloaded.
THEOREM FailedAreNeverServed == Spec => []FailClosed
<1>1. ClosedInv => FailClosed
  BY DEF ClosedInv
<1> QED BY <1>1, InitClosed, NextClosed, PTL DEF Spec

-----------------------------------------------------------------------------
(* No text is lost, and no export of an older resume stays *)

\* There is no public resume, or the user has released it.
FreeOrFreed == pub["md"] = 0 \/ <<"md", pub["md"]>> \in freed

\* A refine of a held resume finds no public one but what was released under it, and so
\* does what lands.
RoomToLand ==
  /\ work.kind = "refine" /\ work.inQuarantine /\ work.at \in BeforePublish => FreeOrFreed
  /\ work.at = "publish" /\ "md" \in work.todo => pub["md"] = 0 \/ (work.inQuarantine /\ FreeOrFreed)

KeptInv == Typed /\ RoomToLand

\* What the publish has been through is of the revision, or gone.
PublishedSoFar ==
  work.at = "publish" => \A n \in Resume \ work.todo : pub[n] \in {0, work.rev}

PublishInv == Typed /\ PublishedSoFar

\* A text is kept when it is in one of the places texts are kept in.
LEMMA KeptPlaces ==
  /\ \A n \in {"md", "letter"} : <<n, pub'[n]>> \in Kept' /\ <<n, held'[n]>> \in Kept'
  /\ \A p \in parked' : p[1] # "docx" => p \in Kept'
  /\ \A v \in Revs : <<"md", older'[v]>> \in Kept' /\ <<"md", retired'[v]>> \in Kept'
<1>1. \A n \in {"md", "letter"} : <<n, pub'[n]>> \in Kept' /\ <<n, held'[n]>> \in Kept'
  BY DEF Kept
<1>2. \A p \in parked' : p[1] # "docx" => p \in Kept'
  BY DEF Kept
<1>3. \A v \in Revs : <<"md", older'[v]>> \in Kept' /\ <<"md", retired'[v]>> \in Kept'
  BY DEF Kept
<1> QED BY <1>1, <1>2, <1>3

LEMMA AllKept ==
  ASSUME \A n \in {"md", "letter"} : /\ pub[n] # 0 => <<n, pub[n]>> \in Kept'
                                     /\ held[n] # 0 => <<n, held[n]>> \in Kept',
         parked \subseteq parked',
         \A v \in Revs : /\ older[v] # 0 => <<"md", older[v]>> \in Kept'
                         /\ retired[v] # 0 => <<"md", retired[v]>> \in Kept'
  PROVE  {k \in Kept : k[2] # 0} \subseteq Kept'
<1> SUFFICES ASSUME NEW k \in Kept, k[2] # 0 PROVE k \in Kept'
  OBVIOUS
<1>1. \/ \E n \in {"md", "letter"} : k = <<n, pub[n]>> \/ k = <<n, held[n]>>
      \/ k \in parked /\ k[1] # "docx"
      \/ \E v \in Revs : k = <<"md", older[v]>> \/ k = <<"md", retired[v]>>
  BY DEF Kept
<1>2. CASE \E n \in {"md", "letter"} : k = <<n, pub[n]>> \/ k = <<n, held[n]>>
  <2>1. PICK n \in {"md", "letter"} : k = <<n, pub[n]>> \/ k = <<n, held[n]>>
    BY <1>2
  <2>2. CASE k = <<n, pub[n]>>
    <3>1. pub[n] # 0
      BY <2>2
    <3> QED BY <2>1, <2>2, <3>1
  <2>3. CASE k = <<n, held[n]>>
    <3>1. held[n] # 0
      BY <2>3
    <3> QED BY <2>1, <2>3, <3>1
  <2> QED BY <2>1, <2>2, <2>3
<1>3. CASE k \in parked /\ k[1] # "docx"
  BY <1>3, KeptPlaces
<1>4. CASE \E v \in Revs : k = <<"md", older[v]>> \/ k = <<"md", retired[v]>>
  <2>1. PICK v \in Revs : k = <<"md", older[v]>> \/ k = <<"md", retired[v]>>
    BY <1>4
  <2>2. CASE k = <<"md", older[v]>>
    <3>1. older[v] # 0
      BY <2>2
    <3> QED BY <2>2, <3>1
  <2>3. CASE k = <<"md", retired[v]>>
    <3>1. retired[v] # 0
      BY <2>3
    <3> QED BY <2>3, <3>1
  <2> QED BY <2>1, <2>2, <2>3
<1> QED BY <1>1, <1>2, <1>3, <1>4

\* A document that is outdated or held is parked under its name.
LEMMA ParkedIs ==
  \A n, r : r # 0 => <<n, r>> \in {<<n, q>> : q \in {r} \ {0}}
OBVIOUS

LEMMA NothingLostStep ==
  ASSUME Typed, Next, PublishOne /\ "md" \in work.todo => pub["md"] = 0,
         Preserves
  PROVE  {k \in Kept : k[2] # 0} \subseteq Kept'
<1>0. /\ TypeOK /\ Control /\ RetireIsHeld /\ MovedIsPublic /\ work \in Work /\ rel \in Release
      /\ "md" \in Names /\ "letter" \in Names /\ "letter" \notin Resume
      /\ pub \in [Names -> 0..MaxRevs] /\ held \in [Names -> 0..MaxRevs]
      /\ work.kind = "refine" \/ work.at \in {"idle", "hold"}
  BY WorkTypes DEF Typed, Names, Resume, Preserves
<1>1. CASE HoldOne
  <2> DEFINE n == First(work.todo)
             out == {<<n, r>> : r \in {held[n]} \ {0}}
  <2>1. /\ n \in Names /\ UNCHANGED <<older, retired>>
        /\ \A m \in Names : m # n => pub'[m] = pub[m] /\ held'[m] = held[m]
        /\ \/ UNCHANGED <<pub, held, parked>>
           \/ pub'[n] = 0 /\ held'[n] = pub[n] /\ parked' = parked \cup out
           \/ UNCHANGED pub /\ held'[n] = 0 /\ parked' = parked \cup out
    BY <1>0, <1>1, HoldIs
  <2>2. held[n] # 0 => <<n, held[n]>> \in out
    BY ParkedIs
  <2>3. n # "docx" /\ held[n] # 0 /\ parked' = parked \cup out => <<n, held[n]>> \in Kept'
    BY <2>2, KeptPlaces
  <2> HIDE DEF n, out
  <2>4. \A m \in {"md", "letter"} : /\ pub[m] # 0 => <<m, pub[m]>> \in Kept'
                                    /\ held[m] # 0 => <<m, held[m]>> \in Kept'
    BY <1>0, <2>1, <2>3, KeptPlaces
  <2>5. parked \subseteq parked'
    BY <2>1
  <2> QED BY <2>1, <2>4, <2>5, KeptPlaces, AllKept
<1>2. CASE Rotate
  <2>1. /\ UNCHANGED parked
        /\ \/ UNCHANGED <<pub, held, older, retired>>
           \/ \E v \in Revs :
                /\ older[v] = 0 /\ retired[v] = 0
                /\ \A m \in Names : m # "md" => pub'[m] = pub[m] /\ held'[m] = held[m]
                /\ \A u \in Revs : u # v => older'[u] = older[u] /\ retired'[u] = retired[u]
                /\ \/ held'["md"] = 0 /\ retired'[v] = held["md"] /\ UNCHANGED <<pub, older>>
                   \/ pub'["md"] = 0 /\ older'[v] = pub["md"] /\ UNCHANGED <<held, retired>>
    BY <1>2, RotateIs DEF Rotate
  <2> QED BY <1>0, <2>1, KeptPlaces, AllKept
<1>3. CASE PublishOne
  <2> DEFINE n == First(work.todo)
  <2>0. work.at = "publish" /\ work.todo \subseteq Resume
    BY <1>0, <1>3 DEF PublishOne, Control
  <2>1. /\ n \in Names /\ n \in Resume /\ UNCHANGED <<held, older, retired>>
        /\ \A m \in Names : m # n => pub'[m] = pub[m]
        /\ parked' = parked \/ parked' = parked \cup Outdated(n)
        /\ n = "md" => pub["md"] = 0
    BY <1>0, <1>3, <2>0, PublishIs
  <2> HIDE DEF n
  <2>2. \A m \in {"md", "letter"} : /\ pub[m] # 0 => <<m, pub[m]>> \in Kept'
                                    /\ held[m] # 0 => <<m, held[m]>> \in Kept'
    BY <1>0, <2>1, KeptPlaces
  <2>3. parked \subseteq parked'
    BY <2>1
  <2> QED BY <2>1, <2>2, <2>3, KeptPlaces, AllKept
<1>4. CASE PublishFails
  <2>1. /\ UNCHANGED parked
        /\ \/ UNCHANGED <<pub, held, older, retired>>
           \/ \E v \in Revs :
                /\ \A m \in Names : m # "md" => pub'[m] = pub[m] /\ held'[m] = held[m]
                /\ \A u \in Revs : u # v => older'[u] = older[u] /\ retired'[u] = retired[u]
                /\ \/ held["md"] = 0 /\ held'["md"] = retired[v] /\ UNCHANGED <<pub, older>>
                   \/ pub["md"] = 0 /\ pub'["md"] = older[v] /\ UNCHANGED <<held, retired>>
    BY <1>0, <1>4, PublishFailsIs DEF PutBack, OldMd
  <2> QED BY <1>0, <2>1, KeptPlaces, AllKept
<1>5. CASE RetireOne
  <2> DEFINE n == Last(work.todo)
  <2>1. n \in Names /\ n \in work.todo
    BY <1>0, <1>5, LastIsOne DEF RetireOne, Work
  <2>2. held' = Drop(held, n) /\ UNCHANGED <<pub, older, retired>> /\ parked' = parked \cup {<<n, held[n]>>}
    BY <1>5 DEF RetireOne
  <2>3. \A m \in Names : m # n => held'[m] = held[m]
    BY <1>0, <2>1, <2>2, DropIs
  <2>4. n # "docx" => <<n, held[n]>> \in Kept'
    BY <2>2, KeptPlaces
  <2> HIDE DEF n
  <2>5. \A m \in {"md", "letter"} : /\ pub[m] # 0 => <<m, pub[m]>> \in Kept'
                                    /\ held[m] # 0 => <<m, held[m]>> \in Kept'
    BY <1>0, <2>2, <2>3, <2>4, KeptPlaces
  <2> QED BY <2>2, <2>5, KeptPlaces, AllKept
<1>6. CASE ReleaseOne
  <2> DEFINE n == Last(rel.todo)
  <2>1. /\ UNCHANGED <<parked, older, retired>> /\ n \in Names
        /\ \/ UNCHANGED <<pub, held>>
           \/ /\ \A m \in Names : m # n => pub'[m] = pub[m] /\ held'[m] = held[m]
              /\ pub[n] = 0 /\ pub'[n] = held[n]
    BY <1>0, <1>6, ReleaseOneIs
  <2> HIDE DEF n
  <2> QED BY <1>0, <2>1, KeptPlaces, AllKept
<1>7. CASE UndoOne
  <2>1. PICK n \in rel.moved :
          /\ UNCHANGED <<parked, older, retired>> /\ n \in Names
          /\ \/ UNCHANGED <<pub, held>>
             \/ /\ \A m \in Names : m # n => pub'[m] = pub[m] /\ held'[m] = held[m]
                /\ held'[n] = pub[n]
    BY <1>0, <1>7, UndoIs
  <2>2. held[n] = 0
    BY <1>0, <2>1 DEF MovedIsPublic
  <2> QED BY <1>0, <2>1, <2>2, KeptPlaces, AllKept
<1>8. CASE ~Moves
  <2>1. UNCHANGED <<pub, held, older, retired, parked>>
    BY <1>8, Still
  <2> QED BY <2>1, KeptPlaces, AllKept
<1>9. ~BuildExports /\ ~BuildLetter
  BY <1>0, BuildIs
<1> QED BY <1>1, <1>2, <1>3, <1>4, <1>5, <1>6, <1>7, <1>8, <1>9 DEF Moves

\* The one text that a publish writes over.
LEMMA LandsOnTheReleased ==
  ASSUME Typed, PublishOne, NEW k \in Kept, k[2] # 0, k # <<"md", pub["md"]>>
  PROVE  k \in Kept'
<1> DEFINE n == First(work.todo)
<1>0. /\ TypeOK /\ Control /\ work.at = "publish" /\ work.todo \subseteq Resume
      /\ "letter" \notin Resume /\ "letter" \in Names
  BY DEF Typed, PublishOne, Control, Names, Resume
<1>1. /\ n \in Resume /\ UNCHANGED <<held, older, retired>> /\ parked \subseteq parked'
      /\ \A m \in Names : m # n => pub'[m] = pub[m]
  BY <1>0, PublishIs
<1> HIDE DEF n
<1>2. pub'["letter"] = pub["letter"]
  BY <1>0, <1>1
<1>3. \/ k = <<"letter", pub["letter"]>> \/ \E m \in {"md", "letter"} : k = <<m, held[m]>>
      \/ k \in parked /\ k[1] # "docx"
      \/ \E v \in Revs : k = <<"md", older[v]>> \/ k = <<"md", retired[v]>>
  BY DEF Kept
<1> QED BY <1>1, <1>2, <1>3, KeptPlaces

\* A release, wherever a refine is meanwhile, frees what it makes public.
LEMMA ReleaseFrees ==
  ASSUME Typed, ReleaseRequest, FreeOrFreed
  PROVE  FreeOrFreed'
<1>0. TypeOK /\ "md" \in Names
  BY DEF Typed, Names, Resume
<1>1. CASE ReleaseOne
  BY <1>0, <1>1 DEF ReleaseOne, FreeOrFreed, Put, TypeOK, Folder
<1>2. CASE ReleaseRecords
  BY <1>2 DEF ReleaseRecords, FreeOrFreed
<1>3. CASE UndoOne
  <2>1. PICK n \in rel.moved :
          \/ pub' = Drop(pub, n) /\ freed' = freed \ {<<n, pub[n]>>}
          \/ UNCHANGED <<pub, freed>>
    BY <1>3 DEF UndoOne
  <2>2. CASE n = "md" /\ pub' = Drop(pub, n)
    BY <1>0, <2>2 DEF Drop, FreeOrFreed, TypeOK, Folder
  <2>3. CASE n # "md" /\ pub' = Drop(pub, n) /\ freed' = freed \ {<<n, pub[n]>>}
    BY <1>0, <2>3 DEF Drop, FreeOrFreed, TypeOK, Folder
  <2> QED BY <2>1, <2>2, <2>3 DEF FreeOrFreed
<1>4. CASE ReleaseStarts \/ ReleaseFails \/ ReleaseMoved \/ ReleaseUndone \/ UndoEnds
  BY <1>4 DEF ReleaseStarts, ReleaseFails, ReleaseMoved, ReleaseUndone, UndoEnds, FreeOrFreed
<1> QED BY <1>1, <1>2, <1>3, <1>4 DEF ReleaseRequest

LEMMA RoomStep ==
  ASSUME KeptInv, Next
  PROVE  RoomToLand'
<1>0. Typed /\ TypeOK /\ Control /\ RoomToLand /\ work \in Work /\ "md" \in Names
  BY DEF KeptInv, Typed, TypeOK, Names, Resume
<1>1. CASE ReleaseRequest
  <2>1. UNCHANGED work /\ work.at # "publish"
    BY <1>0, <1>1, ReleaseFields DEF Control, LoopIsFree, Resting
  <2>2. FreeOrFreed => FreeOrFreed'
    BY <1>0, <1>1, ReleaseFrees
  <2> QED BY <1>0, <2>1, <2>2 DEF RoomToLand
<1>2. CASE HoldEnds \/ WorkFails \/ RotateFails \/ PublishFails \/ RetireFails \/ Crash
  BY <1>2, EndFields DEF ToIdle, RoomToLand, BeforePublish, BeforeGate
<1>3. CASE ~ReleaseRequest /\ ~(HoldEnds \/ WorkFails \/ RotateFails \/ PublishFails \/ RetireFails \/ Crash)
  <2>0. UNCHANGED freed
    BY <1>3 DEF Next, Build, Refine, Publish, Retire, Judge, BuildStarts, BuildExports, BuildLetter, BuildScored,
                RefineStarts, RefineStages, RefineReads, RefineRescores, Gate, GateCrashes, HoldOne,
                Rotate, PublishOne, Published, RetireOne, RetireEnds
  <2>1. CASE BuildStarts \/ RefineStarts
    <3>1. UNCHANGED pub
      BY <2>1 DEF BuildStarts, RefineStarts
    <3> QED BY <2>1, <3>1, StartFields DEF RoomToLand, FreeOrFreed
  <2>2. CASE BuildExports \/ BuildLetter \/ BuildScored
    <3>1. work'.kind = "build" /\ work'.at \in {"scoring", "gate"}
      BY <1>0, <2>2, BuildFields DEF SameTask, BuildExports, BuildLetter, BuildScored
    <3> QED BY <2>0, <3>1 DEF RoomToLand
  <2>3. CASE RefineStages \/ RefineReads \/ RefineRescores
    <3>1. work.at \in BeforePublish /\ UNCHANGED pub
      BY <2>3 DEF RefineStages, RefineReads, RefineRescores, BeforePublish, BeforeGate
    <3> QED BY <1>0, <2>0, <2>3, <3>1, RefineFields DEF RoomToLand, SameTask, FreeOrFreed
  <2>4. CASE Gate \/ GateCrashes
    <3>1. work.at \in BeforePublish /\ UNCHANGED pub
      BY <2>4 DEF Gate, GateCrashes, BeforePublish, BeforeGate
    <3> QED BY <1>0, <2>0, <2>4, <3>1, GateFields DEF RoomToLand, SameTask, After, FreeOrFreed
  <2>5. CASE Rotate
    <3>1. pub'["md"] = 0 \/ (work.inQuarantine /\ FreeOrFreed')
      <4>1. work.at = "rotate" /\ work.kind = "refine"
        BY <1>0, <2>5 DEF Rotate, Control
      <4>2. work.inQuarantine => FreeOrFreed
        BY <1>0, <4>1 DEF RoomToLand, BeforePublish
      <4>3. ~work.inQuarantine => OldMd = pub["md"]
        BY DEF OldMd
      <4>4. work.inQuarantine => UNCHANGED pub
        BY <1>0, <2>5, RotateIs
      <4>5. CASE work.inQuarantine
        BY <2>0, <4>2, <4>4, <4>5 DEF FreeOrFreed
      <4>6. CASE ~work.inQuarantine
        BY <1>0, <2>5, <4>3, <4>6, RotateIs
      <4> QED BY <4>5, <4>6
    <3>2. work'.at = "publish" /\ work'.inQuarantine = work.inQuarantine
      BY <1>0, <2>5, PublishFields DEF SameTask
    <3> QED BY <3>1, <3>2 DEF RoomToLand, BeforePublish, BeforeGate
  <2>6. CASE PublishOne
    <3>1. work.at = "publish" /\ work'.at = "publish" /\ "md" \notin work'.todo
      BY <1>0, <2>6, PublishFields, PublishIs DEF PublishOne
    <3> QED BY <3>1 DEF RoomToLand, BeforePublish, BeforeGate
  <2>7. CASE Published \/ HoldOne \/ RetireOne \/ RetireEnds
    <3>1. work'.at \in {"hold", "retire"}
      BY <1>0, <2>7, PublishFields, MoveFields DEF HoldOne, RetireOne
    <3> QED BY <3>1 DEF RoomToLand, BeforePublish, BeforeGate
  <2> QED BY <1>3, <2>1, <2>2, <2>3, <2>4, <2>5, <2>6, <2>7 DEF Next, Build, Refine, Publish, Retire, Judge
<1> QED BY <1>1, <1>2, <1>3

LEMMA NextKept == KeptInv /\ [Next]_vars => KeptInv'
<1> SUFFICES ASSUME KeptInv, [Next]_vars PROVE KeptInv'
  OBVIOUS
<1>1. Typed'
  BY NextTyped DEF KeptInv
<1>2. CASE UNCHANGED vars
  BY <1>1, <1>2 DEF vars, KeptInv, RoomToLand, FreeOrFreed
<1> QED BY <1>1, <1>2, RoomStep DEF KeptInv

\* Of a text that a step loses: it is a resume that the user released under a refine of it.
LEMMA OnlyReleasedStep ==
  ASSUME KeptInv, Next, Preserves, NEW k \in Kept, k[2] # 0, k \notin Kept'
  PROVE  k = <<"md", pub["md"]>> /\ k \in freed /\ work.inQuarantine
<1>1. Typed /\ RoomToLand
  BY DEF KeptInv
<1>2. PublishOne /\ "md" \in work.todo /\ pub["md"] # 0
  BY <1>1, NothingLostStep
<1>3. k = <<"md", pub["md"]>>
  BY <1>1, <1>2, LandsOnTheReleased
<1>4. work.inQuarantine /\ FreeOrFreed
  BY <1>1, <1>2 DEF RoomToLand, PublishOne
<1> QED BY <1>2, <1>3, <1>4 DEF FreeOrFreed

\* core/refine_files.py: whatever fails, dies or is released, no step of a refine, of a
\* release or of a hold loses the text of a resume or of a letter, but for the resume that
\* the user releases while a refine of the held one is under way: that one lands on it.
THEOREM OnlyAReleasedTextIsLost == Spec => OnlyReleasedIsLost
<1>1. Init => KeptInv
  <2>1. Init => work.at = "idle" /\ rel.at = "quiet"
    BY IdleType, QuietType DEF Init
  <2> QED BY <2>1, InitTyped DEF KeptInv, RoomToLand, BeforePublish, BeforeGate
<1>2. KeptInv /\ [Next]_vars => KeptInv'
  BY NextKept
<1>3. KeptInv /\ [Next]_vars
        => [Preserves => \A k \in Kept :
              k[2] # 0 /\ k \notin Kept' => k = <<"md", pub["md"]>> /\ k \in freed /\ work.inQuarantine]_vars
  BY OnlyReleasedStep
<1> QED BY <1>1, <1>2, <1>3, PTL DEF Spec, OnlyReleasedIsLost

\* When a refine has published, every public document of the resume is of its revision.
THEOREM NoExportIsStale == Spec => NoStaleExport
<1>1. Init => PublishInv
  <2>1. Init => work.at = "idle"
    BY IdleType DEF Init
  <2> QED BY <2>1, InitTyped DEF PublishInv, PublishedSoFar
<1>2. PublishInv /\ [Next]_vars => PublishInv'
  <2> SUFFICES ASSUME PublishInv, [Next]_vars PROVE PublishInv'
    OBVIOUS
  <2>1. Typed'
    BY NextTyped DEF PublishInv
  <2>2. CASE UNCHANGED vars
    BY <2>1, <2>2 DEF vars, PublishInv, PublishedSoFar
  <2>3. CASE Next
    <3> SUFFICES PublishedSoFar'
      BY <2>1 DEF PublishInv
    <3>0. Typed /\ TypeOK /\ PublishedSoFar
      BY DEF PublishInv, Typed
    <3>1. CASE Rotate
      BY <3>0, <3>1, PublishFields DEF PublishedSoFar
    <3>2. CASE PublishOne
      <4> DEFINE n == First(work.todo)
      <4>1. /\ work.at = "publish" /\ work'.todo = work.todo \ {n} /\ work'.rev = work.rev
            /\ \A m \in Names : m # n => pub'[m] = pub[m]
            /\ pub'[n] \in {0, work.rev} /\ Resume \subseteq Names
        BY <3>0, <3>2, PublishFields, PublishIs DEF PublishOne, SameTask, Names
      <4> HIDE DEF n
      <4> QED BY <3>0, <4>1 DEF PublishedSoFar
    <3>3. work'.at = "publish" => Rotate \/ PublishOne
      BY <2>3, <3>0, Arrivals
    <3>4. CASE work'.at # "publish"
      BY <3>4 DEF PublishedSoFar
    <3> QED BY <3>1, <3>2, <3>3, <3>4
  <2> QED BY <2>2, <2>3
<1>3. PublishInv => [Undisturbed' /\ Published => \A n \in Resume : pub[n] \in {0, work.rev}]_vars
  BY DEF PublishInv, PublishedSoFar, Published
<1> QED BY <1>1, <1>2, <1>3, PTL DEF Spec, NoStaleExport

-----------------------------------------------------------------------------
(* A resume that was written is where it is looked for *)

\* The markdown of the resume is public or held; or it was never written.
Has == pub["md"] # 0 \/ held["md"] # 0
NoResume ==
  /\ ~Has /\ \A p \in parked : p[1] # "md"
  /\ \A v \in Revs : older[v] = 0 /\ retired[v] = 0

\* Between a rotation and the publish it is in an archive, from where it is put back.
CanPutBack ==
  /\ work.at = "publish" /\ "md" \in work.todo /\ ~work.published
  /\ work.rotated \in Revs
  /\ IF work.inQuarantine THEN retired[work.rotated] # 0 ELSE older[work.rotated] # 0

FewFaults == budget.crashes = 0 /\ budget.faults <= 1

ResumeInv ==
  /\ Typed
  /\ work.at \in BeforePublish => ~work.published
  /\ FewFaults =>
       /\ Has \/ NoResume \/ CanPutBack
       /\ work.at = "publish" /\ "md" \notin work.todo => pub["md"] # 0
       /\ work.at = "retire" => pub["md"] # 0

\* What is spent stays spent, and each failed operation spends.
LEMMA BudgetGrows ==
  ASSUME TypeOK, Next
  PROVE  /\ budget.faults \in Nat /\ budget.crashes \in Nat
         /\ budget'.faults >= budget.faults /\ budget'.crashes >= budget.crashes
         /\ GateCrashes \/ RotateFails \/ PublishFails \/ RetireFails \/ ReleaseFails => budget'.faults > budget.faults
         /\ Crash => budget'.crashes > budget.crashes
<1>0. /\ budget \in [faults : 0..MaxFaults, crashes : 0..MaxCrashes, releases : 0..MaxReleases]
      /\ budget.faults \in Nat /\ budget.crashes \in Nat
  BY Bounds DEF TypeOK
<1>1. CASE Fault
  BY <1>0, <1>1, FaultType DEF GateCrashes, RotateFails, PublishFails, RetireFails, ReleaseFails, Crash, Fault
<1>2. CASE Crash
  BY <1>0, <1>2 DEF Crash, GateCrashes, RotateFails, PublishFails, RetireFails, ReleaseFails, Fault
<1>3. CASE ReleaseStarts
  BY <1>0, <1>3 DEF ReleaseStarts, Crash, GateCrashes, RotateFails, PublishFails, RetireFails, ReleaseFails, Fault
<1>4. CASE PublishFails
  <2>1. Fault \/ budget' = [budget EXCEPT !.faults = @ + 2]
    BY <1>4 DEF PublishFails
  <2> QED BY <1>0, <1>1, <1>2, <2>1
<1>5. CASE ~Fault /\ ~Crash /\ ~ReleaseStarts /\ ~PublishFails
  <2>1. UNCHANGED budget
    BY <1>5 DEF Next, Build, Refine, Publish, Retire, Judge, ReleaseRequest, BuildStarts, BuildExports, BuildLetter,
       BuildScored, WorkFails, RefineStarts, RefineStages, RefineReads, RefineRescores, Gate, GateCrashes, HoldOne,
       HoldEnds, Rotate, RotateFails, PublishOne, Published, RetireOne, RetireFails, RetireEnds,
       ReleaseOne, ReleaseFails, ReleaseMoved, ReleaseRecords, ReleaseUndone, UndoOne, UndoEnds
  <2> QED BY <1>0, <1>5, <2>1 DEF GateCrashes, RotateFails, RetireFails, ReleaseFails
<1> QED BY <1>1, <1>2, <1>3, <1>4, <1>5

\* Nothing is published before the publish.
LEMMA NotPublishedYet ==
  ASSUME TypeOK, Next, work.at \in BeforePublish => ~work.published
  PROVE  work'.at \in BeforePublish => ~work'.published
<1>0. work \in Work
  BY DEF TypeOK
<1> USE DEF BeforePublish, BeforeGate
<1>1. CASE ReleaseRequest
  BY <1>1, ReleaseFields
<1>2. CASE HoldEnds \/ WorkFails \/ RotateFails \/ PublishFails \/ RetireFails \/ Crash
  BY <1>2, EndFields DEF ToIdle
<1>3. CASE BuildStarts \/ RefineStarts
  <2>1. ~work'.published
    BY <1>3 DEF BuildStarts, RefineStarts, Idle
  <2> QED BY <2>1
<1>4. CASE Gate \/ GateCrashes
  BY <1>4, GateFields DEF Gate, GateCrashes, SamePublish
<1>5. CASE BuildExports \/ BuildLetter \/ BuildScored
  <2>1. work'.published = work.published /\ work.at \in BeforePublish
    BY <1>0, <1>5 DEF BuildExports, BuildLetter, BuildScored, Work
  <2> QED BY <2>1
<1>6. CASE RefineStages
  <2>1. PICK staged : work' = [work EXCEPT !.at = "scoring", !.stage = staged]
    BY <1>6 DEF RefineStages
  <2>2. work'.published = work.published /\ work.at \in BeforePublish
    BY <1>0, <1>6, <2>1 DEF RefineStages, Work
  <2> QED BY <2>2
<1>7. CASE RefineReads \/ RefineRescores
  <2>1. work'.published = work.published /\ work.at \in BeforePublish
    BY <1>0, <1>7 DEF RefineReads, RefineRescores, Work
  <2> QED BY <2>1
<1>8. CASE Rotate \/ PublishOne \/ Published
  BY <1>8, PublishFields DEF PublishOne
<1>9. CASE HoldOne \/ RetireOne \/ RetireEnds
  BY <1>9, MoveFields DEF HoldOne, RetireOne
<1> QED BY <1>1, <1>2, <1>3, <1>4, <1>5, <1>6, <1>7, <1>8, <1>9 DEF Next, Build, Refine, Publish, Retire, Judge

LEMMA ResumeStep ==
  ASSUME ResumeInv, Next, FewFaults'
  PROVE  Has' \/ NoResume' \/ CanPutBack'
<1>0. /\ Typed /\ TypeOK /\ Control /\ RetireIsHeld /\ MovedIsPublic /\ work \in Work /\ rel \in Release
      /\ "md" \in Names /\ "md" \in Resume
  BY WorkTypes DEF ResumeInv, Typed, Names, Resume
<1>1. FewFaults /\ budget'.faults <= 1 /\ budget'.crashes = 0 /\ budget'.faults \in Int
  <2>1. budget'.faults <= 1 /\ budget'.crashes = 0 /\ budget.faults \in Nat /\ budget.crashes \in Nat
    BY <1>0, BudgetGrows DEF FewFaults
  <2>2. budget.faults <= budget'.faults /\ budget.crashes <= budget'.crashes
    BY <1>0, BudgetGrows
  <2>3. budget'.faults \in Int
    BY <1>0, NextTyped DEF Typed, TypeOK
  <2> QED BY <2>1, <2>2, <2>3 DEF FewFaults
<1>2. /\ Has \/ NoResume \/ CanPutBack
      /\ work.at = "publish" /\ "md" \notin work.todo => pub["md"] # 0
      /\ work.at = "retire" => pub["md"] # 0
  BY <1>1 DEF ResumeInv
<1>3. CASE HoldOne
  <2> DEFINE n == First(work.todo)
             out == {<<n, r>> : r \in {held[n]} \ {0}}
  <2>1. /\ n \in Names /\ UNCHANGED <<older, retired>>
        /\ \A m \in Names : m # n => pub'[m] = pub[m] /\ held'[m] = held[m]
        /\ \/ UNCHANGED <<pub, held, parked>>
           \/ pub[n] # 0 /\ held'[n] = pub[n] /\ parked' = parked \cup out
           \/ pub[n] # 0 /\ UNCHANGED pub /\ (parked' = parked \/ parked' = parked \cup out)
    BY <1>0, <1>3, HoldIs
  <2>2. \A p \in out : p[1] = n
    OBVIOUS
  <2>3. ~CanPutBack
    BY <1>3 DEF HoldOne, CanPutBack
  <2> HIDE DEF n, out
  <2> QED BY <1>0, <1>2, <2>1, <2>2, <2>3 DEF Has, NoResume
<1>4. CASE BuildExports \/ BuildLetter
  <2>1. ~CanPutBack /\ UNCHANGED <<held, older, retired, parked>>
    BY <1>0, <1>4, BuildIs DEF CanPutBack
  <2>2. CASE BuildExports
    <3>1. pub'["md"] = work.rev /\ work.rev \in Revs
      BY <1>0, <2>2, BuildIs DEF Control
    <3> QED BY <3>1, Bounds DEF Revs, Has
  <2>3. CASE BuildLetter
    <3>1. pub'["md"] = pub["md"]
      BY <1>0, <2>3, BuildIs
    <3> QED BY <1>2, <2>1, <3>1 DEF Has, NoResume
  <2> QED BY <1>4, <2>2, <2>3
<1>5. CASE Rotate
  <2>1. /\ work'.at = "publish" /\ work'.todo = Resume /\ ~work'.published
        /\ work'.inQuarantine = work.inQuarantine /\ UNCHANGED parked
        /\ work'.rotated = IF OldMd = 0 THEN 0 ELSE HighestVersion + 1
    BY <1>0, <1>5, PublishFields DEF SameTask, Rotate, ResumeInv, BeforePublish
  <2>2. CASE OldMd = 0
    <3>1. UNCHANGED <<pub, held, older, retired, parked>> /\ ~CanPutBack
      BY <1>5, <2>2 DEF Rotate, CanPutBack
    <3> QED BY <1>2, <3>1 DEF Has, NoResume
  <2>3. CASE OldMd # 0
    <3>1. /\ work'.rotated \in Revs
          /\ IF work.inQuarantine THEN retired'[work'.rotated] = held["md"] ELSE older'[work'.rotated] = pub["md"]
      BY <1>0, <1>5, <2>1, <2>3, RotateIs
    <3> QED BY <1>0, <2>1, <2>3, <3>1 DEF CanPutBack, OldMd
  <2> QED BY <2>2, <2>3
<1>6. CASE PublishOne
  <2>1. CASE "md" \in work.todo
    <3>1. pub'["md"] = work.rev /\ work.rev \in Revs
      BY <1>0, <1>6, <2>1, PublishIs DEF Control, PublishOne
    <3> QED BY <3>1, Bounds DEF Revs, Has
  <2>2. CASE "md" \notin work.todo
    <3>1. pub'["md"] = pub["md"] /\ work.at = "publish"
      BY <1>0, <1>6, <2>2, PublishIs DEF PublishOne
    <3> QED BY <1>2, <2>2, <3>1 DEF Has
  <2> QED BY <2>1, <2>2
<1>7. CASE PublishFails
  <2> DEFINE v == work.rotated
  <2>0. UNCHANGED parked
    BY <1>0, <1>7, PublishFailsIs
  <2>1. CASE /\ PutBack /\ v \in Revs
             /\ \A u \in Revs : u # v => older'[u] = older[u] /\ retired'[u] = retired[u]
             /\ IF work.inQuarantine
                THEN /\ held'["md"] = retired[v] /\ retired'[v] = 0 /\ UNCHANGED <<pub, older>>
                ELSE /\ pub'["md"] = older[v] /\ older'[v] = 0 /\ UNCHANGED <<held, retired>>
    BY <1>2, <2>0, <2>1 DEF PutBack, OldMd, Has, NoResume, CanPutBack
  <2>2. CASE ~PutBack /\ UNCHANGED <<pub, held, older, retired>>
    <3>1. CanPutBack => v # 0 /\ ~work.published
      BY Bounds DEF CanPutBack, Revs
    <3> QED BY <1>2, <2>0, <2>2, <3>1 DEF PutBack, OldMd, Has, NoResume
  <2>3. budget'.faults # budget.faults + 2
    <3>1. budget.faults \in Nat
      BY <1>0, BudgetGrows
    <3> QED BY <1>1, <3>1
  <2>4. \/ /\ PutBack /\ v \in Revs
           /\ \A u \in Revs : u # v => older'[u] = older[u] /\ retired'[u] = retired[u]
           /\ IF work.inQuarantine
              THEN /\ held'["md"] = retired[v] /\ retired'[v] = 0 /\ UNCHANGED <<pub, older>>
              ELSE /\ pub'["md"] = older[v] /\ older'[v] = 0 /\ UNCHANGED <<held, retired>>
        \/ ~PutBack /\ UNCHANGED <<pub, held, older, retired>>
    BY <1>0, <1>7, <2>3, PublishFailsIs
  <2> QED BY <2>1, <2>2, <2>4
<1>8. CASE RetireOne
  <2>1. UNCHANGED pub /\ work.at = "retire"
    BY <1>8 DEF RetireOne
  <2> QED BY <1>2, <2>1 DEF Has
<1>9. CASE ReleaseOne
  <2> DEFINE n == Last(rel.todo)
  <2>1. /\ UNCHANGED <<parked, older, retired>> /\ n \in Names /\ n \in rel.todo
        /\ \/ UNCHANGED <<pub, held>>
           \/ /\ \A m \in Names : m # n => pub'[m] = pub[m] /\ held'[m] = held[m]
              /\ pub'[n] = held[n]
    BY <1>0, <1>9, ReleaseOneIs
  <2> HIDE DEF n
  <2>2. held[n] # 0
    BY <1>0, <2>1 DEF RetireIsHeld
  <2>3. ~CanPutBack
    BY <1>0, <1>9 DEF ReleaseOne, Control, Resting, CanPutBack
  <2> QED BY <1>0, <1>2, <2>1, <2>2, <2>3 DEF Has, NoResume
<1>10. CASE UndoOne
  <2>1. PICK n \in rel.moved :
          /\ UNCHANGED <<parked, older, retired>> /\ n \in Names
          /\ \/ UNCHANGED <<pub, held>>
             \/ /\ \A m \in Names : m # n => pub'[m] = pub[m] /\ held'[m] = held[m]
                /\ held'[n] = pub[n]
    BY <1>0, <1>10, UndoIs
  <2>2. pub[n] # 0
    BY <1>0, <2>1 DEF MovedIsPublic
  <2>3. ~CanPutBack
    BY <1>0, <1>10 DEF UndoOne, Control, Resting, CanPutBack
  <2> QED BY <1>0, <1>2, <2>1, <2>2, <2>3 DEF Has, NoResume
<1>11. CASE ~Moves
  <2>1. UNCHANGED <<pub, held, older, retired, parked>>
    BY <1>11, Still
  <2>2. ~CanPutBack
    <3>1. ~Crash
      <4>1. Crash => budget'.crashes > budget.crashes
        BY <1>0, BudgetGrows
      <4>2. budget'.crashes = 0 /\ budget.crashes = 0
        BY <1>1 DEF FewFaults
      <4> QED BY <4>1, <4>2
    <3>2. CanPutBack => work.at = "publish" /\ work.todo # {}
      BY DEF CanPutBack
    <3>3. ReleaseRequest => work.at \in Resting
      BY <1>0, ReleaseFields DEF Control, LoopIsFree, Resting
    <3>4. work.at = "publish" /\ ~ReleaseRequest => Published
      BY <1>11, <3>1 DEF Moves, Next, Build, Refine, Publish, Retire, Judge, BuildStarts, BuildScored,
         WorkFails, RefineStarts, RefineStages, RefineReads, RefineRescores, Gate, GateCrashes,
         HoldEnds, RotateFails, RetireFails, RetireEnds, LoopIsFree
    <3> QED BY <3>2, <3>3, <3>4 DEF Published, Resting
  <2> QED BY <1>2, <2>1, <2>2 DEF Has, NoResume
<1> QED BY <1>3, <1>4, <1>5, <1>6, <1>7, <1>8, <1>9, <1>10, <1>11 DEF Moves

LEMMA LandedStep ==
  ASSUME ResumeInv, Next, FewFaults'
  PROVE  /\ work'.at = "publish" /\ "md" \notin work'.todo => pub'["md"] # 0
         /\ work'.at = "retire" => pub'["md"] # 0
<1>0. /\ Typed /\ TypeOK /\ Control /\ work \in Work /\ "md" \in Names /\ "md" \in Resume
  BY WorkTypes DEF ResumeInv, Typed, Names, Resume
<1>1. FewFaults
  <2>1. budget'.faults <= 1 /\ budget'.crashes = 0 /\ budget.faults \in Nat /\ budget.crashes \in Nat
    BY <1>0, BudgetGrows DEF FewFaults
  <2>2. budget.faults <= budget'.faults /\ budget.crashes <= budget'.crashes
    BY <1>0, BudgetGrows
  <2>3. budget'.faults \in Int
    BY <1>0, NextTyped DEF Typed, TypeOK
  <2> QED BY <2>1, <2>2, <2>3 DEF FewFaults
<1>2. /\ work.at = "publish" /\ "md" \notin work.todo => pub["md"] # 0
      /\ work.at = "retire" => pub["md"] # 0
  BY <1>1 DEF ResumeInv
<1>3. CASE Rotate
  BY <1>0, <1>3, PublishFields
<1>4. CASE PublishOne
  <2>1. work.at = "publish" /\ work'.at = "publish"
    BY <1>0, <1>4, PublishFields DEF PublishOne
  <2>2. CASE "md" \in work.todo
    <3>1. pub'["md"] = work.rev /\ work.rev \in Revs
      BY <1>0, <1>4, <2>1, <2>2, PublishIs DEF Control
    <3> QED BY <2>1, <3>1, Bounds DEF Revs
  <2>3. CASE "md" \notin work.todo
    <3>1. pub'["md"] = pub["md"]
      BY <1>0, <1>4, <2>3, PublishIs
    <3> QED BY <1>2, <2>1, <2>3, <3>1
  <2> QED BY <2>2, <2>3
<1>5. CASE Published
  <2>1. UNCHANGED pub /\ work.at = "publish" /\ work.todo = {} /\ work'.at \in {"hold", "retire"}
    BY <1>0, <1>5, PublishFields DEF Published
  <2> QED BY <1>2, <2>1
<1>6. CASE RetireOne
  <2>1. UNCHANGED pub /\ work.at = "retire" /\ work'.at = "retire"
    BY <1>0, <1>6, MoveFields DEF RetireOne
  <2> QED BY <1>2, <2>1
<1> QED BY <1>0, <1>3, <1>4, <1>5, <1>6, Arrivals

\* A role whose resume was ever written has one whenever nothing is at work on it, while
\* the process has not died and no more than one file operation failed.
THEOREM AResumeIsLeft == Spec => []AlwaysAResume
<1>1. Init => ResumeInv
  <2> SUFFICES ASSUME Init PROVE ResumeInv
    OBVIOUS
  <2>1. work.at = "idle" /\ Typed
    BY IdleType, InitTyped DEF Init
  <2>2. NoResume
    BY DEF Init, NoResume, Has, Names, Resume
  <2> QED BY <2>1, <2>2 DEF ResumeInv, BeforePublish, BeforeGate
<1>2. ResumeInv /\ [Next]_vars => ResumeInv'
  <2> SUFFICES ASSUME ResumeInv, [Next]_vars PROVE ResumeInv'
    OBVIOUS
  <2>1. Typed /\ TypeOK /\ Typed'
    BY NextTyped DEF ResumeInv, Typed
  <2>2. CASE Next
    BY <2>1, <2>2, NotPublishedYet, ResumeStep, LandedStep DEF ResumeInv
  <2>3. CASE UNCHANGED vars
    BY <2>1, <2>3 DEF vars, ResumeInv, FewFaults, Has, NoResume, CanPutBack
  <2> QED BY <2>2, <2>3
<1>3. ResumeInv => AlwaysAResume
  <2> SUFFICES ASSUME ResumeInv, budget.crashes = 0, budget.faults <= 1, work.at = "idle",
                      NEW k \in Kept, k[1] = "md", k[2] # 0
               PROVE  Has
    BY DEF AlwaysAResume, Has
  <2>1. Has \/ NoResume
    BY DEF ResumeInv, FewFaults, CanPutBack
  <2>2. \/ k[2] = pub["md"] \/ k[2] = held["md"]
        \/ k \in parked
        \/ \E v \in Revs : k[2] = older[v] \/ k[2] = retired[v]
    BY DEF Kept
  <2> QED BY <2>1, <2>2 DEF NoResume, Has
<1> QED BY <1>1, <1>2, <1>3, PTL DEF Spec

-----------------------------------------------------------------------------
(* While nothing goes wrong, no failed document can be downloaded at any moment *)

\* Where each failed document stands.
NoneFails ==
  /\ work.at \in Resting \cup {"gate"} => \A n \in Present(pub) : ~Failing(n, pub[n])
  /\ work.at = "rotate" => \A n \in Present(pub) \cap Resume : ~Failing(n, pub[n])
  /\ \A v \in Revs : older[v] # 0 => ~Failing("md", older[v])
FailedAreRefused ==
  /\ work.at \in {"rotate", "publish", "retire"} =>
       \A n \in Present(pub) : Failing(n, pub[n]) => n \in NamesOf(work.hold) \cap Refused
  /\ work.at = "hold" => \A n \in Present(pub) : Failing(n, pub[n]) => n \in work.todo \cap Refused

\* The verdict on what is about to land is the report's, and is to be held.
VerdictIsHeld ==
  work.at \in {"rotate", "publish"} =>
    /\ report.about = work.rev
    /\ <<"resume", work.rev>> \in fatal => "resume" \in work.hold

\* A text of the resume is in one place.
OnePlaceEach ==
  /\ pub["md"] # 0 => pub["md"] # held["md"]
  /\ \A v \in Revs : older[v] # 0 => older[v] # pub["md"] /\ older[v] # held["md"]

InOrder == NoneFails /\ FailedAreRefused /\ VerdictIsHeld /\ OnePlaceEach
DownloadInv == ClosedInv /\ (Undisturbed => InOrder)

\* A step that leaves documents, verdicts and the report where they are keeps them in
\* order, when the work stays among the places where no public document fails.
LEMMA RestingStep ==
  ASSUME TypeOK, InOrder, UNCHANGED <<pub, held, older, fatal, freed>>,
         work.at \in Resting \cup {"gate"}, work'.at \in Resting \cup {"gate"}
  PROVE  InOrder'
<1>1. NoneFails' /\ OnePlaceEach'
  BY DEF InOrder, NoneFails, OnePlaceEach, Failing, Present, Resting
<1>2. FailedAreRefused' /\ VerdictIsHeld'
  BY DEF FailedAreRefused, VerdictIsHeld, Resting
<1> QED BY <1>1, <1>2 DEF InOrder

LEMMA OrderAtGate ==
  ASSUME ClosedInv, InOrder, Gate, TypeOK'
  PROVE  InOrder'
<1>0. /\ Typed /\ TypeOK /\ Control /\ DocumentsAreOlder /\ work \in Work /\ report \in Report
      /\ pub \in [Names -> 0..MaxRevs] /\ older \in [Revs -> 0..MaxRevs] /\ revs \in Nat
  BY WorkTypes DEF ClosedInv, Typed
<1>1. /\ work.at = "gate" /\ work.rev = revs /\ UNCHANGED <<pub, held, older, retired, freed>>
      /\ SameTask /\ work'.at = After(work) /\ work'.at \in {"rotate", "hold"}
      /\ (work'.at = "rotate" <=> work.kind = "refine")
      /\ work'.todo = NamesOf(work'.hold) /\ work'.hold = report'.arts
  BY <1>0, GateIs, GateFields DEF After
<1>2. \A n \in Present(pub) : ~Failing(n, pub[n])
  BY <1>1 DEF InOrder, NoneFails
<1>3. \A n \in Present(pub) : Failing(n, pub[n])' =>
        \/ n \in Resume /\ pub[n] = work.rev /\ <<"resume", work.rev>> \in fatal'
        \/ n = "letter" /\ work.letter # 0 /\ pub[n] = work.letter /\ <<"letter", work.letter>> \in fatal'
  <2> SUFFICES ASSUME NEW n \in Present(pub), Failing(n, pub[n])'
               PROVE  \/ n \in Resume /\ pub[n] = work.rev /\ <<"resume", work.rev>> \in fatal'
                      \/ n = "letter" /\ work.letter # 0 /\ pub[n] = work.letter /\ <<"letter", work.letter>> \in fatal'
    OBVIOUS
  <2>1. <<Kind(n), pub[n]>> \in fatal' /\ <<n, pub[n]>> \notin freed
    BY <1>1 DEF Failing
  <2>2. <<Kind(n), pub[n]>> \notin fatal
    BY <1>2, <2>1 DEF Failing
  <2>3. \/ <<Kind(n), pub[n]>> = <<"resume", work.rev>>
        \/ work.letter # 0 /\ <<Kind(n), pub[n]>> = <<"letter", work.letter>>
    BY <2>1, <2>2, GateIs
  <2> QED BY <2>1, <2>3 DEF Kind, Names, Present
<1>4. \A n \in Present(pub) : Failing(n, pub[n])' =>
        Kind(n) \in report'.arts /\ report'.state = "quarantined" /\ n \in report'.named
  <2> SUFFICES ASSUME NEW n \in Present(pub), Failing(n, pub[n])'
               PROVE  Kind(n) \in report'.arts /\ report'.state = "quarantined" /\ n \in report'.named
    OBVIOUS
  <2>0. pub[n] # 0 /\ <<n, pub[n]>> \notin freed
    BY <1>1 DEF Present, Failing
  <2>1. CASE n \in Resume /\ <<"resume", work.rev>> \in fatal'
    BY <2>0, <2>1, GateIs DEF Resume, Kind
  <2>2. CASE n = "letter" /\ work.letter # 0 /\ <<"letter", work.letter>> \in fatal'
    BY <2>0, <2>2, GateIs DEF Kind
  <2> QED BY <1>3, <2>1, <2>2
<1>5. FailedAreRefused'
  <2>1. \A n \in Present(pub) : Failing(n, pub[n])' => n \in NamesOf(work'.hold) \cap Refused'
    BY <1>1, <1>4 DEF NamesOf, Refused, Present
  <2>2. Present(pub)' = Present(pub)
    BY <1>1 DEF Present
  <2> QED BY <1>1, <2>1, <2>2 DEF FailedAreRefused
<1>6. NoneFails'
  <2>1. work.kind = "refine" => \A n \in Present(pub) \cap Resume : ~Failing(n, pub[n])'
    <3>1. work.kind = "refine" => \A n \in Names : pub[n] < work.rev
      BY <1>0, <1>1 DEF DocumentsAreOlder, BeforePublish, BeforeGate
    <3>2. work.kind = "refine" => \A n \in Names : pub[n] # work.rev
      BY <1>0, <1>1, <3>1
    <3> QED BY <1>3, <3>2 DEF Present, Resume
  <2>2. \A v \in Revs : older[v] # 0 => ~Failing("md", older[v])'
    <3> SUFFICES ASSUME NEW v \in Revs, older[v] # 0 PROVE ~Failing("md", older[v])'
      OBVIOUS
    <3>1. ~Failing("md", older[v])
      BY DEF InOrder, NoneFails
    <3>2. older[v] # work.rev
      BY <1>0, <1>1 DEF DocumentsAreOlder
    <3> QED BY <1>1, <3>1, <3>2, GateIs DEF Failing, Kind
  <2>3. Present(pub)' = Present(pub)
    BY <1>1 DEF Present
  <2> QED BY <1>1, <2>1, <2>2, <2>3 DEF NoneFails, Resting
<1>7. VerdictIsHeld'
  <2>1. work'.rev = work.rev /\ report'.about = work.rev
    BY <1>1, GateIs DEF SameTask
  <2> QED BY <1>1, <2>1, GateIs DEF VerdictIsHeld
<1>8. OnePlaceEach'
  BY <1>1 DEF InOrder, OnePlaceEach
<1> QED BY <1>5, <1>6, <1>7, <1>8 DEF InOrder

LEMMA OrderAtPublish ==
  ASSUME ClosedInv, InOrder, Rotate \/ PublishOne \/ Published
  PROVE  InOrder'
<1>0. /\ Typed /\ TypeOK /\ Control /\ DocumentsAreOlder /\ work \in Work /\ report \in Report
      /\ pub \in [Names -> 0..MaxRevs] /\ held \in [Names -> 0..MaxRevs] /\ older \in [Revs -> 0..MaxRevs]
      /\ revs \in Nat /\ "md" \in Names /\ NamedBeforeLanding
      /\ NoneFails /\ FailedAreRefused /\ VerdictIsHeld /\ OnePlaceEach
  BY WorkTypes DEF ClosedInv, Typed, Names, Resume, InOrder
<1>1. /\ UNCHANGED <<report, fatal, freed>> /\ Refused' = Refused /\ work'.hold = work.hold /\ work'.rev = work.rev
      /\ work.at \in {"rotate", "publish"} /\ work'.at \in {"publish", "hold", "retire"}
  BY <1>0, PublishFields DEF Rotate, PublishOne, Published, Refused, SameTask
<1>2. VerdictIsHeld'
  BY <1>0, <1>1 DEF VerdictIsHeld
<1>3. \A n \in Names : pub[n] # 0 /\ Failing(n, pub[n]) => n \in NamesOf(work.hold) \cap Refused
  BY <1>0, <1>1 DEF FailedAreRefused, Present
<1>4. CASE Rotate
  <2> DEFINE u == HighestVersion + 1
  <2>0. work.at = "rotate" /\ work'.at = "publish"
    BY <1>0, <1>4, PublishFields DEF Rotate
  <2>1. \/ UNCHANGED <<pub, held, older>>
        \/ /\ u \in Revs
           /\ \A m \in Names : m # "md" => pub'[m] = pub[m] /\ held'[m] = held[m]
           /\ \A v \in Revs : v # u => older'[v] = older[v]
           /\ \/ held'["md"] = 0 /\ UNCHANGED <<pub, older>>
              \/ pub["md"] # 0 /\ pub'["md"] = 0 /\ older'[u] = pub["md"] /\ UNCHANGED held
    BY <1>0, <1>4, RotateIs DEF OldMd
  <2> HIDE DEF u
  <2>2. \A n \in Names : pub'[n] \in {pub[n], 0}
    BY <1>0, <2>1
  <2>3. FailedAreRefused'
    BY <1>1, <1>3, <2>0, <2>2 DEF FailedAreRefused, Present, Failing
  <2>4. pub["md"] # 0 => ~Failing("md", pub["md"])
    BY <1>0, <2>0 DEF NoneFails, Present, Resume
  <2>5. \A v \in Revs : older'[v] # 0 => ~Failing("md", older'[v])
    BY <1>0, <2>1, <2>4 DEF NoneFails
  <2>6. NoneFails'
    BY <1>1, <2>0, <2>5 DEF NoneFails, Failing, Resting
  <2>7. OnePlaceEach'
    BY <1>0, <2>1 DEF OnePlaceEach
  <2> QED BY <1>2, <2>3, <2>6, <2>7 DEF InOrder
<1>5. CASE PublishOne
  <2> DEFINE n == First(work.todo)
  <2>0. work.at = "publish" /\ work'.at = "publish" /\ work.todo \subseteq Resume /\ work.rev = revs
    BY <1>0, <1>5, PublishFields DEF PublishOne, Control
  <2>1. /\ n \in Names /\ n \in Resume /\ UNCHANGED <<held, older>>
        /\ \A m \in Names : m # n => pub'[m] = pub[m]
        /\ pub'[n] = work.rev \/ pub'[n] = 0
    BY <1>0, <1>5, <2>0, PublishIs
  <2> HIDE DEF n
  <2>2. Failing(n, work.rev) => n \in NamesOf(work.hold) \cap Refused
    <3>1. report.about = work.rev /\ (<<"resume", work.rev>> \in fatal => "resume" \in work.hold)
      BY <1>0, <2>0 DEF VerdictIsHeld
    <3>2. Kind(n) = "resume"
      BY <2>1 DEF Kind, Resume
    <3> QED BY <1>0, <2>0, <2>1, <3>1, <3>2 DEF NamedBeforeLanding, Failing, NamesOf
  <2>3. FailedAreRefused'
    BY <1>1, <1>3, <2>0, <2>1, <2>2 DEF FailedAreRefused, Present, Failing
  <2>4. NoneFails'
    BY <1>0, <1>1, <2>0, <2>1 DEF NoneFails, Failing, Resting
  <2>5. OnePlaceEach'
    <3>1. held["md"] < revs /\ \A v \in Revs : older[v] < revs
      BY <1>0, <2>0 DEF DocumentsAreOlder
    <3>2. held["md"] # revs /\ \A v \in Revs : older[v] # revs
      BY <1>0, <3>1
    <3>3. pub'["md"] \in {pub["md"], revs, 0}
      BY <1>0, <2>0, <2>1
    <3> QED BY <1>0, <2>1, <3>2, <3>3 DEF OnePlaceEach
  <2> QED BY <1>2, <2>3, <2>4, <2>5 DEF InOrder
<1>6. CASE Published
  <2>1. /\ UNCHANGED <<pub, held, older>> /\ work'.at \in {"hold", "retire"}
        /\ work'.at = "hold" => work'.todo = NamesOf(work.hold)
    BY <1>0, <1>6, PublishFields DEF Published
  <2>2. FailedAreRefused'
    BY <1>1, <1>3, <2>1 DEF FailedAreRefused, Present, Failing
  <2>3. NoneFails' /\ OnePlaceEach'
    BY <1>0, <1>1, <2>1 DEF NoneFails, OnePlaceEach, Failing, Resting
  <2> QED BY <1>2, <2>2, <2>3 DEF InOrder
<1> QED BY <1>4, <1>5, <1>6

LEMMA OrderInHold ==
  ASSUME ClosedInv, InOrder, HoldOne \/ HoldEnds \/ RetireOne \/ RetireEnds, ~Fault
  PROVE  InOrder'
<1>0. /\ Typed /\ TypeOK /\ Control /\ work \in Work
      /\ pub \in [Names -> 0..MaxRevs] /\ held \in [Names -> 0..MaxRevs] /\ older \in [Revs -> 0..MaxRevs]
      /\ "md" \in Names
      /\ NoneFails /\ FailedAreRefused /\ OnePlaceEach
  BY WorkTypes DEF ClosedInv, Typed, Names, Resume, InOrder
<1>1. /\ UNCHANGED <<report, fatal, freed, older>> /\ Refused' = Refused
      /\ work'.at \in {"hold", "retire", "idle"}
  BY <1>0, EndFields, MoveFields DEF HoldOne, HoldEnds, RetireOne, RetireEnds, Refused, ToIdle
<1>2. VerdictIsHeld'
  BY <1>1 DEF VerdictIsHeld
<1>3. CASE HoldOne
  <2> DEFINE n == First(work.todo)
  <2>1. /\ n \in Names /\ work.at = "hold" /\ work'.at = "hold" /\ work'.todo = work.todo \ {n}
        /\ \A m \in Names : m # n => pub'[m] = pub[m] /\ held'[m] = held[m]
        /\ \/ pub[n] = 0 /\ UNCHANGED <<pub, held>>
           \/ pub[n] # 0 /\ pub'[n] = 0 /\ held'[n] = pub[n]
    BY <1>0, <1>3, HoldIs, MoveFields DEF HoldOne
  <2> HIDE DEF n
  <2>2. FailedAreRefused'
    BY <1>0, <1>1, <2>1 DEF FailedAreRefused, Present, Failing
  <2>3. NoneFails'
    BY <1>0, <1>1, <2>1 DEF NoneFails, Failing, Resting
  <2>4. OnePlaceEach'
    BY <1>0, <1>1, <2>1 DEF OnePlaceEach
  <2> QED BY <1>2, <2>2, <2>3, <2>4 DEF InOrder
<1>4. CASE HoldEnds
  <2>1. UNCHANGED <<pub, held>> /\ work.at = "hold" /\ work.todo = {} /\ work'.at = "idle"
    BY <1>4, EndFields DEF HoldEnds, ToIdle
  <2>2. NoneFails'
    BY <1>0, <1>1, <2>1 DEF NoneFails, FailedAreRefused, Failing, Present
  <2>3. FailedAreRefused' /\ OnePlaceEach'
    BY <1>0, <1>1, <2>1 DEF FailedAreRefused, OnePlaceEach
  <2> QED BY <1>2, <2>2, <2>3 DEF InOrder
<1>5. CASE RetireOne
  <2> DEFINE n == Last(work.todo)
  <2>1. n \in Names /\ held' = Drop(held, n) /\ UNCHANGED pub /\ work.at = "retire"
    BY <1>0, <1>5, LastIsOne DEF RetireOne, Work
  <2>2. \A m \in Names : held'[m] = (IF m = n THEN 0 ELSE held[m])
    BY <1>0, <2>1, DropIs
  <2> HIDE DEF n
  <2>3. work'.at = "retire" /\ work'.hold = work.hold
    BY <1>0, <1>5, <2>1, MoveFields
  <2>4. FailedAreRefused' /\ NoneFails'
    BY <1>0, <1>1, <2>1, <2>3 DEF FailedAreRefused, NoneFails, Failing, Present, Resting
  <2>5. OnePlaceEach'
    BY <1>0, <1>1, <2>1, <2>2 DEF OnePlaceEach
  <2> QED BY <1>2, <2>4, <2>5 DEF InOrder
<1>6. CASE RetireEnds
  <2>1. UNCHANGED <<pub, held>> /\ work.at = "retire" /\ work'.at = "hold" /\ work'.todo = NamesOf(work.hold)
    BY <1>0, <1>6, MoveFields DEF RetireEnds
  <2>2. FailedAreRefused' /\ NoneFails' /\ OnePlaceEach'
    BY <1>0, <1>1, <2>1 DEF FailedAreRefused, NoneFails, OnePlaceEach, Failing, Present, Resting
  <2> QED BY <1>2, <2>2 DEF InOrder
<1> QED BY <1>3, <1>4, <1>5, <1>6

LEMMA OrderInBuild ==
  ASSUME ClosedInv, InOrder, BuildExports \/ BuildLetter
  PROVE  InOrder'
<1>0. /\ Typed /\ TypeOK /\ Control /\ work \in Work /\ DocumentsAreOlder /\ VerdictsAreOlder
      /\ pub \in [Names -> 0..MaxRevs] /\ held \in [Names -> 0..MaxRevs] /\ older \in [Revs -> 0..MaxRevs]
      /\ revs \in Nat /\ "md" \in Names
      /\ NoneFails /\ OnePlaceEach
  BY WorkTypes DEF ClosedInv, Typed, Names, Resume, InOrder
<1>1. /\ work.at \in {"writing", "scoring"} /\ work'.at = "scoring" /\ work.rev = revs
      /\ UNCHANGED <<held, older, freed, fatal>>
      /\ \A m \in Names : pub'[m] = pub[m] \/ pub'[m] = revs
  BY <1>0, BuildIs, BuildFields DEF Control, BuildExports, BuildLetter
<1>2. VerdictIsHeld' /\ FailedAreRefused'
  BY <1>1 DEF VerdictIsHeld, FailedAreRefused
<1>3. \A n \in Names : ~Failing(n, revs)
  <2>1. \A j \in fatal : j[2] < revs
    BY <1>0, <1>1 DEF VerdictsAreOlder, BeforeGate
  <2>2. \A a : <<a, revs>> \notin fatal
    <3> SUFFICES ASSUME NEW a, <<a, revs>> \in fatal PROVE FALSE
      OBVIOUS
    <3>1. <<a, revs>>[2] < revs
      BY <2>1
    <3> QED BY <1>0, <3>1
  <2> QED BY <2>2 DEF Failing
<1>4. NoneFails'
  BY <1>0, <1>1, <1>3 DEF NoneFails, Failing, Present, Resting
<1>5. OnePlaceEach'
  <2>1. held["md"] < revs /\ \A v \in Revs : older[v] < revs
    BY <1>0, <1>1 DEF DocumentsAreOlder, BeforePublish, BeforeGate
  <2>2. held["md"] # revs /\ \A v \in Revs : older[v] # revs
    BY <1>0, <2>1
  <2> QED BY <1>0, <1>1, <2>2 DEF OnePlaceEach
<1> QED BY <1>2, <1>4, <1>5 DEF InOrder

LEMMA OrderInRelease ==
  ASSUME ClosedInv, InOrder, ReleaseRequest
  PROVE  InOrder'
<1>0. /\ Typed /\ TypeOK /\ Control /\ RetireIsHeld
      /\ pub \in [Names -> 0..MaxRevs] /\ held \in [Names -> 0..MaxRevs] /\ older \in [Revs -> 0..MaxRevs]
      /\ "md" \in Names
      /\ NoneFails /\ OnePlaceEach
  BY WorkTypes DEF ClosedInv, Typed, Names, Resume, InOrder
<1>1. UNCHANGED <<work, older, fatal>> /\ work.at \in Resting
  BY <1>0, ReleaseFields DEF Control, LoopIsFree, Resting
<1>2. VerdictIsHeld' /\ FailedAreRefused'
  BY <1>1 DEF VerdictIsHeld, FailedAreRefused, Resting
<1>3. (\A n \in Present(pub) : ~Failing(n, pub[n])) /\ \A v \in Revs : older[v] # 0 => ~Failing("md", older[v])
  BY <1>0, <1>1 DEF NoneFails
<1>4. CASE ReleaseOne
  <2> DEFINE n == Last(rel.todo)
  <2>1. /\ n \in Names /\ n \in rel.todo
        /\ \/ UNCHANGED <<pub, held, freed>>
           \/ /\ \A m \in Names : m # n => pub'[m] = pub[m] /\ held'[m] = held[m]
              /\ pub'[n] = held[n] /\ held'[n] = 0 /\ freed' = freed \cup {<<n, held[n]>>}
    BY <1>0, <1>4, ReleaseOneIs
  <2> HIDE DEF n
  <2>2. held[n] # 0
    BY <1>0, <2>1 DEF RetireIsHeld
  <2>3. NoneFails'
    BY <1>0, <1>1, <1>3, <2>1 DEF NoneFails, Failing, Present, Resting
  <2>4. OnePlaceEach'
    BY <1>0, <1>1, <2>1, <2>2 DEF OnePlaceEach
  <2> QED BY <1>2, <2>3, <2>4 DEF InOrder
<1>5. CASE UndoOne
  <2>1. PICK n \in Names :
          \/ UNCHANGED <<pub, held, freed>>
          \/ /\ \A m \in Names : m # n => pub'[m] = pub[m] /\ held'[m] = held[m]
             /\ pub'[n] = 0 /\ held'[n] = pub[n] /\ freed' = freed \ {<<n, pub[n]>>}
    BY <1>0, <1>5, UndoIs
  <2>2. \A v \in Revs : older[v] # 0 => <<"md", older[v]>> # <<n, pub[n]>>
    BY <1>0 DEF OnePlaceEach
  <2>3. \A m \in Names : m # n => <<m, pub[m]>> # <<n, pub[n]>>
    OBVIOUS
  <2>4. NoneFails'
    <3>1. \A m \in Present(pub)' : ~Failing(m, pub[m])'
      BY <1>1, <1>3, <2>1, <2>3 DEF Failing, Present
    <3>2. \A v \in Revs : older'[v] # 0 => ~Failing("md", older[v])'
      BY <1>1, <1>3, <2>1, <2>2 DEF Failing
    <3> QED BY <1>1, <3>1, <3>2 DEF NoneFails, Resting
  <2>5. OnePlaceEach'
    BY <1>0, <1>1, <2>1 DEF OnePlaceEach
  <2> QED BY <1>2, <2>4, <2>5 DEF InOrder
<1>6. CASE ReleaseRecords
  <2>1. UNCHANGED <<pub, held>> /\ freed \subseteq freed'
    BY <1>6 DEF ReleaseRecords
  <2>2. NoneFails'
    BY <1>1, <1>3, <2>1 DEF NoneFails, Failing, Present, Resting
  <2>3. OnePlaceEach'
    BY <1>0, <1>1, <2>1 DEF OnePlaceEach
  <2> QED BY <1>2, <2>2, <2>3 DEF InOrder
<1>7. CASE ReleaseStarts \/ ReleaseFails \/ ReleaseMoved \/ ReleaseUndone \/ UndoEnds
  <2>1. UNCHANGED <<pub, held, freed>>
    BY <1>7 DEF ReleaseStarts, ReleaseFails, ReleaseMoved, ReleaseUndone, UndoEnds
  <2> QED BY <1>0, <1>1, <2>1, RestingStep
<1> QED BY <1>4, <1>5, <1>6, <1>7 DEF ReleaseRequest

LEMMA DownloadStep ==
  ASSUME DownloadInv, Next, Undisturbed', TypeOK'
  PROVE  InOrder'
<1>0. Typed /\ TypeOK /\ Control /\ ClosedInv
  BY DEF DownloadInv, ClosedInv, Typed
<1>1. /\ InOrder /\ ~Fault /\ ~Crash
      /\ ~GateCrashes /\ ~RotateFails /\ ~PublishFails /\ ~RetireFails /\ ~ReleaseFails
  <2>1. budget'.faults = 0 /\ budget'.crashes = 0 /\ budget.faults \in Nat /\ budget.crashes \in Nat
    BY <1>0, BudgetGrows DEF Undisturbed
  <2>2. budget.faults = 0 /\ budget.crashes = 0
    BY <1>0, <2>1, BudgetGrows
  <2>3. ~Fault
    BY <1>0, <2>1, FaultType
  <2>4. ~Crash /\ ~GateCrashes /\ ~RotateFails /\ ~PublishFails /\ ~RetireFails /\ ~ReleaseFails
    BY <1>0, <2>1, <2>2, BudgetGrows
  <2>5. InOrder
    BY <2>2 DEF DownloadInv, Undisturbed
  <2> QED BY <2>3, <2>4, <2>5
<1>2. CASE Gate
  BY <1>0, <1>1, <1>2, OrderAtGate
<1>3. CASE Rotate \/ PublishOne \/ Published
  BY <1>0, <1>1, <1>3, OrderAtPublish
<1>4. CASE HoldOne \/ HoldEnds \/ RetireOne \/ RetireEnds
  BY <1>0, <1>1, <1>4, OrderInHold
<1>5. CASE BuildExports \/ BuildLetter
  BY <1>0, <1>1, <1>5, OrderInBuild
<1>6. CASE ReleaseRequest
  BY <1>0, <1>1, <1>6, OrderInRelease
<1>7. CASE BuildStarts \/ BuildScored \/ WorkFails \/ Refine
  <2>1. /\ UNCHANGED <<pub, held, older, fatal, freed>> /\ work.at \in Resting
    BY <1>7 DEF Refine, BuildStarts, BuildScored, WorkFails, RefineStarts, RefineStages, RefineReads,
                RefineRescores, Resting
  <2>2. work'.at \in Resting \cup {"gate"}
    BY <1>0, <1>7, StartFields, BuildFields, RefineFields, EndFields DEF Refine, ToIdle, Resting
  <2> QED BY <1>0, <1>1, <2>1, <2>2, RestingStep
<1> QED BY <1>1, <1>2, <1>3, <1>4, <1>5, <1>6, <1>7 DEF Next, Build, Publish, Retire, Judge

\* While no file operation fails and no process dies, no failed document the user has not
\* released can be downloaded at any moment, archived versions included.
THEOREM NoFailedIsDownloaded == Spec => []NoFailedDownload
<1>1. Init => DownloadInv
  <2> SUFFICES ASSUME Init PROVE DownloadInv
    OBVIOUS
  <2>1. ClosedInv /\ fatal = {} /\ work.at = "idle"
    BY InitClosed, IdleType DEF Init
  <2>2. pub["md"] = 0 /\ \A v \in Revs : older[v] = 0
    BY DEF Init, Names, Resume
  <2> QED BY <2>1, <2>2 DEF DownloadInv, InOrder, NoneFails, FailedAreRefused, VerdictIsHeld, OnePlaceEach, Failing
<1>2. DownloadInv /\ [Next]_vars => DownloadInv'
  <2> SUFFICES ASSUME DownloadInv, [Next]_vars PROVE DownloadInv'
    OBVIOUS
  <2>1. ClosedInv /\ ClosedInv' /\ TypeOK'
    BY NextClosed DEF DownloadInv, ClosedInv, Typed
  <2>2. CASE Next
    BY <2>1, <2>2, DownloadStep DEF DownloadInv
  <2>3. CASE UNCHANGED vars
    BY <2>1, <2>3 DEF vars, DownloadInv, Undisturbed, InOrder, NoneFails, FailedAreRefused, VerdictIsHeld,
                      OnePlaceEach, Failing, Present, Refused
  <2> QED BY <2>2, <2>3
<1>3. DownloadInv => NoFailedDownload
  <2> SUFFICES ASSUME DownloadInv, Undisturbed
               PROVE  /\ \A n \in Present(pub) : Failing(n, pub[n]) => n \in Refused
                      /\ \A v \in Revs : older[v] # 0 => ~Failing("md", older[v])
    BY DEF NoFailedDownload
  <2>1. InOrder /\ work.at \in Places
    BY WorkTypes DEF DownloadInv, ClosedInv, Typed, Work
  <2> QED BY <2>1 DEF InOrder, NoneFails, FailedAreRefused, Places, Resting
<1> QED BY <1>1, <1>2, <1>3, PTL DEF Spec

-----------------------------------------------------------------------------
(* The lease that a refine of the packet takes first, for any number of    *)
(* processes, attempts and lock files                                      *)

Locking(p) == pc[p] \in {"stat", "inside", "close"}

\* A process holds the lock of the file it has open, once it has taken it, and no other.
LockIsOpen ==
  /\ \A p \in Procs : Locking(p) => fd[p] \in Files /\ lock[fd[p]] = p
  /\ \A f \in Files, p \in Procs : lock[f] = p => Locking(p) /\ fd[p] = f
  /\ \A p \in Procs : pc[p] = "flock" => fd[p] \in Files

\* Inside the lease the file is the one at the path: nobody can lock another one there.
InsideAtPath == \A p \in Procs : pc[p] = "inside" => fd[p] = path

LeaseInv == LeaseTypeOK /\ LockIsOpen /\ InsideAtPath

-----------------------------------------------------------------------------

LEMMA LeaseExcludes ==
  ASSUME LeaseInv
  PROVE  OneRevision
<1> SUFFICES ASSUME NEW p \in Procs, NEW q \in Procs, pc[p] = "inside", pc[q] = "inside"
             PROVE  p = q
  BY DEF OneRevision
<1>1. fd[p] = path /\ fd[q] = path BY DEF LeaseInv, InsideAtPath
<1>2. lock[fd[p]] = p /\ lock[fd[q]] = q BY DEF LeaseInv, LockIsOpen, Locking
<1> QED BY <1>1, <1>2

LEMMA InitLease == LeaseInit => LeaseInv
BY RefineLeaseAssumption DEF LeaseInit, LeaseInv, LeaseTypeOK, LockIsOpen, InsideAtPath, Locking, Steps, None, Files

\* Closing gives back the lock of the file, and only this process's.
LEMMA CloseKeeps ==
  ASSUME LeaseInv, NEW p \in Procs, Close(p), path' = path, files' = files,
         NEW s \in {"outside", "open"}, pc' = [pc EXCEPT ![p] = s],
         tries' \in [Procs -> 0..LockAttempts]
  PROVE  LeaseInv'
<1> USE DEF Close
<1>1. /\ pc \in [Procs -> Steps] /\ fd \in [Procs -> Files \cup {None}]
      /\ lock \in [Files -> Procs \cup {None}]
  BY DEF LeaseInv, LeaseTypeOK
<1>2. /\ pc'[p] = s /\ \A q \in Procs : q # p => pc'[q] = pc[q] /\ fd'[q] = fd[q]
      /\ \A f \in Files : lock'[f] = IF lock[f] = p THEN None ELSE lock[f]
  BY <1>1
<1>3. LeaseTypeOK' BY <1>1 DEF LeaseInv, LeaseTypeOK, Steps
<1>4. LockIsOpen'
  <2>1. ~Locking(p)' BY <1>2 DEF Locking
  <2>2. \A q \in Procs : q # p => (Locking(q)' <=> Locking(q)) BY <1>2 DEF Locking
  <2>3. \A f \in Files, q \in Procs : lock'[f] = q => lock[f] = q /\ q # p
    BY <1>2, RefineLeaseAssumption DEF LeaseInv
  <2>4. \A q \in Procs : Locking(q)' => fd'[q] \in Files /\ lock'[fd'[q]] = q
    BY <1>2, <2>1, <2>2 DEF LeaseInv, LockIsOpen
  <2>5. \A f \in Files, q \in Procs : lock'[f] = q => Locking(q)' /\ fd'[q] = f
    BY <1>2, <2>2, <2>3 DEF LeaseInv, LockIsOpen
  <2>6. \A q \in Procs : pc'[q] = "flock" => fd'[q] \in Files
    BY <1>2 DEF LeaseInv, LockIsOpen
  <2> QED BY <2>4, <2>5, <2>6 DEF LockIsOpen
<1>5. InsideAtPath' BY <1>2 DEF LeaseInv, InsideAtPath
<1> QED BY <1>3, <1>4, <1>5 DEF LeaseInv

-----------------------------------------------------------------------------

LEMMA EnterKeeps ==
  ASSUME LeaseInv, NEW p \in Procs, Enter(p)
  PROVE  LeaseInv'
<1> USE DEF Enter
<1>1. LeaseTypeOK' BY RefineLeaseAssumption DEF LeaseInv, LeaseTypeOK, Steps
<1>2. LockIsOpen' /\ InsideAtPath' BY DEF LeaseInv, LeaseTypeOK, LockIsOpen, InsideAtPath, Locking
<1> QED BY <1>1, <1>2 DEF LeaseInv

\* A file is only created when there is none, so nobody is inside.
LEMMA OpenKeeps ==
  ASSUME LeaseInv, NEW p \in Procs, Open(p)
  PROVE  LeaseInv'
<1> USE DEF Open
<1>1. PICK f \in Files : path' = f /\ fd' = [fd EXCEPT ![p] = f] /\ (path # None => path' = path)
  BY RefineLeaseAssumption DEF LeaseInv, LeaseTypeOK, Files, None
<1>2. files' \in 0..MaxFiles BY RefineLeaseAssumption DEF LeaseInv, LeaseTypeOK
<1>3. LeaseTypeOK' BY <1>1, <1>2 DEF LeaseInv, LeaseTypeOK, Steps
<1>4. /\ pc'[p] = "flock" /\ fd'[p] = f
      /\ \A q \in Procs : q # p => pc'[q] = pc[q] /\ fd'[q] = fd[q]
  BY <1>1 DEF LeaseInv, LeaseTypeOK
<1>5. LockIsOpen' BY <1>4 DEF LeaseInv, LockIsOpen, Locking
<1>6. InsideAtPath'
  <2>1. \A q \in Procs : pc[q] = "inside" => path # None
    BY DEF LeaseInv, InsideAtPath, LockIsOpen, Locking, Files, None
  <2> QED BY <1>1, <1>4, <2>1 DEF LeaseInv, InsideAtPath
<1> QED BY <1>3, <1>5, <1>6 DEF LeaseInv

LEMMA FlockKeeps ==
  ASSUME LeaseInv, NEW p \in Procs, Flock(p)
  PROVE  LeaseInv'
<1>1. CASE lock[fd[p]] = None
  <2>1. /\ lock' = [lock EXCEPT ![fd[p]] = p] /\ pc' = [pc EXCEPT ![p] = "stat"]
        /\ pc[p] = "flock" /\ UNCHANGED <<path, files, fd, tries>>
    BY <1>1 DEF Flock
  <2>2. fd[p] \in Files BY <2>1 DEF LeaseInv, LockIsOpen
  <2>3. LeaseTypeOK' BY <2>1, <2>2 DEF LeaseInv, LeaseTypeOK, Steps
  <2>4. LockIsOpen'
    BY <1>1, <2>1, <2>2, RefineLeaseAssumption DEF LeaseInv, LeaseTypeOK, LockIsOpen, Locking
  <2>5. InsideAtPath' BY <2>1 DEF LeaseInv, LeaseTypeOK, InsideAtPath
  <2> QED BY <2>3, <2>4, <2>5 DEF LeaseInv
<1>2. CASE lock[fd[p]] # None
  BY <1>2, CloseKeeps DEF Flock, LeaseInv, LeaseTypeOK
<1> QED BY <1>1, <1>2

LEMMA StatKeeps ==
  ASSUME LeaseInv, NEW p \in Procs, Stat(p)
  PROVE  LeaseInv'
<1> USE DEF Stat
<1>1. CASE fd[p] = path
  <2>1. LeaseTypeOK' BY <1>1 DEF LeaseInv, LeaseTypeOK, Steps
  <2>2. LockIsOpen' BY <1>1 DEF LeaseInv, LeaseTypeOK, LockIsOpen, Locking
  <2>3. InsideAtPath' BY <1>1 DEF LeaseInv, LeaseTypeOK, InsideAtPath
  <2> QED BY <2>1, <2>2, <2>3 DEF LeaseInv
<1>2. CASE fd[p] # path
  <2>1. tries' \in [Procs -> 0..LockAttempts]
    BY <1>2, RefineLeaseAssumption DEF LeaseInv, LeaseTypeOK
  <2>2. PICK s \in {"outside", "open"} : pc' = [pc EXCEPT ![p] = s] BY <1>2
  <2> QED BY <1>2, <2>1, <2>2, CloseKeeps
<1> QED BY <1>1, <1>2

\* Only the one inside removes the file.
LEMMA UnlinkKeeps ==
  ASSUME LeaseInv, NEW p \in Procs, Unlink(p)
  PROVE  LeaseInv'
<1> USE DEF Unlink
<1>1. LeaseTypeOK' BY DEF LeaseInv, LeaseTypeOK, Steps
<1>2. LockIsOpen' BY DEF LeaseInv, LeaseTypeOK, LockIsOpen, Locking
<1>3. \A q \in Procs : pc'[q] # "inside"
  BY LeaseExcludes DEF OneRevision, LeaseInv, LeaseTypeOK
<1> QED BY <1>1, <1>2, <1>3 DEF LeaseInv, InsideAtPath

LEMMA LeaveKeeps ==
  ASSUME LeaseInv, NEW p \in Procs, Leave(p) \/ Die(p)
  PROVE  LeaseInv'
BY CloseKeeps DEF Leave, Die, LeaseInv, LeaseTypeOK

LEMMA NextLease == LeaseInv /\ [LeaseNext]_leaseVars => LeaseInv'
<1> SUFFICES ASSUME LeaseInv, [LeaseNext]_leaseVars PROVE LeaseInv' OBVIOUS
<1>1. CASE UNCHANGED leaseVars
  BY <1>1 DEF leaseVars, LeaseInv, LeaseTypeOK, LockIsOpen, InsideAtPath, Locking
<1>2. CASE LeaseNext
  BY <1>2, EnterKeeps, OpenKeeps, FlockKeeps, StatKeeps, UnlinkKeeps, LeaveKeeps DEF LeaseNext
<1> QED BY <1>1, <1>2

-----------------------------------------------------------------------------

\* refine_files.lease: however takers, removals and deaths interleave, one revision of a
\* resume is inside at most.
THEOREM OneRevisionAtATime == LeaseSpec => []OneRevision
<1>1. LeaseInit => LeaseInv BY InitLease
<1>2. LeaseInv => OneRevision BY LeaseExcludes
<1> QED BY NextLease, <1>1, <1>2, PTL DEF LeaseSpec

\* refine_files._try_lock: whoever is refused, gives up or dies has given back its lock.
THEOREM LeaseGivesBack == LeaseSpec => []NoLeftoverLock
<1>1. LeaseInit => LeaseInv BY InitLease
<1>2. LeaseInv => NoLeftoverLock
  BY DEF LeaseInv, LeaseTypeOK, LockIsOpen, Locking, NoLeftoverLock
<1> QED BY NextLease, <1>1, <1>2, PTL DEF LeaseSpec
=============================================================================
