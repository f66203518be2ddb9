------------------------- MODULE PacketFilingProofs -------------------------
(***************************************************************************)
(* No folder moves under a writer whose entry the filer can recognise, and *)
(* only the hold of a build past midnight splits an entry in two, for any  *)
(* number of jobs, days, folders, builds and passes.                       *)
(***************************************************************************)
EXTENDS PacketFiling, TLAPS, WellFoundedInduction

\* A task has a leased row; a row may outlive the task of a run that was stopped.
RowOfTask ==
  /\ \A j \in Jobs : task[j].at # "none" => db.row[j] = "leased"
  /\ \A j \in Jobs : task[j].at \in {"holding", "held", "recording"} => task[j].kind = "build"
  /\ \A j \in Jobs : task[j].at = "none" => task[j] = NoTask

\* The day of a build's entry has come, and a refine's entry is recorded for its job.
Recognised ==
  \A j \in Jobs : Holds(j) =>
    \/ task[j].kind = "build" /\ task[j].entry[1] <= today
    \/ task[j].kind = "refine" /\ task[j].entry \in db.recorded[j]

\* A refine has claimed an entry of its job, and the entries of tasks and records exist.
RecordedExist ==
  /\ \A j \in Jobs : task[j].at = "claimed" /\ task[j].kind = "refine" => task[j].entry \in db.recorded[j]
  /\ \A j \in Jobs : task[j].at = "claimed" /\ task[j].kind = "build" => task[j].entry = NoEntry
  /\ \A j \in Jobs : \A e \in db.recorded[j] : where[e] # {}
  /\ \A j \in Jobs : Holds(j) => where[task[j].entry] # {}

\* Nobody shares the lock with a pass, and no move of a pass is of a covered task's entry.
PassSpares ==
  filer.runs =>
    /\ writer = NoWriter
    /\ \A j \in Jobs : task[j].at # "recording"
    /\ \A m \in filer.plan, j \in Jobs : Holds(j) /\ Covered(j) => m.entry # task[j].entry

Inv == TypeOK /\ RowOfTask /\ Recognised /\ RecordedExist /\ PassSpares /\ WriterKeepsItsFolder

-----------------------------------------------------------------------------
(* The operators *)

\* The number of a new folder is one of the bound.
LEMMA MinIn ==
  ASSUME NEW S, S \subseteq Nat, S # {}
  PROVE  Min(S) \in S
<1>1. \E x \in S : \A y \in S : <<y, x>> \notin OpToRel(<, Nat)
  BY NatLessThanWellFounded, WFMin
<1>2. PICK x \in S : \A y \in S : <<y, x>> \notin OpToRel(<, Nat)
  BY <1>1
<1>3. \A y \in S : ~(y < x)
  BY <1>2 DEF OpToRel
<1>4. \A y \in S : x <= y
  BY <1>3
<1> QED BY <1>4 DEF Min

LEMMA ApplicationDirUsable ==
  ASSUME TypeOK, ApplicationDir # NoEntry
  PROVE  /\ ApplicationDir \in Entries
         /\ ApplicationDir[1] = today
         /\ Usable(ApplicationDir)
<1> DEFINE free == {n \in 1..MaxCopy : Usable(<<today, n>>)}
<1>1. free # {} /\ ApplicationDir = <<today, Min(free)>>
  BY DEF ApplicationDir
<1>2. free \subseteq Nat
  BY PacketFilingAssumption
<1>3. Min(free) \in free
  <2> HIDE DEF free
  <2> QED BY <1>1, <1>2, MinIn
<1> QED BY <1>1, <1>3 DEF Entries, TypeOK

\* An entry that exists is located where it is.
LEMMA LocateFinds ==
  ASSUME TypeOK, NEW e \in Entries, where[e] # {}
  PROVE  Locate(e) \in where[e] /\ Locate(e) \in Places
<1>1. where[e] \subseteq Places BY DEF TypeOK
<1>2. ASSUME where[e] # {}, "root" \notin where[e]
      PROVE  \E p \in where[e] : \A q \in where[e] : Visibility[p] <= Visibility[q]
  <2>1. \A p \in where[e] : p \in {"Submitted", "Closed before applying", "Archive"}
    BY <1>1, <1>2 DEF Places
  <2>2. /\ Visibility["Submitted"] = 2 /\ Visibility["Closed before applying"] = 3
        /\ Visibility["Archive"] = 4
    BY DEF Visibility, Places
  <2>3. 2 <= 2 /\ 2 <= 3 /\ 2 <= 4 /\ 3 <= 3 /\ 3 <= 4 /\ 4 <= 4 OBVIOUS
  <2>4. CASE "Submitted" \in where[e]
    <3>1. \A q \in where[e] : Visibility["Submitted"] <= Visibility[q]
      BY <2>1, <2>2, <2>3, Zenon
    <3> QED BY <2>4, <3>1
  <2>5. CASE "Submitted" \notin where[e] /\ "Closed before applying" \in where[e]
    <3>1. \A q \in where[e] : q = "Closed before applying" \/ q = "Archive" BY <2>1, <2>5
    <3>2. \A q \in where[e] : Visibility["Closed before applying"] <= Visibility[q]
      BY <2>2, <2>3, <3>1, Zenon
    <3> QED BY <2>5, <3>2
  <2>6. CASE "Submitted" \notin where[e] /\ "Closed before applying" \notin where[e]
    <3>1. \A q \in where[e] : q = "Archive" BY <2>1, <2>6
    <3>2. \A q \in where[e] : Visibility["Archive"] <= Visibility[q]
      BY <2>2, <2>3, <3>1, Zenon
    <3> QED BY <1>2, <3>1, <3>2
  <2> QED BY <2>4, <2>5, <2>6
<1> QED BY <1>1, <1>2 DEF Locate, Places

\* Neither today's entries nor those recorded for a running job are planned.
LEMMA PlanLeavesRunning ==
  ASSUME NEW scope, NEW d, NEW m \in Plan(scope, d), NEW j \in Jobs, d.row[j] = "leased"
  PROVE  m.entry \in Entries /\ m.entry[1] # today /\ m.entry \notin d.recorded[j]
<1>1. m \in Move /\ ~MayBeWritten(m.entry, d) BY DEF Plan
<1>2. j \in Running(d) BY DEF Running
<1>3. m.entry[1] # today /\ j \notin Linked(m.entry, d) BY <1>1, <1>2 DEF MayBeWritten
<1>4. m.entry \notin d.recorded[j] BY <1>3 DEF Linked, Recorded
<1> QED BY <1>1, <1>3, <1>4 DEF Move

LEMMA PlanType ==
  ASSUME NEW scope, NEW d, TypeOK, NEW t, NEW w, PassOr(scope, d, t, w)
  PROVE  filer' \in Filer
BY DEF PassOr, TypeOK, Filer, Plan

-----------------------------------------------------------------------------
(* The passes *)

\* A pass that starts, or is skipped, while tasks only end, spares the tasks that remain.
LEMMA PassOrSpares ==
  ASSUME Inv, NEW scope, NEW d, PassOr(scope, d, task', writer),
         UNCHANGED <<today, writer>>,
         \A j \in Jobs : task'[j] = task[j] \/ task'[j] = NoTask,
         \A j \in Jobs : task'[j] # NoTask => /\ d.row[j] = db.row[j]
                                              /\ db.recorded[j] = d.recorded[j],
         db' = d
  PROVE  PassSpares' /\ filer' \in Filer
<1>1. filer' \in Filer BY PlanType DEF Inv
<1>2. \A j \in Jobs : Holds(j)' => Holds(j) /\ task'[j] = task[j] /\ (Covered(j)' <=> Covered(j))
  BY DEF Holds, NoTask, Covered
<1>3. \A j \in Jobs : task'[j].at = "recording" => task[j].at = "recording"
  BY DEF NoTask
<1>4. CASE ~ExclusiveFree(task', writer)
  <2>1. filer' = filer BY <1>4 DEF PassOr
  <2>2. PassSpares BY DEF Inv
  <2> QED BY <1>1, <1>2, <1>3, <2>1, <2>2 DEF PassSpares
<1>5. CASE ExclusiveFree(task', writer)
  <2>1. filer' = [runs |-> TRUE, plan |-> Plan(scope, d)] BY <1>5 DEF PassOr
  <2>2. writer = NoWriter /\ \A j \in Jobs : task'[j].at # "recording"
    BY <1>5 DEF ExclusiveFree, Sharers
  <2>3. \A m \in Plan(scope, d), j \in Jobs : Holds(j)' /\ Covered(j)' => m.entry # task'[j].entry
    <3> SUFFICES ASSUME NEW m \in Plan(scope, d), NEW j \in Jobs, Holds(j)', Covered(j)'
                 PROVE  m.entry # task[j].entry
      BY <1>2
    <3>1. Holds(j) /\ task'[j] # NoTask BY <1>2 DEF Holds, NoTask
    <3>2. db.row[j] = "leased" BY <3>1 DEF Inv, RowOfTask, Holds
    <3>3. m.entry[1] # today /\ m.entry \notin d.recorded[j]
      BY <3>1, <3>2, PlanLeavesRunning
    <3> QED BY <1>2, <3>1, <3>3 DEF Covered
  <2> QED BY <1>1, <2>1, <2>2, <2>3 DEF PassSpares
<1> QED BY <1>4, <1>5

\* A step that touches neither folders, tasks, rows nor the clock, as passes and writers do.
LEMMA TasksStay ==
  ASSUME Inv, UNCHANGED <<today, where, task>>, db'.row = db.row, db'.recorded = db.recorded
  PROVE  RowOfTask' /\ Recognised' /\ RecordedExist'
<1>1. RowOfTask' BY DEF Inv, RowOfTask
<1>2. Recognised' BY DEF Inv, Recognised, Holds
<1>3. RecordedExist' BY DEF Inv, RecordedExist, Holds
<1> QED BY <1>1, <1>2, <1>3

LEMMA DailyPassKeeps ==
  ASSUME Inv, DailyPass
  PROVE  Inv'
<1> USE DEF DailyPass
<1>1. PassSpares' /\ filer' \in Filer BY PassOrSpares
<1>2. TypeOK' BY <1>1 DEF Inv, TypeOK
<1>3. WriterKeepsItsFolder' BY DEF Inv, WriterKeepsItsFolder, Holds, Covered, HasItsFolder
<1> QED BY <1>1, <1>2, <1>3, TasksStay DEF Inv

LEMMA StageMovesKeeps ==
  ASSUME Inv, NEW j \in Jobs, StageMoves(j)
  PROVE  Inv'
<1> USE DEF StageMoves
<1>0. db \in DB BY DEF Inv, TypeOK
<1>1. PICK s \in Statuses : db' = [db EXCEPT !.status[j] = s] OBVIOUS
<1>2. db'.row = db.row /\ db'.recorded = db.recorded /\ db' \in DB
  BY <1>0, <1>1 DEF DB
<1>3. PassSpares' /\ filer' \in Filer BY <1>2, PassOrSpares
<1>4. spent' \in [work : 0..MaxWork, changes : 0..MaxChanges, writes : 0..MaxWrites]
  BY PacketFilingAssumption DEF Inv, TypeOK
<1>5. TypeOK' BY <1>2, <1>3, <1>4 DEF Inv, TypeOK
<1>6. WriterKeepsItsFolder' BY DEF Inv, WriterKeepsItsFolder, Holds, Covered, HasItsFolder
<1> QED BY <1>2, <1>3, <1>5, <1>6, TasksStay DEF Inv

\* A rename leaves the entry in one place, and takes it from nobody.
LEMMA FilerMovesKeeps ==
  ASSUME Inv, FilerMoves
  PROVE  Inv'
<1> USE DEF FilerMoves
<1>1. PICK m \in filer.plan :
        /\ filer' = [filer EXCEPT !.plan = @ \ {m}]
        /\ where' = IF m.src \in where[m.entry] /\ m.dst \notin where[m.entry]
                    THEN [where EXCEPT ![m.entry] = (@ \ {m.src}) \cup {m.dst}] ELSE where
  OBVIOUS
<1>2. filer \in Filer /\ where \in [Entries -> SUBSET Places] BY DEF Inv, TypeOK
<1>3. m \in Move /\ m.entry \in Entries /\ m.dst \in Places BY <1>2 DEF Filer, Move
<1>4. filer' \in Filer /\ filer'.plan \subseteq filer.plan /\ filer'.runs = filer.runs
  BY <1>1, <1>2 DEF Filer
<1>5. where' \in [Entries -> SUBSET Places] BY <1>1, <1>2, <1>3
<1>6. \A e \in Entries : e # m.entry => where'[e] = where[e] BY <1>1, <1>2
<1>7. where'[m.entry] = where[m.entry] \/ m.dst \in where'[m.entry]
  BY <1>1, <1>2, <1>3
<1>8. where[m.entry] # {} => where'[m.entry] # {} BY <1>7
<1>9. TypeOK' BY <1>4, <1>5 DEF Inv, TypeOK
<1>10. RowOfTask' /\ Recognised' BY DEF Inv, RowOfTask, Recognised, Holds
<1>11. RecordedExist'
  <2>1. \A j \in Jobs : db.recorded[j] \subseteq Entries BY DEF Inv, TypeOK, DB
  <2>2. \A j \in Jobs : Holds(j)' => Holds(j) /\ task[j].entry \in Entries
    BY DEF Inv, TypeOK, Task, Holds
  <2> QED BY <1>6, <1>8, <2>1, <2>2 DEF Inv, RecordedExist
<1>12. PassSpares' BY <1>4 DEF Inv, PassSpares, Holds, Covered
<1>13. WriterKeepsItsFolder'
  <2>1. \A j \in Jobs : Holds(j) /\ Covered(j) => task[j].entry # m.entry /\ task[j].entry \in Entries
    <3>1. \A j \in Jobs : task[j].entry \in Entries \cup {NoEntry} BY DEF Inv, TypeOK, Task
    <3> QED BY <3>1 DEF Inv, PassSpares, Holds
  <2>2. writer = NoWriter BY DEF Inv, PassSpares
  <2> QED BY <1>6, <2>1, <2>2 DEF Inv, WriterKeepsItsFolder, Holds, Covered, HasItsFolder
<1> QED BY <1>9, <1>10, <1>11, <1>12, <1>13 DEF Inv

LEMMA FilerEndsKeeps ==
  ASSUME Inv, FilerEnds
  PROVE  Inv'
<1> USE DEF FilerEnds
<1>1. filer' \in Filer /\ PassSpares' BY DEF NoPass, Filer, PassSpares
<1>2. TypeOK' BY <1>1 DEF Inv, TypeOK
<1>3. WriterKeepsItsFolder' BY DEF Inv, WriterKeepsItsFolder, Holds, Covered, HasItsFolder
<1> QED BY <1>1, <1>2, <1>3, TasksStay DEF Inv

-----------------------------------------------------------------------------
(* Short writers and the clock *)

LEMMA WriterLocatesKeeps ==
  ASSUME Inv, NEW j \in Jobs, WriterLocates(j)
  PROVE  Inv'
<1> USE DEF WriterLocates
<1>1. PICK e \in db.recorded[j] : where[e] # {} /\ writer' = [entry |-> e, place |-> Locate(e)]
  OBVIOUS
<1>2. e \in Entries BY DEF Inv, TypeOK, DB
<1>3. Locate(e) \in where[e] /\ Locate(e) \in Places BY <1>1, <1>2, LocateFinds DEF Inv
<1>4. writer' \in Writer BY <1>1, <1>2, <1>3 DEF Writer
<1>5. spent' \in [work : 0..MaxWork, changes : 0..MaxChanges, writes : 0..MaxWrites]
  BY PacketFilingAssumption DEF Inv, TypeOK
<1>6. TypeOK' BY <1>4, <1>5 DEF Inv, TypeOK
<1>7. WriterKeepsItsFolder' BY <1>1, <1>3 DEF Inv, WriterKeepsItsFolder, Holds, Covered, HasItsFolder
<1>8. PassSpares' BY DEF PassSpares, SharedFree
<1> QED BY <1>6, <1>7, <1>8, TasksStay DEF Inv

LEMMA WriterWritesKeeps ==
  ASSUME Inv, WriterWrites
  PROVE  Inv'
<1> USE DEF WriterWrites
<1>1. writer' \in Writer BY DEF NoWriter, Writer
<1>2. TypeOK' BY <1>1 DEF Inv, TypeOK
<1>3. WriterKeepsItsFolder' BY DEF Inv, WriterKeepsItsFolder, Holds, Covered, HasItsFolder
<1>4. PassSpares' BY DEF Inv, PassSpares, Holds, Covered
<1> QED BY <1>2, <1>3, <1>4, TasksStay DEF Inv

\* No entry is of a day to come: at midnight a task can only lose what covers it.
LEMMA MidnightKeeps ==
  ASSUME Inv, Midnight
  PROVE  Inv'
<1> USE DEF Midnight
<1>1. TypeOK' BY PacketFilingAssumption DEF Inv, TypeOK
<1>2. today \in Nat /\ today' = today + 1 BY PacketFilingAssumption DEF Inv, TypeOK
<1>3. \A j \in Jobs : Holds(j) => task[j].entry[1] \in Nat
  <2>1. \A j \in Jobs : task[j].entry \in Entries \cup {NoEntry} BY DEF Inv, TypeOK, Task
  <2> QED BY <2>1, PacketFilingAssumption DEF Holds, Entries
<1>4. \A j \in Jobs : Holds(j)' => Holds(j) BY DEF Holds
<1>5. \A j \in Jobs : Holds(j) /\ Covered(j)' => Covered(j)
  BY <1>2, <1>3 DEF Inv, Recognised, Covered
<1>6. Recognised' BY <1>2, <1>3, <1>4 DEF Inv, Recognised
<1>7. RowOfTask' /\ RecordedExist' BY <1>4 DEF Inv, RowOfTask, RecordedExist
<1>8. PassSpares' BY <1>4, <1>5 DEF Inv, PassSpares
<1>9. WriterKeepsItsFolder' BY <1>4, <1>5 DEF Inv, WriterKeepsItsFolder, HasItsFolder
<1> QED BY <1>1, <1>6, <1>7, <1>8, <1>9 DEF Inv

-----------------------------------------------------------------------------
(* Builds and refines *)

\* What a task may become: its other parts follow pointwise.
LEMMA TaskUpdate ==
  ASSUME TypeOK, NEW j \in Jobs, NEW t \in Task, task' = [task EXCEPT ![j] = t]
  PROVE  /\ task' \in [Jobs -> Task]
         /\ task'[j] = t
         /\ \A k \in Jobs : k # j => task'[k] = task[k]
BY DEF TypeOK

LEMMA ClaimKeeps ==
  ASSUME Inv, NEW j \in Jobs, NEW t \in Task, Claim(j, t), t.at = "claimed",
         t.kind = "refine" => t.entry \in db.recorded[j],
         t.kind = "build" => t.entry = NoEntry
  PROVE  Inv'
<1> USE DEF Claim
<1>1. /\ task' \in [Jobs -> Task] /\ task'[j] = t
      /\ \A k \in Jobs : k # j => task'[k] = task[k]
  BY TaskUpdate DEF Inv
<1>2. db \in DB BY DEF Inv, TypeOK
<1>3. /\ db' \in DB /\ db'.recorded = db.recorded /\ db'.row[j] = "leased"
      /\ \A k \in Jobs : k # j => db'.row[k] = db.row[k]
  BY <1>2 DEF DB
<1>4. spent' \in [work : 0..MaxWork, changes : 0..MaxChanges, writes : 0..MaxWrites]
  BY PacketFilingAssumption DEF Inv, TypeOK
<1>5. TypeOK' BY <1>1, <1>3, <1>4 DEF Inv, TypeOK
<1>6. \A k \in Jobs : Holds(k)' => k # j /\ Holds(k) /\ (Covered(k)' <=> Covered(k))
  BY <1>1, <1>3 DEF Holds, Covered
<1>7. RowOfTask' BY <1>1, <1>3 DEF Inv, RowOfTask
<1>8. Recognised' BY <1>1, <1>3, <1>6 DEF Inv, Recognised
<1>9. RecordedExist' BY <1>1, <1>3, <1>6 DEF Inv, RecordedExist
<1>10. PassSpares' BY <1>1, <1>6 DEF Inv, PassSpares
<1>11. WriterKeepsItsFolder' BY <1>1, <1>6 DEF Inv, WriterKeepsItsFolder, HasItsFolder
<1> QED BY <1>5, <1>7, <1>8, <1>9, <1>10, <1>11 DEF Inv

LEMMA BuildClaimsKeeps ==
  ASSUME Inv, NEW j \in Jobs, BuildClaims(j)
  PROVE  Inv'
<1> DEFINE t == [NoTask EXCEPT !.at = "claimed"]
<1>1. t \in Task /\ t.at = "claimed" /\ t.kind = "build" /\ t.entry = NoEntry
  BY DEF NoTask, Task, Places
<1>2. Claim(j, t) BY DEF BuildClaims
<1> HIDE DEF t
<1> QED BY <1>1, <1>2, ClaimKeeps

LEMMA RefineClaimsKeeps ==
  ASSUME Inv, NEW j \in Jobs, RefineClaims(j)
  PROVE  Inv'
<1>1. PICK e \in db.recorded[j] : Claim(j, [at |-> "claimed", kind |-> "refine", entry |-> e, place |-> "root"])
  BY DEF RefineClaims
<1> DEFINE t == [at |-> "claimed", kind |-> "refine", entry |-> e, place |-> "root"]
<1>2. e \in Entries BY DEF Inv, TypeOK, DB
<1>3. t \in Task /\ t.at = "claimed" /\ t.kind = "refine" /\ t.entry \in db.recorded[j]
  BY <1>2 DEF Task, Places
<1>4. Claim(j, t) BY <1>1
<1> HIDE DEF t
<1> QED BY <1>3, <1>4, ClaimKeeps

\* The folder a build chooses is at the root from then on.
LEMMA BuildChoosesKeeps ==
  ASSUME Inv, NEW j \in Jobs, BuildChooses(j)
  PROVE  Inv'
<1> USE DEF BuildChooses
<1> DEFINE a == ApplicationDir
           t == [at |-> "writing", kind |-> "build", entry |-> a, place |-> "root"]
<1>1. a \in Entries /\ a[1] = today /\ Usable(a) BY ApplicationDirUsable DEF Inv
<1>2. t \in Task BY <1>1 DEF Task, Places
<1>3. /\ where' = [where EXCEPT ![a] = @ \cup {"root"}]
      /\ task' = [task EXCEPT ![j] = t]
      /\ ~filer.runs
  BY DEF SharedFree
<1> HIDE DEF a
<1>4. /\ task' \in [Jobs -> Task] /\ task'[j] = t
      /\ \A k \in Jobs : k # j => task'[k] = task[k]
  BY <1>2, <1>3, TaskUpdate DEF Inv
<1>5. where \in [Entries -> SUBSET Places] BY DEF Inv, TypeOK
<1>6. where' \in [Entries -> SUBSET Places] BY <1>1, <1>3, <1>5 DEF Places
<1>7. \A e \in Entries : e # a => where'[e] = where[e] BY <1>3, <1>5
<1>8. "root" \in where'[a]
  BY <1>1, <1>3, <1>5
<1>9. \A e \in Entries : where[e] \subseteq where'[e] BY <1>1, <1>3, <1>5
<1>10. TypeOK' BY <1>4, <1>6 DEF Inv, TypeOK
<1>11. \A k \in Jobs : k # j => (Holds(k)' <=> Holds(k)) /\ (Covered(k)' <=> Covered(k))
  BY <1>4 DEF Holds, Covered
<1>12. RowOfTask' BY <1>4 DEF Inv, RowOfTask
<1>13. Recognised'
  <2>1. today \in Nat /\ a[1] <= today BY <1>1, PacketFilingAssumption DEF Inv, TypeOK
  <2> QED BY <1>4, <1>11, <2>1 DEF Inv, Recognised
<1>14. RecordedExist'
  <2>1. \A k \in Jobs : db.recorded[k] \subseteq Entries BY DEF Inv, TypeOK, DB
  <2>2. \A k \in Jobs : Holds(k) => task[k].entry \in Entries BY DEF Inv, TypeOK, Task, Holds
  <2> QED BY <1>4, <1>8, <1>9, <1>11, <2>1, <2>2 DEF Inv, RecordedExist
<1>15. PassSpares' BY <1>3 DEF PassSpares
<1>16. WriterKeepsItsFolder'
  <2>1. ASSUME NEW k \in Jobs, Holds(k)', Covered(k)'
        PROVE  task'[k].place \in where'[task'[k].entry]
    <3>1. CASE k = j BY <3>1, <1>4, <1>8
    <3>2. CASE k # j
      <4>1. task[k].entry \in Entries /\ task[k].place \in where[task[k].entry]
        BY <1>11, <2>1, <3>2 DEF Inv, TypeOK, Task, WriterKeepsItsFolder, Holds, HasItsFolder
      <4> QED BY <1>4, <1>9, <3>2, <4>1
    <3> QED BY <3>1, <3>2
  <2>2. writer # NoWriter => writer.place \in where'[writer.entry]
    <3>1. writer # NoWriter => writer.entry \in Entries
      BY DEF Inv, TypeOK, Writer
    <3> QED BY <1>9, <3>1 DEF Inv, WriterKeepsItsFolder
  <2> QED BY <2>1, <2>2 DEF WriterKeepsItsFolder, HasItsFolder
<1> QED BY <1>10, <1>12, <1>13, <1>14, <1>15, <1>16 DEF Inv

\* A build that goes on with the same entry, whose folder does not move.
LEMMA BuildGoesOn ==
  ASSUME Inv, NEW j \in Jobs, task[j].kind = "build", task[j].at # "none",
         NEW at \in {"holding", "held", "recording"},
         at \in {"holding", "held"} => task[j].at \in {"writing", "holding"},
         at = "recording" => ~filer.runs,
         task' = [task EXCEPT ![j].at = at], where' \in [Entries -> SUBSET Places],
         \A e \in Entries : where[e] \subseteq where'[e],
         UNCHANGED <<today, db, writer, filer, spent>>
  PROVE  Inv'
<1> DEFINE t == [task[j] EXCEPT !.at = at]
<1>1. task[j] \in Task /\ task \in [Jobs -> Task] BY DEF Inv, TypeOK
<1>2. t \in Task /\ t.at = at /\ t.kind = task[j].kind /\ t.entry = task[j].entry
      /\ t.place = task[j].place
  BY <1>1 DEF Task
<1>3. task' = [task EXCEPT ![j] = t] BY <1>1
<1> HIDE DEF t
<1>4. /\ task' \in [Jobs -> Task] /\ task'[j] = t
      /\ \A k \in Jobs : k # j => task'[k] = task[k]
  BY <1>2, <1>3, TaskUpdate DEF Inv
<1>5. TypeOK' BY <1>4 DEF Inv, TypeOK
<1>6. \A k \in Jobs : /\ Holds(k)' => Holds(k) /\ task[k].entry \in Entries
                      /\ Covered(k)' <=> Covered(k)
                      /\ task'[k].entry = task[k].entry /\ task'[k].place = task[k].place
  <2>1. \A k \in Jobs : Holds(k)' => Holds(k)
    <3>1. t.entry # NoEntry => task[j].at # "claimed" BY <1>2 DEF Inv, RecordedExist
    <3>2. task[j].at \in {"claimed", "writing", "holding", "held", "recording"} BY <1>1 DEF Task
    <3>3. t.entry # NoEntry => Holds(j) BY <1>2, <3>1, <3>2 DEF Holds
    <3> QED BY <1>4, <3>3 DEF Holds
  <2>2. \A k \in Jobs : Holds(k) => task[k].entry \in Entries BY DEF Inv, TypeOK, Task, Holds
  <2>3. \A k \in Jobs : task'[k].entry = task[k].entry /\ task'[k].place = task[k].place
    BY <1>2, <1>4
  <2> QED BY <2>1, <2>2, <2>3 DEF Covered
<1>7. RowOfTask' BY <1>2, <1>4 DEF Inv, RowOfTask
<1>8. Recognised' BY <1>2, <1>4, <1>6 DEF Inv, Recognised
<1>9. RecordedExist'
  <2>1. \A k \in Jobs : db.recorded[k] \subseteq Entries BY DEF Inv, TypeOK, DB
  <2> QED BY <1>2, <1>4, <1>6, <2>1 DEF Inv, RecordedExist
<1>10. PassSpares' BY <1>2, <1>4, <1>6 DEF Inv, PassSpares
<1>11. WriterKeepsItsFolder'
  <2>1. writer # NoWriter => writer.entry \in Entries BY DEF Inv, TypeOK, Writer
  <2> QED BY <1>6, <2>1 DEF Inv, WriterKeepsItsFolder, HasItsFolder
<1> QED BY <1>5, <1>7, <1>8, <1>9, <1>10, <1>11 DEF Inv

LEMMA BuildRecordsKeeps ==
  ASSUME Inv, NEW j \in Jobs, BuildRecords(j)
  PROVE  Inv'
<1>1. where' \in [Entries -> SUBSET Places] BY DEF BuildRecords, Inv, TypeOK
<1> QED BY <1>1, BuildGoesOn DEF BuildRecords, SharedFree

LEMMA BuildHoldsKeeps ==
  ASSUME Inv, NEW j \in Jobs, BuildHolds(j)
  PROVE  Inv'
<1>1. where' \in [Entries -> SUBSET Places] BY DEF BuildHolds, Inv, TypeOK
<1> QED BY <1>1, BuildGoesOn DEF BuildHolds

LEMMA BuildHeldKeeps ==
  ASSUME Inv, NEW j \in Jobs, BuildHeld(j)
  PROVE  Inv'
<1>1. task[j] \in Task /\ where \in [Entries -> SUBSET Places] BY DEF Inv, TypeOK
<1>2. where' = [where EXCEPT ![task[j].entry] = @ \cup {task[j].place}] BY DEF BuildHeld
<1>3. task[j].place \in Places BY <1>1 DEF Task
<1>4. where' \in [Entries -> SUBSET Places] /\ \A e \in Entries : where[e] \subseteq where'[e]
  BY <1>1, <1>2, <1>3
<1>5. task[j].kind = "build" BY DEF BuildHeld, Inv, RowOfTask
<1> QED BY <1>4, <1>5, BuildGoesOn DEF BuildHeld

LEMMA RefineLocatesKeeps ==
  ASSUME Inv, NEW j \in Jobs, RefineLocates(j)
  PROVE  Inv'
<1> USE DEF RefineLocates
<1> DEFINE e == task[j].entry
           t == [task[j] EXCEPT !.at = "writing", !.place = Locate(e)]
<1>1. task[j] \in Task /\ task \in [Jobs -> Task] BY DEF Inv, TypeOK
<1>2. e \in db.recorded[j] BY DEF Inv, RecordedExist
<1>3. e \in Entries /\ where[e] # {} BY <1>2 DEF Inv, RecordedExist, TypeOK, DB
<1>4. Locate(e) \in where[e] /\ Locate(e) \in Places BY <1>3, LocateFinds DEF Inv
<1>5. t \in Task /\ t.at = "writing" /\ t.kind = "refine" /\ t.entry = e /\ t.place = Locate(e)
  BY <1>1, <1>4 DEF Task
<1>6. task' = [task EXCEPT ![j] = t] BY <1>1
<1> HIDE DEF t
<1>7. /\ task' \in [Jobs -> Task] /\ task'[j] = t
      /\ \A k \in Jobs : k # j => task'[k] = task[k]
  BY <1>5, <1>6, TaskUpdate DEF Inv
<1> HIDE DEF e
<1>8. TypeOK' BY <1>7 DEF Inv, TypeOK
<1>9. \A k \in Jobs : k # j => (Holds(k)' <=> Holds(k)) /\ (Covered(k)' <=> Covered(k))
  BY <1>7 DEF Holds, Covered
<1>10. RowOfTask' BY <1>5, <1>7 DEF Inv, RowOfTask
<1>11. Recognised' BY <1>2, <1>5, <1>7, <1>9 DEF Inv, Recognised
<1>12. RecordedExist' BY <1>3, <1>5, <1>7, <1>9 DEF Inv, RecordedExist
<1>13. PassSpares' BY DEF PassSpares, SharedFree
<1>14. WriterKeepsItsFolder'
  BY <1>4, <1>5, <1>7, <1>9 DEF Inv, WriterKeepsItsFolder, HasItsFolder
<1> QED BY <1>8, <1>10, <1>11, <1>12, <1>13, <1>14 DEF Inv

-----------------------------------------------------------------------------
(* The end of a task: its row may go with it, its entry may be recorded *)

LEMMA TaskEndKeeps ==
  ASSUME Inv, NEW j \in Jobs, NEW d \in DB, task[j].at # "none",
         task' = [task EXCEPT ![j] = NoTask], db' = d, UNCHANGED <<today, where, writer, spent>>,
         \A k \in Jobs : k # j => d.row[k] = db.row[k] /\ d.recorded[k] = db.recorded[k],
         db.recorded[j] \subseteq d.recorded[j],
         \A e \in d.recorded[j] : where[e] # {},
         PassOr({j}, d, task', writer) \/ UNCHANGED filer
  PROVE  Inv'
<1>1. NoTask \in Task BY DEF NoTask, Task, Places
<1>2. /\ task' \in [Jobs -> Task] /\ task'[j] = NoTask
      /\ \A k \in Jobs : k # j => task'[k] = task[k]
  BY <1>1, TaskUpdate DEF Inv
<1>3. \A k \in Jobs : k # j => d.row[k] = db.row[k] OBVIOUS
<1>4. \A k \in Jobs : Holds(k)' => k # j /\ Holds(k) /\ (Covered(k)' <=> Covered(k))
  BY <1>2 DEF Holds, NoTask, Covered
<1>5. PassSpares' /\ filer' \in Filer
  <2>1. CASE PassOr({j}, d, task', writer)
    <3>1. \A k \in Jobs : task'[k] # NoTask => /\ d.row[k] = db.row[k]
                                               /\ db.recorded[k] = d.recorded[k]
      BY <1>2, <1>3
    <3> QED BY <1>2, <2>1, <3>1, PassOrSpares
  <2>2. CASE UNCHANGED filer
    <3>1. \A k \in Jobs : task'[k].at = "recording" => task[k].at = "recording"
      BY <1>2 DEF NoTask
    <3> QED BY <1>2, <1>4, <2>2, <3>1 DEF Inv, TypeOK, PassSpares
  <2> QED BY <2>1, <2>2
<1>6. TypeOK' BY <1>2, <1>5 DEF Inv, TypeOK
<1>7. RowOfTask' BY <1>2, <1>3 DEF Inv, RowOfTask, NoTask
<1>8. Recognised' BY <1>2, <1>4 DEF Inv, Recognised
<1>9. RecordedExist' BY <1>2, <1>4 DEF Inv, RecordedExist, NoTask
<1>10. WriterKeepsItsFolder' BY <1>2, <1>4 DEF Inv, WriterKeepsItsFolder, HasItsFolder
<1> QED BY <1>5, <1>6, <1>7, <1>8, <1>9, <1>10 DEF Inv

LEMMA BuildDoneKeeps ==
  ASSUME Inv, NEW j \in Jobs, BuildDone(j)
  PROVE  Inv'
<1> USE DEF BuildDone
<1>1. PICK ok \in BOOLEAN, folder \in SUBSET {task[j].entry} :
        LET d == [db EXCEPT !.row[j] = "none", !.recorded[j] = @ \cup folder]
        IN /\ NoEntry \notin folder /\ (ok => folder # {})
           /\ db' = d
           /\ IF ok THEN PassOr({j}, d, task', writer) ELSE UNCHANGED filer
  OBVIOUS
<1> DEFINE d == [db EXCEPT !.row[j] = "none", !.recorded[j] = @ \cup folder]
<1>2. db \in DB /\ task[j] \in Task BY DEF Inv, TypeOK
<1>3. folder \subseteq Entries /\ \A e \in folder : where[e] # {}
  <2>1. folder # {} => task[j].entry # NoEntry BY <1>1
  <2>2. folder # {} => Holds(j) BY <2>1 DEF Holds
  <2>3. folder # {} => task[j].entry \in Entries BY <1>2, <2>1 DEF Task
  <2> QED BY <2>2, <2>3 DEF Inv, RecordedExist
<1>4. /\ d.status = db.status
      /\ d.row = [db.row EXCEPT ![j] = "none"]
      /\ d.recorded = [db.recorded EXCEPT ![j] = @ \cup folder]
  BY <1>2 DEF DB
<1>5. d \in DB
  <2>1. d.row \in [Jobs -> {"none", "leased"}] BY <1>2, <1>4 DEF DB
  <2>2. d.recorded \in [Jobs -> SUBSET Entries] BY <1>2, <1>3, <1>4 DEF DB
  <2> QED BY <1>2, <1>4, <2>1, <2>2 DEF DB
<1>6. db' = d /\ (PassOr({j}, d, task', writer) \/ UNCHANGED filer) BY <1>1
<1> HIDE DEF d
<1>7. /\ \A k \in Jobs : k # j => d.row[k] = db.row[k] /\ d.recorded[k] = db.recorded[k]
      /\ db.recorded[j] \subseteq d.recorded[j]
      /\ \A e \in d.recorded[j] : e \in db.recorded[j] \/ e \in folder
  BY <1>2, <1>4 DEF DB
<1>8. \A e \in d.recorded[j] : where[e] # {} BY <1>3, <1>7 DEF Inv, RecordedExist
<1> QED BY <1>4, <1>5, <1>6, <1>7, <1>8, TaskEndKeeps

LEMMA RefineDoneKeeps ==
  ASSUME Inv, NEW j \in Jobs, RefineDone(j)
  PROVE  Inv'
<1> USE DEF RefineDone
<1> DEFINE d == [db EXCEPT !.row[j] = "none"]
<1>1. db \in DB BY DEF Inv, TypeOK
<1>2. /\ d \in DB /\ d.row = [db.row EXCEPT ![j] = "none"] /\ d.recorded = db.recorded
  BY <1>1 DEF DB
<1>3. db' = d /\ (PassOr({j}, d, task', writer) \/ UNCHANGED filer) OBVIOUS
<1> HIDE DEF d
<1>4. \A e \in d.recorded[j] : where[e] # {} BY <1>2 DEF Inv, RecordedExist
<1>5. \A k \in Jobs : k # j => d.row[k] = db.row[k] BY <1>1, <1>2 DEF DB
<1> QED BY <1>2, <1>3, <1>4, <1>5, TaskEndKeeps

-----------------------------------------------------------------------------
(* Stop, leases and restarts *)

LEMMA StopsKeeps ==
  ASSUME Inv, NEW j \in Jobs, Stops(j)
  PROVE  Inv'
<1> USE DEF Stops
<1>1. db \in DB BY DEF Inv, TypeOK
<1>2. /\ db' \in DB /\ db'.recorded = db.recorded
      /\ \A k \in Jobs : k # j => db'.row[k] = db.row[k]
  BY <1>1 DEF DB
<1>3. \A e \in db'.recorded[j] : where[e] # {} BY <1>2 DEF Inv, RecordedExist
<1> QED BY <1>2, <1>3, TaskEndKeeps

\* The row of a run that is over protects nobody.
LEMMA LeaseLapsesKeeps ==
  ASSUME Inv, NEW j \in Jobs, LeaseLapses(j)
  PROVE  Inv'
<1> USE DEF LeaseLapses
<1>1. db \in DB BY DEF Inv, TypeOK
<1>2. /\ db' \in DB /\ db'.recorded = db.recorded
      /\ \A k \in Jobs : k # j => db'.row[k] = db.row[k]
  BY <1>1 DEF DB
<1>3. TypeOK' BY <1>2 DEF Inv, TypeOK
<1>4. RowOfTask' BY <1>2 DEF Inv, RowOfTask, NoTask
<1>5. Recognised' /\ RecordedExist' BY <1>2 DEF Inv, Recognised, RecordedExist, Holds
<1>6. PassSpares' BY <1>2 DEF Inv, PassSpares, Holds, Covered
<1>7. WriterKeepsItsFolder'
  BY <1>2 DEF Inv, WriterKeepsItsFolder, Holds, Covered, HasItsFolder
<1> QED BY <1>3, <1>4, <1>5, <1>6, <1>7 DEF Inv

\* After a restart there is no writer left to protect.
LEMMA RestartKeeps ==
  ASSUME Inv, Restart
  PROVE  Inv'
<1> USE DEF Restart
<1>1. db \in DB BY DEF Inv, TypeOK
<1>2. db' \in DB /\ db'.recorded = db.recorded BY <1>1 DEF DB
<1>3. NoTask \in Task BY DEF NoTask, Task, Places
<1>4. /\ task' \in [Jobs -> Task]
      /\ \A k \in Jobs : task'[k] = NoTask
  BY <1>3
<1>5. filer' \in Filer
  <2>1. filer \in Filer BY DEF Inv, TypeOK
  <2>2. NoPass \in Filer BY DEF Filer, NoPass
  <2> QED BY <2>1, <2>2
<1>6. TypeOK' BY <1>2, <1>4, <1>5 DEF Inv, TypeOK, Writer
<1>7. \A k \in Jobs : task'[k].at = "none" /\ ~Holds(k)' BY <1>4 DEF NoTask, Holds
<1>8. RowOfTask' BY <1>4, <1>7 DEF RowOfTask
<1>9. Recognised' BY <1>7 DEF Recognised
<1>10. RecordedExist' BY <1>2, <1>7 DEF Inv, RecordedExist
<1>11. PassSpares'
  <2>1. filer'.runs => filer' = filer BY DEF NoPass
  <2> QED BY <1>7, <2>1 DEF Inv, PassSpares
<1>12. WriterKeepsItsFolder' BY <1>7 DEF Inv, WriterKeepsItsFolder
<1> QED BY <1>6, <1>8, <1>9, <1>10, <1>11, <1>12 DEF Inv

-----------------------------------------------------------------------------

LEMMA InitInv == Init => Inv
<1> SUFFICES ASSUME Init PROVE Inv OBVIOUS
<1> USE DEF Init
<1>1. db \in DB /\ db.row = [j \in Jobs |-> "none"] /\ db.recorded = [j \in Jobs |-> {}]
  BY DEF DB
<1>2. TypeOK BY <1>1, PacketFilingAssumption DEF TypeOK, Task, NoTask, Writer, Filer, NoPass, Places
<1>3. RowOfTask /\ Recognised /\ RecordedExist BY <1>1 DEF RowOfTask, Recognised, RecordedExist, Holds, NoTask
<1>4. PassSpares /\ WriterKeepsItsFolder
  BY DEF PassSpares, WriterKeepsItsFolder, Holds, NoTask, NoPass
<1> QED BY <1>2, <1>3, <1>4 DEF Inv

LEMMA NextKeepsInv ==
  ASSUME Inv, [Next]_vars
  PROVE  Inv'
<1>1. CASE UNCHANGED vars
  BY <1>1 DEF vars, Inv, TypeOK, RowOfTask, Recognised, RecordedExist, PassSpares,
              WriterKeepsItsFolder, Holds, Covered, HasItsFolder
<1>2. ASSUME NEW j \in Jobs, Work(j) PROVE Inv'
  BY <1>2, BuildClaimsKeeps, BuildChoosesKeeps, BuildHoldsKeeps, RefineClaimsKeeps,
     RefineLocatesKeeps DEF Work
<1>3. ASSUME NEW j \in Jobs, WorkEnds(j) PROVE Inv'
  BY <1>3, BuildHeldKeeps, BuildRecordsKeeps, BuildDoneKeeps, RefineDoneKeeps DEF WorkEnds
<1>4. ASSUME NEW j \in Jobs, WriterLocates(j) \/ StageMoves(j) PROVE Inv'
  BY <1>4, WriterLocatesKeeps, StageMovesKeeps
<1>5. ASSUME NEW j \in Jobs, Stops(j) \/ LeaseLapses(j) PROVE Inv'
  BY <1>5, StopsKeeps, LeaseLapsesKeeps
<1>6. CASE Restart \/ WriterWrites \/ Midnight \/ DailyPass \/ Pass
  BY <1>6, RestartKeeps, WriterWritesKeeps, MidnightKeeps, DailyPassKeeps, FilerMovesKeeps,
     FilerEndsKeeps
     DEF Pass
<1> QED BY <1>1, <1>2, <1>3, <1>4, <1>5, <1>6 DEF Next

LEMMA FilingInvariant == Spec => []Inv
<1>1. Inv /\ [Next]_vars => Inv' BY NextKeepsInv
<1> QED BY InitInv, <1>1, PTL DEF Spec

-----------------------------------------------------------------------------

\* The folders, rows, tasks and moves are always well-formed (packet_filing.py and the
\* build_runs rows it reads).
THEOREM FilingTypes == Spec => []TypeOK
<1>1. Inv => TypeOK BY DEF Inv
<1> QED BY FilingInvariant, <1>1, PTL

\* core/filing_lock.py: no pass renames a folder between a short writer's locate and its
\* write, nor under a refine, nor under a build that is still on the day of its folder or
\* builds an entry recorded for its job, however long the day, the passes and the builds.
THEOREM NoFolderMovesUnderItsWriter == Spec => []WriterKeepsItsFolder
<1>1. Inv => WriterKeepsItsFolder BY DEF Inv
<1> QED BY FilingInvariant, <1>1, PTL

\* core/paths.py (application_dir): only the hold of a build past midnight splits an entry
\* over the root and a bucket; the other writers of folders add to one that is there.
THEOREM OnlyALateHoldSplitsAnEntry == Spec => OnlyALateHoldSplits
<1> DEFINE Late(e) == \E j \in Jobs : task[j].at = "holding" /\ task[j].entry = e /\ ~Covered(j)
           OnlyLate == \A e \in Entries : InTwo(e)' /\ ~InTwo(e) => Late(e)
<1>1. Inv /\ [Next]_vars => [OnlyLate]_vars
  <2> SUFFICES ASSUME Inv, Next, NEW e \in Entries, InTwo(e)', ~InTwo(e) PROVE Late(e)
    OBVIOUS
  <2>1. where \in [Entries -> SUBSET Places] BY DEF Inv, TypeOK
  <2>2. where'[e] # where[e] BY DEF InTwo
  <2>3. ASSUME NEW j \in Jobs, BuildChooses(j) PROVE Late(e)
    <3> DEFINE a == ApplicationDir
    <3>1. a \in Entries /\ Usable(a) BY <2>3, ApplicationDirUsable DEF BuildChooses, Inv
    <3>2. where' = [where EXCEPT ![a] = @ \cup {"root"}] BY <2>3 DEF BuildChooses
    <3> HIDE DEF a
    <3>3. e = a BY <2>1, <2>2, <3>1, <3>2
    <3>4. where'[e] = where[e] \/ where'[e] = {"root"} BY <2>1, <3>1, <3>2, <3>3 DEF Usable
    <3> QED BY <2>2, <3>4 DEF InTwo
  <2>4. ASSUME NEW j \in Jobs, BuildHeld(j) PROVE Late(e)
    <3>1. where' = [where EXCEPT ![task[j].entry] = @ \cup {task[j].place}] /\ task[j].at = "holding"
      BY <2>4 DEF BuildHeld
    <3>2. e = task[j].entry /\ task[j].place \notin where[e] BY <2>1, <2>2, <3>1
    <3>3. NoEntry \notin Entries BY PacketFilingAssumption DEF Entries, NoEntry
    <3>4. Holds(j) BY <3>1, <3>2, <3>3 DEF Holds
    <3>5. ~Covered(j) BY <3>2, <3>4 DEF Inv, WriterKeepsItsFolder, HasItsFolder
    <3> QED BY <3>1, <3>2, <3>5
  <2>5. CASE FilerMoves
    <3>1. PICK m \in filer.plan :
            where' = IF m.src \in where[m.entry] /\ m.dst \notin where[m.entry]
                     THEN [where EXCEPT ![m.entry] = (@ \ {m.src}) \cup {m.dst}] ELSE where
      BY <2>5 DEF FilerMoves
    <3>2. m.entry = e /\ m.src \in where[e] /\ where'[e] = (where[e] \ {m.src}) \cup {m.dst}
      BY <2>1, <2>2, <3>1
    <3>3. where[e] = {m.src} BY <3>2 DEF InTwo
    <3>4. where'[e] = {m.dst} BY <3>2, <3>3
    <3> QED BY <3>4 DEF InTwo
  <2>6. ASSUME NEW j \in Jobs, (Work(j) /\ ~BuildChooses(j)) \/ (WorkEnds(j) /\ ~BuildHeld(j))
                              \/ WriterLocates(j) \/ StageMoves(j) \/ Stops(j) \/ LeaseLapses(j)
        PROVE  FALSE
    BY <2>2, <2>6 DEF Work, WorkEnds, BuildClaims, BuildHolds, RefineClaims, RefineLocates, Claim,
       BuildRecords, BuildDone, RefineDone, WriterLocates, StageMoves, Stops, LeaseLapses
  <2>7. CASE Restart \/ WriterWrites \/ Midnight \/ DailyPass \/ FilerEnds
    BY <2>2, <2>7 DEF Restart, WriterWrites, Midnight, DailyPass, FilerEnds
  <2> QED BY <2>3, <2>4, <2>5, <2>6, <2>7 DEF Next, Pass
<1> QED BY FilingInvariant, <1>1, PTL DEF Spec, OnlyALateHoldSplits

-----------------------------------------------------------------------------
(* The rows the filer goes by are claims *)

HasRow(j) == IF db.row[j] = "leased" THEN {j} ELSE {}
HasTask(j) == IF task[j] # NoTask THEN {j} ELSE {}

\* A step that gives and takes no row or task, whatever else it does.
LEMMA ClaimsStutter ==
  ASSUME \A j \in Jobs : db'.row[j] = db.row[j] /\ (task'[j] = NoTask <=> task[j] = NoTask)
  PROVE  UNCHANGED Claims!cvars
<1>1. [j \in Jobs |-> HasRow(j)]' = [j \in Jobs |-> HasRow(j)] BY DEF HasRow
<1>2. [j \in Jobs |-> HasTask(j)]' = [j \in Jobs |-> HasTask(j)] BY DEF HasTask
<1> QED BY <1>1, <1>2 DEF Claims!cvars, HasRow, HasTask

\* A step that gives or takes those of one job.
LEMMA OneJobOnly ==
  ASSUME NEW j \in Jobs, NEW L, NEW W, HasRow(j)' = L, HasTask(j)' = W,
         \A k \in Jobs : k # j => db'.row[k] = db.row[k] /\ task'[k] = task[k]
  PROVE  /\ [k \in Jobs |-> HasRow(k)]' = [[k \in Jobs |-> HasRow(k)] EXCEPT ![j] = L]
         /\ [k \in Jobs |-> HasTask(k)]' = [[k \in Jobs |-> HasTask(k)] EXCEPT ![j] = W]
BY DEF HasRow, HasTask

LEMMA TaskTakes ==
  ASSUME Inv, NEW j \in Jobs, NEW t \in Task, Claim(j, t), t.at = "claimed"
  PROVE  Claims!Takes(j, j)
<1>1. db \in DB /\ task \in [Jobs -> Task] BY DEF Inv, TypeOK
<1>2. /\ db'.row[j] = "leased" /\ task'[j] # NoTask /\ db.row[j] = "none"
      /\ \A k \in Jobs : k # j => db'.row[k] = db.row[k] /\ task'[k] = task[k]
  BY <1>1 DEF Claim, DB, NoTask
<1>3. HasRow(j) = {} /\ HasRow(j)' = {j} /\ HasTask(j)' = {j} BY <1>2 DEF HasRow, HasTask
<1>4. /\ [k \in Jobs |-> HasRow(k)]' = [[k \in Jobs |-> HasRow(k)] EXCEPT ![j] = {j}]
      /\ [k \in Jobs |-> HasTask(k)]' = [[k \in Jobs |-> HasTask(k)] EXCEPT ![j] = {j}]
  BY <1>2, <1>3, OneJobOnly
<1> QED BY <1>3, <1>4 DEF Claims!Takes, HasRow, HasTask

\* A task ends with its row, or leaves it behind.
LEMMA TaskLeaves ==
  ASSUME Inv, NEW j \in Jobs, task[j].at # "none", task' = [task EXCEPT ![j] = NoTask],
         \A k \in Jobs : k # j => db'.row[k] = db.row[k],
         db'.row[j] \in {"none", db.row[j]}
  PROVE  Claims!GivesBack(j) \/ Claims!Abandons(j)
<1>1. task[j] # NoTask /\ task'[j] = NoTask /\ \A k \in Jobs : k # j => task'[k] = task[k]
  BY DEF Inv, TypeOK, NoTask
<1>2. HasTask(j) # {} /\ HasTask(j)' = {} BY <1>1 DEF HasTask
<1>3. CASE db'.row[j] = "none"
  <2>1. HasRow(j)' = {} BY <1>3 DEF HasRow
  <2>2. /\ [k \in Jobs |-> HasRow(k)]' = [[k \in Jobs |-> HasRow(k)] EXCEPT ![j] = {}]
        /\ [k \in Jobs |-> HasTask(k)]' = [[k \in Jobs |-> HasTask(k)] EXCEPT ![j] = {}]
    BY <1>1, <1>2, <2>1, OneJobOnly
  <2> QED BY <1>2, <2>2 DEF Claims!GivesBack, HasRow, HasTask
<1>4. CASE db'.row[j] = db.row[j]
  <2>1. [k \in Jobs |-> HasRow(k)]' = [k \in Jobs |-> HasRow(k)] BY <1>4 DEF HasRow
  <2>2. [k \in Jobs |-> HasTask(k)]' = [[k \in Jobs |-> HasTask(k)] EXCEPT ![j] = {}]
    BY <1>1, <1>2, OneJobOnly
  <2> QED BY <1>2, <2>1, <2>2 DEF Claims!Abandons, HasRow, HasTask
<1> QED BY <1>3, <1>4

LEMMA RowLapses ==
  ASSUME Inv, NEW j \in Jobs, LeaseLapses(j)
  PROVE  Claims!Lapses(j)
<1>1. db \in DB BY DEF Inv, TypeOK
<1>2. /\ db.row[j] = "leased" /\ db'.row[j] = "none" /\ task[j] = NoTask /\ task' = task
      /\ \A k \in Jobs : k # j => db'.row[k] = db.row[k]
  BY <1>1 DEF LeaseLapses, DB
<1>3. HasRow(j) # {} /\ HasTask(j) = {} /\ HasRow(j)' = {} BY <1>2 DEF HasRow, HasTask
<1>4. [k \in Jobs |-> HasRow(k)]' = [[k \in Jobs |-> HasRow(k)] EXCEPT ![j] = {}]
  BY <1>2, <1>3, OneJobOnly
<1>5. [k \in Jobs |-> HasTask(k)]' = [k \in Jobs |-> HasTask(k)] BY <1>2 DEF HasTask
<1> QED BY <1>3, <1>4, <1>5 DEF Claims!Lapses, HasRow, HasTask

LEMMA AllLost ==
  ASSUME Inv, Restart
  PROVE  Claims!AllDie
<1>1. db \in DB BY DEF Inv, TypeOK
<1>2. \A k \in Jobs : db'.row[k] = "none" /\ task'[k] = NoTask BY <1>1 DEF Restart, DB
<1> QED BY <1>2 DEF Claims!AllDie, Claims!Nobody

\* The builds and refines that the filer sees take, leave and give back their rows as
\* PacketClaim has it, so what is proved of the filer holds beside any claims that keep that
\* promise: those of BuildClaims do (db/client.py, as core/packet_filing.py reads it).
THEOREM FilingImplementsPacketClaim == Spec => ImplementsPacketClaim
<1>1. Init => Claims!CInit
  <2> SUFFICES ASSUME Init PROVE Claims!CInit OBVIOUS
  <2>1. db.row = [j \in Jobs |-> "none"] /\ \A j \in Jobs : task[j] = NoTask BY DEF Init
  <2> QED BY <2>1 DEF Claims!CInit, Claims!Nobody
<1>2. Inv /\ [Next]_vars => [Claims!CNext]_(Claims!cvars)
  <2> SUFFICES ASSUME Inv, [Next]_vars, ~UNCHANGED Claims!cvars PROVE Claims!CNext OBVIOUS
  <2> USE DEF Claims!CNext
  <2>1. db \in DB /\ task \in [Jobs -> Task] BY DEF Inv, TypeOK
  <2>2. CASE UNCHANGED <<db, task>> BY <2>2, ClaimsStutter
  <2>3. ASSUME NEW j \in Jobs, BuildClaims(j) \/ RefineClaims(j) PROVE Claims!CNext
    <3>1. \E t \in Task : t.at = "claimed" /\ Claim(j, t)
      <4>1. CASE BuildClaims(j)
        <5>1. [NoTask EXCEPT !.at = "claimed"] \in Task
              /\ [NoTask EXCEPT !.at = "claimed"].at = "claimed"
          BY DEF NoTask, Task, Places
        <5> QED BY <4>1, <5>1 DEF BuildClaims
      <4>2. CASE RefineClaims(j)
        <5>1. PICK e \in db.recorded[j] :
                Claim(j, [at |-> "claimed", kind |-> "refine", entry |-> e, place |-> "root"])
          BY <4>2 DEF RefineClaims
        <5>2. e \in Entries BY <2>1 DEF DB
        <5>3. [at |-> "claimed", kind |-> "refine", entry |-> e, place |-> "root"] \in Task
          BY <5>2 DEF Task, Places
        <5> QED BY <5>1, <5>3
      <4> QED BY <2>3, <4>1, <4>2
    <3> QED BY <3>1, TaskTakes
  <2>4. ASSUME NEW j \in Jobs, \/ BuildChooses(j) \/ BuildHolds(j) \/ BuildHeld(j)
                              \/ RefineLocates(j) \/ BuildRecords(j)
        PROVE  Claims!CNext
    <3>1. task[j].at # "none" /\ task'[j].at # "none" /\ db' = db
          /\ \A k \in Jobs : k # j => task'[k] = task[k]
      BY <2>1, <2>4 DEF BuildChooses, BuildHolds, BuildHeld, RefineLocates, BuildRecords, Task
    <3> QED BY <3>1, ClaimsStutter DEF NoTask
  <2>5. ASSUME NEW j \in Jobs, BuildDone(j) \/ RefineDone(j) PROVE Claims!CNext
    <3>1. task[j].at # "none" /\ task' = [task EXCEPT ![j] = NoTask]
      BY <2>5 DEF BuildDone, RefineDone
    <3>2. db'.row = [db.row EXCEPT ![j] = "none"] BY <2>1, <2>5 DEF BuildDone, RefineDone, DB
    <3>3. db'.row[j] = "none" /\ \A k \in Jobs : k # j => db'.row[k] = db.row[k]
      BY <2>1, <3>2 DEF DB
    <3> QED BY <3>1, <3>3, TaskLeaves
  <2>6. ASSUME NEW j \in Jobs, Stops(j) PROVE Claims!CNext
    <3>1. task[j].at # "none" /\ task' = [task EXCEPT ![j] = NoTask] BY <2>6 DEF Stops
    <3>2. db'.row[j] \in {"none", db.row[j]} /\ \A k \in Jobs : k # j => db'.row[k] = db.row[k]
      BY <2>1, <2>6 DEF Stops, DB
    <3> QED BY <3>1, <3>2, TaskLeaves
  <2>7. ASSUME NEW j \in Jobs, LeaseLapses(j) PROVE Claims!CNext BY <2>7, RowLapses
  <2>8. CASE Restart BY <2>8, AllLost
  <2>9. ASSUME NEW j \in Jobs, StageMoves(j) PROVE Claims!CNext
    <3>1. db'.row = db.row /\ task' = task BY <2>1, <2>9 DEF StageMoves, DB
    <3> QED BY <3>1, ClaimsStutter
  <2>10. CASE \/ \E j \in Jobs : WriterLocates(j)
              \/ WriterWrites \/ Midnight \/ DailyPass \/ Pass \/ UNCHANGED vars
    BY <2>2, <2>10 DEF WriterLocates, WriterWrites, Midnight, DailyPass, Pass, FilerMoves,
                       FilerEnds, vars
  <2> QED BY <2>3, <2>4, <2>5, <2>6, <2>7, <2>8, <2>9, <2>10 DEF Next, Work, WorkEnds
<1> QED BY <1>1, <1>2, FilingInvariant, PTL DEF Spec, ImplementsPacketClaim, Claims!CSpec
=============================================================================
