---------------------------- MODULE PacketFiling ----------------------------
(***************************************************************************)
(* core/packet_filing.py and core/filing_lock.py: the packet folders of    *)
(* one company, filed by the stages of the jobs they belong to.            *)
(*                                                                         *)
(* An entry is a folder <company>-<day>[-N], whole in one place: the root  *)
(* of the output folder or one of its buckets.  The filer moves an entry   *)
(* with one rename, under the filing lock taken exclusive and without      *)
(* waiting.  Writers take it shared around locate and write, never across  *)
(* a model call: while a build or a refine streams, its running build_runs *)
(* row is what keeps the filer off its folder.                             *)
(***************************************************************************)
EXTENDS Integers, FiniteSets, FiniteSetsExt

CONSTANTS
  Jobs,             \* the jobs of the company
  Statuses,         \* what the stages of a job come to, a subset of the domain of Bucket
  MaxDay,           \* bound: days
  MaxCopy,          \* bound: folders of one day
  MaxWork,          \* bound: builds and refines
  MaxChanges,       \* bound: changes of a job's stage
  MaxWrites         \* bound: follow-ups and prep packs written

VARIABLES
  today,
  where,    \* the places an entry exists in
  db,       \* the rows the filer reads: status of the jobs, entries recorded for a
            \* job, and whether it has a running build_runs row in its lease
  task,     \* the build or refine of a job
  writer,   \* a short writer: a follow-up or a prep pack
  filer,    \* the pass that holds the lock exclusive: whether it runs, and its moves
  spent     \* bound: work, changes and writes so far

vars == <<today, where, db, task, writer, filer, spent>>

-----------------------------------------------------------------------------

Places == {"root", "Submitted", "Closed before applying", "Archive"}
Entries == (0..MaxDay) \X (1..MaxCopy)
NoEntry == <<0, 0>>

Bucket == [undecided |-> "root", shortlist |-> "root", claims |-> "root", sent |-> "Submitted",
           closed |-> "Closed before applying", archived |-> "Archive"]
Kept == {"shortlist", "claims", "sent", "closed"}

\* The first of these an entry belongs to, or exists in.
Visibility == [p \in Places |-> IF p = "root" THEN 1 ELSE IF p = "Submitted" THEN 2
                               ELSE IF p = "Closed before applying" THEN 3 ELSE 4]

ASSUME PacketFilingAssumption ==
  /\ {MaxDay, MaxCopy, MaxWork, MaxChanges, MaxWrites} \subseteq Nat
  /\ Statuses \subseteq DOMAIN Bucket

\* A row counts while it is running and in its lease, its run being dead or alive.
DB == [status : [Jobs -> Statuses], recorded : [Jobs -> SUBSET Entries], row : [Jobs -> {"none", "leased"}]]

\* claimed: its row is running, no folder yet; writing: model calls and files; holding:
\* it has found documents to hold, and makes their quarantine/ next; held: it has;
\* recording: under the shared lock.
Task == [at : {"none", "claimed", "writing", "holding", "held", "recording"}, kind : {"build", "refine"},
         entry : Entries \cup {NoEntry}, place : Places]
NoTask == [at |-> "none", kind |-> "build", entry |-> NoEntry, place |-> "root"]

NoWriter == [entry |-> NoEntry, place |-> "root"]
Writer == [entry : Entries, place : Places] \cup {NoWriter}

Move == [entry : Entries, src : Places, dst : Places]
Filer == [runs : BOOLEAN, plan : SUBSET Move]
NoPass == [runs |-> FALSE, plan |-> {}]

TypeOK ==
  /\ today \in 0..MaxDay
  /\ where \in [Entries -> SUBSET Places]
  /\ db \in DB
  /\ task \in [Jobs -> Task]
  /\ writer \in Writer
  /\ filer \in Filer
  /\ spent \in [work : 0..MaxWork, changes : 0..MaxChanges, writes : 0..MaxWrites]

Init ==
  /\ today = 0
  /\ where = [e \in Entries |-> {}]
  /\ db \in [status : [Jobs -> Statuses], recorded : {[j \in Jobs |-> {}]}, row : {[j \in Jobs |-> "none"]}]
  /\ task = [j \in Jobs |-> NoTask]
  /\ writer = NoWriter /\ filer = NoPass
  /\ spent = [work |-> 0, changes |-> 0, writes |-> 0]

-----------------------------------------------------------------------------
(* The filing lock *)

\* A shared holder only has to wait for a pass.
SharedFree == ~filer.runs
Sharers(t, w) == {j \in Jobs : t[j].at = "recording"} \cup (IF w = NoWriter THEN {} ELSE {"writer"})

ExclusiveFree(t, w) == ~filer.runs /\ Sharers(t, w) = {}

-----------------------------------------------------------------------------
(* Where an entry belongs *)

\* Recorded links; only an entry with none of them falls to the name rule, which links
\* it to every kept job of the company.
Recorded(e, d) == {j \in Jobs : e \in d.recorded[j]}
Linked(e, d) == IF Recorded(e, d) # {} THEN Recorded(e, d) ELSE {j \in Jobs : d.status[j] \in Kept}

\* Mutant of Target: the least visible of the jobs decides.
TargetBuries(e, d) ==
  IF Linked(e, d) = {} THEN "Archive"
  ELSE LET buckets == {Bucket[d.status[j]] : j \in Linked(e, d)}
       IN CHOOSE b \in buckets : \A c \in buckets : Visibility[b] >= Visibility[c]

\* The most visible bucket of its jobs.
Target(e, d) ==
  IF Linked(e, d) = {} THEN "Archive"
  ELSE LET buckets == {Bucket[d.status[j]] : j \in Linked(e, d)}
       IN CHOOSE b \in buckets : \A c \in buckets : Visibility[b] <= Visibility[c]

Running(d) == {j \in Jobs : d.row[j] = "leased"}

\* Mutant of MayBeWritten: only the entries linked to the job that builds.
MayBeWrittenIfLinked(e, d) == Running(d) \cap Linked(e, d) # {}

\* Entries a running build or refine may write: those of its job, and today's.
MayBeWritten(e, d) == Running(d) # {} /\ (Running(d) \cap Linked(e, d) # {} \/ e[1] = today)

\* scope: one job's entries, or every entry.  One that exists twice is a conflict.
Plan(scope, d) ==
  {m \in Move :
     /\ where[m.entry] = {m.src}
     /\ scope = Jobs \/ scope \subseteq Linked(m.entry, d)
     /\ ~MayBeWritten(m.entry, d)
     /\ m.dst = Target(m.entry, d) /\ m.dst # m.src}

-----------------------------------------------------------------------------
(* A filing pass *)

\* A pass over d, when nobody holds the lock; else it is skipped.
PassOr(scope, d, t, w) ==
  filer' = IF ExclusiveFree(t, w) THEN [runs |-> TRUE, plan |-> Plan(scope, d)] ELSE filer

\* The pass of the daily run, or of the command line.
DailyPass ==
  /\ ExclusiveFree(task, writer)
  /\ Plan(Jobs, db) # {}
  /\ PassOr(Jobs, db, task, writer)
  /\ UNCHANGED <<today, where, db, task, writer, spent>>

\* One rename, checked again at the moment it happens.
FilerMoves ==
  /\ filer.runs
  /\ \E m \in filer.plan :
       /\ filer' = [filer EXCEPT !.plan = @ \ {m}]
       /\ where' = IF m.src \in where[m.entry] /\ m.dst \notin where[m.entry]
                   THEN [where EXCEPT ![m.entry] = (@ \ {m.src}) \cup {m.dst}] ELSE where
  /\ UNCHANGED <<today, db, task, writer, spent>>

FilerEnds ==
  /\ filer.runs /\ filer.plan = {}
  /\ filer' = NoPass
  /\ UNCHANGED <<today, where, db, task, writer, spent>>

-----------------------------------------------------------------------------
(* Builds *)

\* The first name of today that is at the root, or in no bucket either.
Usable(e) == "root" \in where[e] \/ where[e] = {}

\* Mutant of ApplicationDir: today's folder, whether or not it has been filed.
ApplicationDirFirst == <<today, 1>>

ApplicationDir ==
  LET free == {n \in 1..MaxCopy : Usable(<<today, n>>)}
  IN IF free = {} THEN NoEntry ELSE <<today, Min(free)>>

\* claim_for_build and claim_for_refine: one running row of a job at a time.
Claim(j, t) ==
  /\ task[j] = NoTask /\ db.row[j] = "none" /\ spent.work < MaxWork
  /\ spent' = [spent EXCEPT !.work = @ + 1]
  /\ db' = [db EXCEPT !.row[j] = "leased"]
  /\ task' = [task EXCEPT ![j] = t]
  /\ UNCHANGED <<today, where, writer, filer>>

BuildClaims(j) == Claim(j, [NoTask EXCEPT !.at = "claimed"])

BuildChooses(j) ==
  /\ task[j].at = "claimed" /\ task[j].kind = "build"
  /\ SharedFree
  /\ ApplicationDir # NoEntry   \* bound: MaxCopy
  /\ where' = [where EXCEPT ![ApplicationDir] = @ \cup {"root"}]
  /\ task' = [task EXCEPT ![j] = [at |-> "writing", kind |-> "build", entry |-> ApplicationDir, place |-> "root"]]
  /\ UNCHANGED <<today, db, writer, filer, spent>>

\* The gate failed a document: it is looked for at the root, and its quarantine/ made
\* with all its parents, so that a folder filed in between exists a second time.
BuildHolds(j) ==
  /\ task[j].at = "writing" /\ task[j].kind = "build"
  /\ task[j].place \in where[task[j].entry]
  /\ task' = [task EXCEPT ![j].at = "holding"]
  /\ UNCHANGED <<today, where, db, writer, filer, spent>>

BuildHeld(j) ==
  /\ task[j].at = "holding"
  /\ where' = [where EXCEPT ![task[j].entry] = @ \cup {task[j].place}]
  /\ task' = [task EXCEPT ![j].at = "held"]
  /\ UNCHANGED <<today, db, writer, filer, spent>>

\* The end of a build, or of one that failed: recorded under the shared lock.
BuildRecords(j) ==
  /\ task[j].at \in {"claimed", "writing", "held"} /\ task[j].kind = "build"
  /\ SharedFree
  /\ task' = [task EXCEPT ![j].at = "recording"]
  /\ UNCHANGED <<today, where, db, writer, filer, spent>>

\* finish_build.  The folder of a build that failed is recorded when a document that had
\* to be held is still public; only of a build that did not fail are the entries filed, by
\* the hook, after the lock is released.
BuildDone(j) ==
  /\ task[j].at = "recording"
  /\ task' = [task EXCEPT ![j] = NoTask]
  /\ \E ok \in BOOLEAN, folder \in SUBSET {task[j].entry} :
       LET d == [db EXCEPT !.row[j] = "none", !.recorded[j] = @ \cup folder]
       IN /\ NoEntry \notin folder /\ (ok => folder # {})
          /\ db' = d
          /\ IF ok THEN PassOr({j}, d, task', writer) ELSE UNCHANGED filer
  /\ UNCHANGED <<today, where, writer, spent>>

-----------------------------------------------------------------------------
(* Refines *)

\* locate: where the entry is now, the root first.
Locate(e) ==
  IF where[e] = {} \/ "root" \in where[e] THEN "root"
  ELSE CHOOSE p \in where[e] : \A q \in where[e] : Visibility[p] <= Visibility[q]

RefineClaims(j) ==
  \E e \in db.recorded[j] : Claim(j, [at |-> "claimed", kind |-> "refine", entry |-> e, place |-> "root"])

RefineLocates(j) ==
  /\ task[j].at = "claimed" /\ task[j].kind = "refine"
  /\ SharedFree
  /\ task' = [task EXCEPT ![j].at = "writing", ![j].place = Locate(task[j].entry)]
  /\ UNCHANGED <<today, where, db, writer, filer, spent>>

\* The claim is released; the hook files the job's entries when the revision succeeded.
RefineDone(j) ==
  /\ task[j].at = "writing" /\ task[j].kind = "refine"
  /\ task' = [task EXCEPT ![j] = NoTask]
  /\ db' = [db EXCEPT !.row[j] = "none"]
  /\ \/ UNCHANGED filer
     \/ PassOr({j}, db', task', writer)
  /\ UNCHANGED <<today, where, writer, spent>>

-----------------------------------------------------------------------------
(* Short writers, stages, the clock *)

\* A follow-up or a prep pack: located and written under the shared lock.
WriterLocates(j) ==
  /\ writer = NoWriter /\ SharedFree /\ spent.writes < MaxWrites
  /\ spent' = [spent EXCEPT !.writes = @ + 1]
  /\ \E e \in db.recorded[j] :
       /\ where[e] # {}
       /\ writer' = [entry |-> e, place |-> Locate(e)]
  /\ UNCHANGED <<today, where, db, task, filer>>

WriterWrites ==
  /\ writer # NoWriter
  /\ writer' = NoWriter
  /\ UNCHANGED <<today, where, db, task, filer, spent>>

\* A stage move is committed, then the hook files the job's entries.
StageMoves(j) ==
  /\ spent.changes < MaxChanges
  /\ spent' = [spent EXCEPT !.changes = @ + 1]
  /\ \E s \in Statuses \ {db.status[j]} : db' = [db EXCEPT !.status[j] = s]
  /\ PassOr({j}, db', task, writer)
  /\ UNCHANGED <<today, where, task, writer>>

\* The day changes, whatever is being written.
Midnight ==
  /\ today < MaxDay
  /\ today' = today + 1
  /\ UNCHANGED <<where, db, task, writer, filer, spent>>

-----------------------------------------------------------------------------
(* Stop, leases and restarts *)

\* Stop cancels the task where it waits.  Its row stays, except that of a revision
\* under way: its finally block gives the claim back.
Stops(j) ==
  /\ task[j].at \in {"claimed", "writing", "held"}
  /\ task' = [task EXCEPT ![j] = NoTask]
  /\ db' = IF task[j].kind = "refine" /\ task[j].at = "writing" THEN [db EXCEPT !.row[j] = "none"] ELSE db
  /\ UNCHANGED <<today, where, writer, filer, spent>>

\* The lease of a stopped run ends.
LeaseLapses(j) ==
  /\ db.row[j] = "leased" /\ task[j] = NoTask
  /\ db' = [db EXCEPT !.row[j] = "none"]
  /\ UNCHANGED <<today, where, task, writer, filer, spent>>

\* The cockpit dies with what it has in hand, and recovers its rows when it is back.
\* A pass or a short writer ends with it, unless it is another process's.
Restart ==
  /\ writer # NoWriter \/ \E j \in Jobs : task[j] # NoTask   \* bound: MaxWork, MaxWrites
  /\ task' = [j \in Jobs |-> NoTask]
  /\ db' = [db EXCEPT !.row = [j \in Jobs |-> "none"]]
  /\ writer' \in {writer, NoWriter}
  /\ filer' \in {filer, NoPass}
  /\ UNCHANGED <<today, where, spent>>

-----------------------------------------------------------------------------

Work(j) == BuildClaims(j) \/ BuildChooses(j) \/ BuildHolds(j) \/ RefineClaims(j) \/ RefineLocates(j)
WorkEnds(j) == BuildHeld(j) \/ BuildRecords(j) \/ BuildDone(j) \/ RefineDone(j)
Pass == FilerMoves \/ FilerEnds

Next ==
  \/ \E j \in Jobs : Work(j) \/ WorkEnds(j) \/ WriterLocates(j) \/ StageMoves(j)
  \/ \E j \in Jobs : Stops(j) \/ LeaseLapses(j)
  \/ Restart \/ WriterWrites \/ Midnight \/ DailyPass \/ Pass

Spec == Init /\ [][Next]_vars

\* A pass and a write under the lock are not waiting for anything; builds end, as their
\* model calls have deadlines; time passes; the daily run files every day.
Fairness ==
  /\ WF_vars(Pass) /\ WF_vars(WriterWrites) /\ SF_vars(DailyPass)
  /\ \A j \in Jobs : WF_vars(WorkEnds(j)) /\ SF_vars(RefineLocates(j)) /\ WF_vars(LeaseLapses(j))

LiveSpec == Spec /\ Fairness

-----------------------------------------------------------------------------
(* Properties *)

\* A task that has its folder, and what the filer can tell it by: the entry is today's, or
\* recorded for the job of the running row.
Holds(j) == task[j].at \in {"writing", "holding", "held", "recording"} /\ task[j].entry # NoEntry
Covered(j) == task[j].entry[1] = today \/ task[j].entry \in db.recorded[j]
HasItsFolder(j) == task[j].place \in where[task[j].entry]

\* core/filing_lock.py:11 says that "a build or refine is covered for its streaming window
\* by its running build_runs row".  A build that is at work at midnight is not: its folder
\* is yesterday's, and not recorded for its job yet.
StreamingIsCovered == \A j \in Jobs : Holds(j) => HasItsFolder(j)

\* core/filing_lock.py: a folder that a short writer has resolved is not renamed before it
\* has written, nor that of a refine, nor that of a build on its day, whatever passes and
\* stages do; of a build that has crossed midnight, only one recorded before is safe.
WriterKeepsItsFolder ==
  /\ \A j \in Jobs : Holds(j) /\ Covered(j) => HasItsFolder(j)
  /\ writer # NoWriter => writer.place \in where[writer.entry]

\* core/paths.py (application_dir): a new packet never lands beside its filed namesake, so
\* no entry comes to exist in two places, but by the hold of a build past midnight that
\* makes a stray folder at the root where its own was.
InTwo(e) == \E p, q \in where[e] : p # q
OnlyALateHoldSplits ==
  [][\A e \in Entries : InTwo(e)' /\ ~InTwo(e)
       => \E j \in Jobs : task[j].at = "holding" /\ task[j].entry = e /\ ~Covered(j)]_vars

\* The rows that the filer goes by are claims as PacketClaim promises them (and as
\* BuildClaims keeps them): a task is known by its job.
Claims ==
  INSTANCE PacketClaim WITH
    Runs <- Jobs,
    leased <- [j \in Jobs |-> IF db.row[j] = "leased" THEN {j} ELSE {}],
    working <- [j \in Jobs |-> IF task[j] # NoTask THEN {j} ELSE {}],
    calm <- TRUE

ImplementsPacketClaim == Claims!CSpec

\* Where the entry of these jobs has to be found, said from the jobs.
RightPlace(e) ==
  LET has(ss) == \E j \in Linked(e, db) : db.status[j] \in ss
  IN CASE has({"undecided", "shortlist", "claims"}) -> "root"
       [] ~has({"undecided", "shortlist", "claims"}) /\ has({"sent"}) -> "Submitted"
       [] ~has({"undecided", "shortlist", "claims", "sent"}) /\ has({"closed"}) -> "Closed before applying"
       [] OTHER -> "Archive"

\* Once the stages stop changing, every entry ends in its place, whatever passes were
\* skipped because a writer held the lock or planned before a change.  One that exists in
\* two places is left to the user.
FiledInTheEnd == <>[](\A e \in Entries : where[e] = {} \/ InTwo(e) \/ where[e] = {RightPlace(e)})
=============================================================================
