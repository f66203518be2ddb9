----------------------------- MODULE CallLedger -----------------------------
(***************************************************************************)
(* The model-call ledger and its daily budget: llm/ledger.py, and the      *)
(* reserve / finish hooks of llm/gateway.py that every model call runs.    *)
(*                                                                         *)
(* Several processes (the cockpit, the daily run, a hand-run command)      *)
(* share one `model_calls` table.  A call reads the local day, then waits  *)
(* for SQLite's write lock, then counts and inserts in one transaction; it *)
(* is closed by `finish`, or by another process's reconcile once its owner *)
(* is gone.  Tokens, cost and the kind of closed outcome are not modelled: *)
(* no property here tells them apart.                                      *)
(***************************************************************************)
EXTENDS Naturals, FiniteSets

CONSTANTS
  Procs,        \* processes that install the ledger, each restarted when it dies
  Calls,        \* model calls that may be in progress at once
  Rows,         \* ids of `model_calls` rows (bounds the table)
  Pids,         \* operating-system process ids
  Origins,      \* call origins: scheduled, clicked
  Callers,      \* caller names (a run, a daily step)
  Cap,          \* limits.*_calls_per_day, per origin
  PsReadable,   \* TRUE: `ps` always gives a start time; FALSE: it may give ""
  MaxDay,       \* bound: local days 0 .. MaxDay
  MaxBoots,     \* bound: processes the machine starts (also their start times)
  MaxLost       \* bound: ledger writes (finish, reconcile) the database fails

ASSUME LedgerAssumption ==
  /\ IsFiniteSet(Rows)
  /\ Cap \in [Origins -> Nat \ {0}]
  /\ PsReadable \in BOOLEAN
  /\ MaxDay \in Nat
  /\ MaxBoots \in Nat
  /\ MaxLost \in Nat

VARIABLES
  today,   \* the local date
  boots,   \* processes started so far: the next start time is boots + 1
  os,      \* os[pid]: start time of the process that holds pid, 0 when free
  proc,    \* what each of our processes knows of itself
  call,    \* control state of each call
  row,     \* the model_calls table
  lost     \* ledger writes that have failed so far

vars == <<today, boots, os, proc, call, row, lost>>

-----------------------------------------------------------------------------
(* Values *)

Day == 0 .. MaxDay
Stamp == 0 .. MaxBoots          \* a start time; 0 is the empty text
Owner == [pid : Pids, start : Stamp]

Idle == [pc |-> "idle"]
Down == [up |-> "down"]
Free == [st |-> "free"]

CallState ==
  {Idle}
    \cup [pc : {"asked", "orphaned"}, proc : Procs, origin : Origins,
          caller : Callers, day : Day]
    \cup [pc : {"live", "closing"}, proc : Procs, row : Rows]

ProcState ==
  {Down}
    \cup [up : {"boot", "ready"}, id : Owner]
    \cup [up : {"reconciling"}, id : Owner, owners : SUBSET [id : Owner, since : Day]]

\* `asked` is history: the day whose rows were counted when the row went in.
RowState ==
  {Free} \cup [st : {"started", "refused", "closed", "abandoned"}, day : Day,
               asked : Day, origin : Origins, caller : Callers, owner : Owner]

TypeOK ==
  /\ today \in Day
  /\ boots \in Stamp
  /\ os \in [Pids -> Stamp]
  /\ proc \in [Procs -> ProcState]
  /\ call \in [Calls -> CallState]
  /\ row \in [Rows -> RowState]
  /\ lost \in 0 .. MaxLost

Init ==
  /\ today = 0
  /\ boots = 0
  /\ os = [pid \in Pids |-> 0]
  /\ proc = [p \in Procs |-> Down]
  /\ call = [c \in Calls |-> Idle]
  /\ row = [r \in Rows |-> Free]
  /\ lost = 0

-----------------------------------------------------------------------------
(* Processes come and go.  A pid is reused: by us or by a stranger. *)

Alive(p) == proc[p].up # "down"
Of(c, p) == call[c].pc # "idle" /\ call[c].proc = p
FreePids == {pid \in Pids : os[pid] = 0}

\* A process starts: own_start_time() is the OS start time, or "" when `ps`
\* cannot be read (and stays "": the result is cached).
Boot(p) ==
  /\ ~Alive(p)
  /\ boots < MaxBoots
  /\ boots' = boots + 1
  /\ \E pid \in FreePids, known \in BOOLEAN :
       /\ PsReadable => known
       /\ os' = [os EXCEPT ![pid] = boots + 1]
       /\ proc' = [proc EXCEPT ![p] =
             [up |-> "boot",
              id |-> [pid |-> pid, start |-> IF known THEN boots + 1 ELSE 0]]]
  /\ UNCHANGED <<today, call, row, lost>>

\* An unrelated program takes a pid.
StrangerStarts ==
  /\ boots < MaxBoots
  /\ boots' = boots + 1
  /\ \E pid \in FreePids : os' = [os EXCEPT ![pid] = boots + 1]
  /\ UNCHANGED <<today, proc, call, row, lost>>

\* A process exits or is killed, its calls with it; its rows stay as they are.
Exit(p) ==
  /\ Alive(p)
  /\ boots < MaxBoots
  /\ os' = [os EXCEPT ![proc[p].id.pid] = 0]
  /\ proc' = [proc EXCEPT ![p] = Down]
  /\ call' = [c \in Calls |-> IF Of(c, p) THEN Idle ELSE call[c]]
  /\ UNCHANGED <<today, boots, row, lost>>

\* Midnight.  A call is bounded by minutes, so none spans two midnights.
NewDay ==
  /\ today < MaxDay
  /\ \A c \in Calls :
       /\ call[c].pc \in {"asked", "orphaned"} => call[c].day = today
       /\ call[c].pc \in {"live", "closing"} => row[call[c].row].day = today
  /\ today' = today + 1
  /\ UNCHANGED <<boots, os, proc, call, row, lost>>

-----------------------------------------------------------------------------
(* reconcile_abandoned: at cockpit startup and at a process's first reserve *)

OwnersOf(started) ==
  {[id |-> row[r].owner,
    since |-> CHOOSE d \in Day :
                /\ \E s \in started : row[s].owner = row[r].owner /\ row[s].day = d
                /\ \A s \in started : row[s].owner = row[r].owner => d <= row[s].day]
     : r \in started}

\* A process with these owners left to look at; with none it is reconciled.
Reconciling(id, owners) ==
  IF owners = {} THEN [up |-> "ready", id |-> id]
  ELSE [up |-> "reconciling", id |-> id, owners |-> owners]

\* SELECT owner_pid, owner_started, MIN(started_at) ... GROUP BY owner
ReconcileBegins(p) ==
  /\ proc[p].up = "boot"
  /\ proc' = [proc EXCEPT ![p] =
       Reconciling(@.id, OwnersOf({r \in Rows : row[r].st = "started"}))]
  /\ UNCHANGED <<today, boots, os, call, row, lost>>

\* Mutant of SaysDead: a pid alone identifies a process.
SaysDeadByPidAlone(p, id, since) == id.pid # proc[p].id.pid /\ os[id.pid] = 0

\* owner_alive(pid, started, since), asked by p: may it answer False?
SaysDead(p, id, since) ==
  LET own == proc[p].id IN
  \/ /\ id.pid = own.pid
     /\ id.start # 0 /\ own.start # 0 /\ id.start # own.start
  \/ /\ id.pid # own.pid
     /\ \/ os[id.pid] = 0
        \/ id.start = 0 /\ since + 1 < today       \* more than a day old
        \/ id.start # 0 /\ os[id.pid] # id.start

\* ... and may it answer True?  `ps` may fail for the pid it looks at.
SaysAlive(p, id, since) ==
  \/ ~SaysDead(p, id, since)
  \/ /\ ~PsReadable
     /\ id.pid # proc[p].id.pid
     /\ id.start # 0 /\ os[id.pid] # 0

\* Mutant of ReconcileOwner: the UPDATE names the owner's pid and not its start.
ReconcileOwnerByPid(p) ==
  /\ proc[p].up = "reconciling"
  /\ \E o \in proc[p].owners :
       /\ proc' = [proc EXCEPT ![p] = Reconciling(@.id, @.owners \ {o})]
       /\ IF SaysDead(p, o.id, o.since)
          THEN row' = [r \in Rows |->
                         IF row[r].st = "started" /\ row[r].owner.pid = o.id.pid
                         THEN [row[r] EXCEPT !.st = "abandoned"]
                         ELSE row[r]]
          ELSE UNCHANGED row
  /\ UNCHANGED <<today, boots, os, call, lost>>

\* One turn of the loop over owners: every started row of a dead owner changes.
ReconcileOwner(p) ==
  /\ proc[p].up = "reconciling"
  /\ \E o \in proc[p].owners :
       /\ proc' = [proc EXCEPT ![p] = Reconciling(@.id, @.owners \ {o})]
       /\ \/ /\ SaysAlive(p, o.id, o.since)
             /\ UNCHANGED row
          \/ /\ SaysDead(p, o.id, o.since)
             /\ row' = [r \in Rows |->
                          IF row[r].st = "started" /\ row[r].owner = o.id
                          THEN [row[r] EXCEPT !.st = "abandoned"]
                          ELSE row[r]]
  /\ UNCHANGED <<today, boots, os, call, lost>>

\* A database error ends the loop early; the next reserve starts it again.
ReconcileFails(p) ==
  /\ proc[p].up = "reconciling"
  /\ lost < MaxLost
  /\ lost' = lost + 1
  /\ proc' = [proc EXCEPT ![p] = [up |-> "boot", id |-> @.id]]
  /\ UNCHANGED <<today, boots, os, call, row>>

-----------------------------------------------------------------------------
(* A call: reserve, then the provider, then finish *)

\* What counts toward the cap of an origin on a day: every outcome but a refusal.
Chargeable(o, d) ==
  {r \in Rows : /\ row[r].st \notin {"free", "refused"}
                /\ row[r].origin = o
                /\ row[r].day = d}

AlreadyRefused(o, k, d) ==
  \E r \in Rows : /\ row[r].st = "refused"
                  /\ row[r].origin = o /\ row[r].caller = k /\ row[r].day = d

\* reserve, up to BEGIN IMMEDIATE: day_bounds(date.today()) is read first, then
\* the call waits for the write lock.  It goes on after a reconcile that failed,
\* and while another thread of the process is still in one.
ReserveAsks(c, p, o, k) ==
  /\ call[c].pc = "idle"
  /\ Alive(p)
  /\ call' = [call EXCEPT ![c] = [pc |-> "asked", proc |-> p, origin |-> o,
                                  caller |-> k, day |-> today]]
  /\ UNCHANGED <<today, boots, os, proc, row, lost>>

\* The awaiting caller is cancelled; the worker thread goes on (asyncio.shield).
ReserveCancelled(c) ==
  /\ call[c].pc = "asked"
  /\ call' = [call EXCEPT ![c].pc = "orphaned"]
  /\ UNCHANGED <<today, boots, os, proc, row, lost>>

\* The write lock could not be had within the busy timeout: refused, no row.
ReserveFails(c) ==
  /\ call[c].pc \in {"asked", "orphaned"}
  /\ call' = [call EXCEPT ![c] = Idle]
  /\ UNCHANGED <<today, boots, os, proc, row, lost>>

Inserted(c, st) ==
  [st |-> st, day |-> today, asked |-> call[c].day, origin |-> call[c].origin,
   caller |-> call[c].caller, owner |-> proc[call[c].proc].id]

\* Mutant of ReserveAdmits: the cap-th call is still under the cap.
ReserveAdmitsAtCap(c) ==
  /\ call[c].pc \in {"asked", "orphaned"}
  /\ Cardinality(Chargeable(call[c].origin, call[c].day)) <= Cap[call[c].origin]
  /\ \E r \in Rows :
       /\ row[r].st = "free"
       /\ row' = [row EXCEPT ![r] = Inserted(c, "started")]
       /\ call' = [call EXCEPT ![c] =
            [pc |-> IF call[c].pc = "asked" THEN "live" ELSE "closing",
             proc |-> call[c].proc, row |-> r]]
  /\ UNCHANGED <<today, boots, os, proc, lost>>

\* The transaction: count the chosen day's rows, insert `started`, commit.  The
\* row is dated now_iso(), read inside the transaction.
ReserveAdmits(c) ==
  /\ call[c].pc \in {"asked", "orphaned"}
  /\ Cardinality(Chargeable(call[c].origin, call[c].day)) < Cap[call[c].origin]
  /\ \E r \in Rows :
       /\ row[r].st = "free"
       /\ row' = [row EXCEPT ![r] = Inserted(c, "started")]
       /\ call' = [call EXCEPT ![c] =
            [pc |-> IF call[c].pc = "asked" THEN "live" ELSE "closing",
             proc |-> call[c].proc, row |-> r]]
  /\ UNCHANGED <<today, boots, os, proc, lost>>

\* Over the cap: one refusal row per origin, caller and day, then BudgetExceeded.
ReserveRefuses(c) ==
  /\ call[c].pc \in {"asked", "orphaned"}
  /\ Cardinality(Chargeable(call[c].origin, call[c].day)) >= Cap[call[c].origin]
  /\ \/ /\ AlreadyRefused(call[c].origin, call[c].caller, call[c].day)
        /\ UNCHANGED row
     \/ /\ ~AlreadyRefused(call[c].origin, call[c].caller, call[c].day)
        /\ \E r \in Rows :
             /\ row[r].st = "free"
             /\ row' = [row EXCEPT ![r] = Inserted(c, "refused")]
  /\ call' = [call EXCEPT ![c] = Idle]
  /\ UNCHANGED <<today, boots, os, proc, lost>>

\* UPDATE ... WHERE id=? AND outcome='started'
Closed(r) == IF row[r].st = "started" THEN [row[r] EXCEPT !.st = "closed"] ELSE row[r]

\* The call ends (answer, error, timeout, cancel, dropped stream) or the row of a
\* cancelled reservation is closed by the worker's done callback.
Finish(c) ==
  /\ call[c].pc \in {"live", "closing"}
  /\ row' = [row EXCEPT ![call[c].row] = Closed(call[c].row)]
  /\ call' = [call EXCEPT ![c] = Idle]
  /\ UNCHANGED <<today, boots, os, proc, lost>>

\* finish never raises: a write that fails is logged and the row stays started.
FinishLost(c) ==
  /\ call[c].pc \in {"live", "closing"}
  /\ lost < MaxLost
  /\ lost' = lost + 1
  /\ call' = [call EXCEPT ![c] = Idle]
  /\ UNCHANGED <<today, boots, os, proc, row>>

-----------------------------------------------------------------------------

ProcStep(p) ==
  \/ Boot(p) \/ Exit(p)
  \/ ReconcileBegins(p) \/ ReconcileOwner(p) \/ ReconcileFails(p)

CallStep(c) ==
  \/ \E p \in Procs, o \in Origins, k \in Callers : ReserveAsks(c, p, o, k)
  \/ ReserveCancelled(c)
  \/ ReserveFails(c)
  \/ ReserveAdmits(c)
  \/ ReserveRefuses(c)
  \/ Finish(c)
  \/ FinishLost(c)

Next ==
  \/ \E p \in Procs : ProcStep(p)
  \/ \E c \in Calls : CallStep(c)
  \/ StrangerStarts
  \/ NewDay

Spec == Init /\ [][Next]_vars

-----------------------------------------------------------------------------
(* Properties *)

\* The budget (ledger.py:3-8): of the calls admitted on their own day's count, no
\* more than the cap started, whatever processes raced for the last slot.
CapHolds ==
  \A o \in Origins, d \in Day :
    Cardinality({r \in Chargeable(o, d) : row[r].asked = d}) <= Cap[o]

\* A call that may be talking to a provider has a row that still says so: no
\* reconcile of another process takes it from under a live owner (owner_alive,
\* ledger.py:100-122: "abandoning a live call is worse than leaving a dead one").
LiveCallNeverAbandoned ==
  \A c \in Calls : call[c].pc \in {"live", "closing"} => row[call[c].row].st = "started"

\* What a call did is written once: no later finish or reconcile rewrites it.
ClosedIsFinal ==
  [][\A r \in Rows : row[r].st \notin {"free", "started"} => row'[r] = row[r]]_vars

\* The budget is never handed back: an abandoned call still counts, because it
\* may have spent (ledger.py:13-14).
NeverRefunded ==
  [][\A o \in Origins, d \in Day : Chargeable(o, d) \subseteq Chargeable(o, d)']_vars

\* A process that has reconciled has closed what its dead predecessors at its own
\* pid left started (ledger.py:105-112: the same pid, another start time), where both
\* start times could be read.
PredecessorsRowsClosed ==
  \A p \in Procs, r \in Rows :
    /\ proc[p].up = "ready" /\ proc[p].id.start # 0
    /\ row[r].st = "started"
    /\ row[r].owner.pid = proc[p].id.pid /\ row[r].owner.start # 0
    => row[r].owner = proc[p].id
=============================================================================
