------------------------------ MODULE Runtime ------------------------------
(***************************************************************************)
(* web/runtime.py: the registry of the cockpit's background runs.          *)
(*                                                                         *)
(* Single flight by name group and by (name, key), the gate of model       *)
(* slots, Stop, and the eviction of finished runs.  The cockpit is one     *)
(* event loop: what happens between two awaits of a task is one step.      *)
(* The event log of a run is RunStream's.                                  *)
(***************************************************************************)
EXTENDS Integers, Sequences, FiniteSets, SequencesExt

CONSTANTS
  MaxSeq,    \* bound: runs started in the life of the process
  Clicks,    \* what is started: pairs of a run name and a key (a job id, a company key)
  NoKey,     \* the key of a run that is not deduplicated
  Watched,   \* bound: the runs whose event stream is followed
  MaxRuns,   \* MAX_RUNS: the ceiling of the registry
  Sizes,     \* values of limits.cockpit_concurrency
  MaxGates   \* bound: semaphores made in the life of the process

ASSUME RuntimeAssumption ==
  /\ MaxSeq \in Nat /\ MaxRuns \in Nat \ {0} /\ MaxGates \in Nat \ {0}
  /\ Sizes \subseteq Nat \ {0} /\ Sizes # {}
  /\ \A c \in Clicks : c[1] # "scoring"   \* the name of a group, not of a run

VARIABLES
  run,     \* the runs, by sequence number
  seq,     \* the number of the last run
  gate,    \* the semaphores made so far; the last one is the current gate
  limit    \* limits.cockpit_concurrency as the settings say now

vars == <<run, seq, gate, limit>>

-----------------------------------------------------------------------------

SINGLE_FLIGHT == {"discovery", "matching", "ingest"}

FlightGroup(name) == IF name \in {"discovery", "matching"} THEN "scoring" ELSE name

\* `at`: where the task is.  new: created, not begun; waiting: for a slot; working;
\* ended.  A run that waits is shown as queued; stop: its task has been cancelled.
\* A semaphore is its free slots and the runs that wait for one, in order.
\* age: of a finished run, past its retention (old), past the waiter's grace (ancient).
Names == {c[1] : c \in Clicks}
Keys == {c[2] : c \in Clicks}
Run == [name : Names, key : Keys, status : {"running", "done", "failed", "cancelled"},
        at : {"new", "waiting", "working", "ended"}, held : 0..MaxGates, stop : BOOLEAN,
        parked : BOOLEAN, age : {"fresh", "old", "ancient"}]
NoRun == [status |-> "absent", at |-> "none"]
Gate == [size : Sizes, free : Int, line : Seq(1..MaxSeq)]

Ids == 1..MaxSeq

TypeOK ==
  /\ run \in [Ids -> Run \cup {NoRun}]
  /\ seq \in 0..MaxSeq
  /\ gate \in Seq(Gate) /\ Len(gate) <= MaxGates
  /\ limit \in Sizes

Init ==
  /\ run = [r \in Ids |-> NoRun]
  /\ seq = 0
  /\ gate = <<>>
  /\ limit \in Sizes

Listed(r) == run[r] # NoRun
Running(r) == run[r].status = "running"
Alive(r) == run[r].at \in {"new", "waiting", "working"}

-----------------------------------------------------------------------------
(* Starting a run *)

InFlight(r, name) ==
  /\ Running(r) /\ name \in SINGLE_FLIGHT
  /\ FlightGroup(run[r].name) = FlightGroup(name)

\* Mutant of InFlightKeyed: a run that waits for a slot does not count.
InFlightKeyedWorking(r, name, key) ==
  key # NoKey /\ run[r].at = "working" /\ run[r].name = name /\ run[r].key = key

InFlightKeyed(r, name, key) ==
  key # NoKey /\ Running(r) /\ run[r].name = name /\ run[r].key = key

\* A finished run; a parked consumer protects it until its grace is over.
Evictable(r) == ~Running(r) /\ (run[r].parked => run[r].age = "ancient")

\* Runs past their retention, and then the oldest ones above the ceiling.
Kept ==
  LET listed == {r \in Ids : Listed(r)}
      young == {r \in listed : ~(Evictable(r) /\ run[r].age # "fresh")}
      Excess(r) == Cardinality(young) - Cardinality({s \in young : Evictable(s) /\ s < r})
  IN  {r \in young : ~(Evictable(r) /\ Excess(r) > MaxRuns)}

NewRun(name, key) ==
  [name |-> name, key |-> key, status |-> "running", at |-> "new", held |-> 0,
   stop |-> FALSE, parked |-> FALSE, age |-> "fresh"]

\* start_run.  With a run in flight it hands that one back, and nothing changes.
StartRun(name, key) ==
  /\ seq < MaxSeq
  /\ ~ \E r \in Ids : InFlight(r, name) \/ InFlightKeyed(r, name, key)
  /\ seq' = seq + 1
  /\ run' = [r \in Ids |-> IF r = seq + 1 THEN NewRun(name, key)
                           ELSE IF r \in Kept THEN run[r] ELSE NoRun]
  /\ UNCHANGED <<gate, limit>>

-----------------------------------------------------------------------------
(* The gate of model slots *)

\* _semaphore: the current gate, or a new one when the size has been edited.
NeedsGate == gate = <<>> \/ Last(gate).size # limit
WithGate == IF NeedsGate THEN Append(gate, [size |-> limit, free |-> limit, line |-> <<>>]) ELSE gate

Takes(gs, g) == [gs EXCEPT ![g].free = @ - 1]
Gives(gs, g) == [gs EXCEPT ![g].free = @ + 1]
Joins(gs, g, r) == [gs EXCEPT ![g].line = Append(@, r)]
Place(line, r) == CHOOSE i \in DOMAIN line : line[i] = r
Leaves(gs, g, r) == [gs EXCEPT ![g].line = RemoveAt(@, Place(@, r))]

\* The driver's first step: a free slot that nobody waits for, or the end of the line.
Begin(r) ==
  /\ run[r].at = "new" /\ ~run[r].stop
  /\ LET g == Len(WithGate)
         locked == WithGate[g].free = 0 \/ WithGate[g].line # <<>>
     IN  /\ gate' = IF locked THEN Joins(WithGate, g, r) ELSE Takes(WithGate, g)
         /\ run' = [run EXCEPT ![r].at = IF locked THEN "waiting" ELSE "working",
                               ![r].held = g]
  /\ UNCHANGED <<seq, limit>>

\* The first in line takes a slot that was given back.
TakesSlot(r) ==
  /\ run[r].at = "waiting" /\ ~run[r].stop
  /\ LET g == run[r].held
     IN  /\ gate[g].free > 0 /\ Head(gate[g].line) = r
         /\ gate' = Takes(Leaves(gate, g, r), g)
  /\ run' = [run EXCEPT ![r].at = "working"]
  /\ UNCHANGED <<seq, limit>>

-----------------------------------------------------------------------------
(* Ends of a run *)

\* A driver that ends: the status and the time.
Ended(r, status) ==
  [run EXCEPT ![r].status = status, ![r].at = "ended", ![r].held = 0]

\* The work returns, or raises (a held run lock included).  A work that swallows the
\* cancellation returns too: the Stop arrived too late.
WorkEnds(r) ==
  /\ run[r].at = "working"
  /\ \E status \in {"done", "failed"} : run' = Ended(r, status)
  /\ gate' = Gives(gate, run[r].held)
  /\ UNCHANGED <<seq, limit>>

\* Mutant of Cancelled: a run that waits gives back a slot it did not hold.
CancelledGivesSlot(r) ==
  /\ run[r].at \in {"waiting", "working"} /\ run[r].stop
  /\ run' = Ended(r, "cancelled")
  /\ gate' = Gives(IF run[r].at = "waiting" THEN Leaves(gate, run[r].held, r) ELSE gate,
                    run[r].held)
  /\ UNCHANGED <<seq, limit>>

\* Mutant of Cancelled: a run that waits stays in the line.
CancelledKeepsPlace(r) ==
  /\ run[r].at \in {"waiting", "working"} /\ run[r].stop
  /\ run' = Ended(r, "cancelled")
  /\ gate' = IF run[r].at = "waiting" THEN gate ELSE Gives(gate, run[r].held)
  /\ UNCHANGED <<seq, limit>>

\* The cancellation is delivered, and the work has unwound (the model child is reaped).
Cancelled(r) ==
  /\ run[r].at \in {"waiting", "working"} /\ run[r].stop
  /\ run' = Ended(r, "cancelled")
  /\ gate' = IF run[r].at = "waiting" THEN Leaves(gate, run[r].held, r) ELSE Gives(gate, run[r].held)
  /\ UNCHANGED <<seq, limit>>

\* _cancelled_before_it_began: the driver's try block is never entered.
CancelledBeforeItBegan(r) ==
  /\ run[r].at = "new" /\ run[r].stop
  /\ run' = Ended(r, "cancelled")
  /\ UNCHANGED <<seq, gate, limit>>

-----------------------------------------------------------------------------
(* The cockpit's clicks, and time *)

\* The first Stop cancels the task; a second one changes nothing.
Stop(r) ==
  /\ Running(r) /\ ~run[r].stop
  /\ run' = [run EXCEPT ![r].stop = TRUE]
  /\ UNCHANGED <<seq, gate, limit>>

\* A settings edit: the gate itself is only replaced by the next run that asks for it.
EditLimit(n) ==
  /\ n # limit /\ Len(gate) < MaxGates
  /\ limit' = n
  /\ UNCHANGED <<run, seq, gate>>

\* A consumer of the event stream waits for the next event of a run, or is woken.
Park(r) == r \in Watched /\ Running(r) /\ ~run[r].parked /\ run' = [run EXCEPT ![r].parked = TRUE]
           /\ UNCHANGED <<seq, gate, limit>>
Unpark(r) == Listed(r) /\ run[r].parked /\ run' = [run EXCEPT ![r].parked = FALSE]
             /\ UNCHANGED <<seq, gate, limit>>

Ages(r) ==
  /\ Listed(r) /\ ~Running(r) /\ run[r].age # "ancient"
  /\ run' = [run EXCEPT ![r].age = IF @ = "fresh" THEN "old" ELSE "ancient"]
  /\ UNCHANGED <<seq, gate, limit>>

-----------------------------------------------------------------------------

Advances(r) ==
  Begin(r) \/ TakesSlot(r) \/ WorkEnds(r) \/ Cancelled(r) \/ CancelledBeforeItBegan(r)

Next ==
  \/ \E c \in Clicks : StartRun(c[1], c[2])
  \/ \E r \in Ids : Advances(r) \/ Stop(r) \/ Park(r) \/ Unpark(r) \/ Ages(r)
  \/ \E n \in Sizes : EditLimit(n)

Spec == Init /\ [][Next]_vars

\* The event loop runs every task that is ready, and the work ends: each model call has
\* a deadline.
Fairness == \A r \in Ids : WF_vars(Advances(r))

FairSpec == Spec /\ Fairness

-----------------------------------------------------------------------------
(* Properties *)

Working == {r \in Ids : run[r].at = "working"}

\* "Runs that must not overlap": of discovery and matching together, of ingest, and of a
\* keyed name on one subject, one task exists at a time, a stopped one that still unwinds
\* included.
NoOverlap ==
  \A r, s \in Ids :
    /\ Alive(r) /\ Alive(s)
    /\ \/ /\ run[r].name \in SINGLE_FLIGHT
          /\ FlightGroup(run[r].name) = FlightGroup(run[s].name)
       \/ run[r].key # NoKey /\ run[r].key = run[s].key /\ run[r].name = run[s].name
    => r = s

\* "A run cancelled while queued never takes a slot it did not hold", and gives none back:
\* the slots of a gate are free or held by its working runs, and its line is exactly the
\* runs that wait for it.
SlotsConserved ==
  \A g \in DOMAIN gate :
    /\ gate[g].free >= 0
    /\ gate[g].free + Cardinality({r \in Working : run[r].held = g}) = gate[g].size
    /\ ToSet(gate[g].line) = {r \in Ids : run[r].at = "waiting" /\ run[r].held = g}

\* Eviction never takes a run that is still going (Stop could not reach its task), nor a
\* watched one within its grace.
KeepsWhatIsWanted ==
  [][\A r \in Ids :
       Listed(r) /\ run'[r] = NoRun => ~Alive(r) /\ (run[r].parked => run[r].age = "ancient")]_vars

\* Every run gets its slot and ends, whatever is stopped and edited meanwhile.
EveryRunEnds == \A r \in Ids : Running(r) ~> ~Running(r)

=============================================================================
