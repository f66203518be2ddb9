----------------------------- MODULE RunStream -----------------------------
(***************************************************************************)
(* The event log of one run (web/runtime.py Run.emit) and the consumers    *)
(* of its event stream (Runtime.stream): replay after a broken connection, *)
(* the bounded log, the terminal event, and the way every stream ends.     *)
(*                                                                         *)
(* A consumer is suspended while an event it yielded is sent, and again    *)
(* while it waits; the run goes on meanwhile.                              *)
(***************************************************************************)
EXTENDS Naturals, Sequences, SequencesExt

CONSTANTS
  Consumers,
  Window,     \* MAX_EVENTS_PER_RUN
  MaxEvents,  \* bound: events of the run, the terminal one not counted
  MaxDrops    \* bound: broken connections

ASSUME StreamAssumption == Window \in Nat \ {0} /\ MaxEvents \in Nat /\ MaxDrops \in Nat

VARIABLES
  log,       \* run.events: what the window still holds
  nextId,    \* run._next_id
  task,      \* the run's task
  status,    \* run.status: running, or over
  listed,    \* the run is in the registry
  consumer,  \* the streams
  drops      \* broken connections so far

streamVars == <<log, nextId, task, status, listed, consumer, drops>>

-----------------------------------------------------------------------------

EventIds == 1..(MaxEvents + 2)
Event == [id : EventIds, terminal : BOOLEAN]

\* reading: between its list of pending events and the end of it.  parked: its waiter
\* is registered; woken: the waiter is set.  over: the stream has returned; gone: it
\* answered that the run is no longer available.
Consumer == [pc : {"away", "reading", "parked", "woken", "over", "gone"}, last : 0..(MaxEvents + 2),
             pending : SUBSET Event]

StreamTypeOK ==
  /\ log \in Seq(Event) /\ Len(log) <= Window
  /\ nextId \in 1..(MaxEvents + 3)
  /\ task \in {"new", "working", "over"} /\ status \in {"running", "over"}
  /\ listed \in BOOLEAN
  /\ consumer \in [Consumers -> Consumer]
  /\ drops \in 0..MaxDrops

StreamInit ==
  /\ log = <<>> /\ nextId = 1
  /\ task = "new" /\ status = "running" /\ listed = TRUE
  /\ consumer = [c \in Consumers |-> [pc |-> "away", last |-> 0, pending |-> {}]]
  /\ drops = 0

-----------------------------------------------------------------------------
(* The run *)

Trimmed(events) ==
  IF Len(events) > Window THEN SubSeq(events, Len(events) - Window + 1, Len(events)) ELSE events

Woken == [c \in Consumers |->
            IF consumer[c].pc = "parked" THEN [consumer[c] EXCEPT !.pc = "woken"] ELSE consumer[c]]

\* Run.emit: append, trim, wake every waiter.
Emit(terminal) ==
  /\ log' = Trimmed(Append(log, [id |-> nextId, terminal |-> terminal]))
  /\ nextId' = nextId + 1
  /\ consumer' = Woken

\* The work logs something, its first step included.
WorkEmits ==
  /\ task # "over" /\ nextId <= MaxEvents
  /\ task' = "working"
  /\ Emit(FALSE)
  /\ UNCHANGED <<status, listed, drops>>

\* The driver ends: done, failed or stopped, with the terminal event of that end.
DriverEnds ==
  /\ task = "working"
  /\ task' = "over" /\ status' = "over"
  /\ Emit(TRUE)
  /\ UNCHANGED <<listed, drops>>

\* The done callback of a cancelled task: it speaks only for a task that never began.
TaskDone ==
  /\ task # "working" /\ status = "running"
  /\ task' = "over" /\ status' = "over"
  /\ Emit(TRUE)
  /\ UNCHANGED <<listed, drops>>

\* _prune, some time after the end.  A stream that is open keeps the run itself.
Evict ==
  /\ status = "over" /\ listed
  /\ listed' = FALSE
  /\ UNCHANGED <<log, nextId, task, status, consumer, drops>>

-----------------------------------------------------------------------------
(* A stream *)

\* Mutant of Pending: the events since the consumer's last one by count.
PendingSince(last) == {log[i] : i \in (last + 1)..Len(log)}

Pending(last) == {e \in ToSet(log) : e.id > last}

\* The top of the loop: the list of events after the last one sent.
Reads(c) == [consumer EXCEPT ![c].pc = "reading", ![c].pending = Pending(consumer[c].last)]

\* A page is opened, or reconnects with its Last-Event-ID.
Connect(c) ==
  /\ consumer[c].pc = "away"
  /\ consumer' = IF listed THEN Reads(c) ELSE [consumer EXCEPT ![c].pc = "gone"]
  /\ UNCHANGED <<log, nextId, task, status, listed, drops>>

\* One event is yielded, and sent: the list is in the order of the log, by id.
Sends(c) ==
  /\ consumer[c].pc = "reading"
  /\ \E e \in consumer[c].pending :
       /\ \A f \in consumer[c].pending : e.id <= f.id
       /\ consumer' = [consumer EXCEPT ![c].last = e.id, ![c].pending = @ \ {e}]
  /\ UNCHANGED <<log, nextId, task, status, listed, drops>>

\* Mutant of Finishes: the stream of a run that is over returns with its list.
FinishesWithList(c) ==
  /\ consumer[c].pc = "reading" /\ consumer[c].pending = {}
  /\ status = "over"
  /\ consumer' = [consumer EXCEPT ![c].pc = "over"]
  /\ UNCHANGED <<log, nextId, task, status, listed, drops>>

\* All is sent and the run is over.
Finishes(c) ==
  /\ consumer[c].pc = "reading" /\ consumer[c].pending = {}
  /\ status = "over" /\ Pending(consumer[c].last) = {}
  /\ consumer' = [consumer EXCEPT ![c].pc = "over"]
  /\ UNCHANGED <<log, nextId, task, status, listed, drops>>

\* Otherwise it waits, even for events that came while it was sending.
Parks(c) ==
  /\ consumer[c].pc = "reading" /\ consumer[c].pending = {}
  /\ ~(status = "over" /\ Pending(consumer[c].last) = {})
  /\ consumer' = [consumer EXCEPT ![c].pc = "parked"]
  /\ UNCHANGED <<log, nextId, task, status, listed, drops>>

\* Mutant of Resumes: only an event wakes the consumer.
ResumesWoken(c) ==
  /\ consumer[c].pc = "woken"
  /\ consumer' = Reads(c)
  /\ UNCHANGED <<log, nextId, task, status, listed, drops>>

\* It is woken by an event, or 15 seconds have passed.
Resumes(c) ==
  /\ consumer[c].pc \in {"parked", "woken"}
  /\ consumer' = Reads(c)
  /\ UNCHANGED <<log, nextId, task, status, listed, drops>>

\* The connection breaks: what was not sent is asked for again.
Drop(c) ==
  /\ consumer[c].pc \in {"reading", "parked", "woken"} /\ drops < MaxDrops
  /\ consumer' = [consumer EXCEPT ![c].pc = "away", ![c].pending = {}]
  /\ drops' = drops + 1
  /\ UNCHANGED <<log, nextId, task, status, listed>>

-----------------------------------------------------------------------------

Streams(c) == Sends(c) \/ Finishes(c) \/ Parks(c) \/ Resumes(c)

StreamNext ==
  \/ WorkEmits \/ DriverEnds \/ TaskDone \/ Evict
  \/ \E c \in Consumers : Connect(c) \/ Streams(c) \/ Drop(c)

StreamSpec == StreamInit /\ [][StreamNext]_streamVars

\* The loop runs every ready task, the work ends, and the wait has a timeout.
StreamFairSpec ==
  /\ StreamSpec
  /\ WF_streamVars(DriverEnds) /\ WF_streamVars(TaskDone)
  /\ \A c \in Consumers : WF_streamVars(Streams(c))

-----------------------------------------------------------------------------
(* Properties *)

\* A stream that returns has sent the terminal event: the page learns how the run ended.
EndsWithTheEnd ==
  \A c \in Consumers : consumer[c].pc = "over" =>
    \E e \in ToSet(log) : e.terminal /\ consumer[c].last = e.id

\* "Replay still works -- a consumer that asks for an id older than the window simply gets
\* everything still held": only what was trimmed is skipped, and nothing comes twice.
OnlyTrimmedIsSkipped ==
  [][\A c \in Consumers : consumer'[c].last # consumer[c].last =>
       /\ consumer'[c].last > consumer[c].last
       /\ \A e \in ToSet(log) : ~(consumer[c].last < e.id /\ e.id < consumer'[c].last)]_streamVars

\* No panel sits on "Tailoring..." for ever: every stream ends, or its connection breaks.
EveryStreamEnds ==
  \A c \in Consumers : consumer[c].pc = "reading" ~> consumer[c].pc \in {"over", "away"}
=============================================================================
