----------------------------- MODULE Supervise -----------------------------
(***************************************************************************)
(* llm/supervise.py, llm/gateway.py (spawn_cli, reap) and                  *)
(* llm/providers.py (_run_cli): one model call on the claude CLI.          *)
(*                                                                         *)
(* The owner (the cockpit, the daily run) starts a supervisor, the         *)
(* supervisor starts the CLI in a process group of its own, relays what it *)
(* prints, and stops the whole group when the owner's end of a pipe        *)
(* closes, when it gets SIGTERM or when its deadline passes.  Owner,       *)
(* supervisor, relay thread and group run concurrently, and each may end   *)
(* at any moment.                                                          *)
(*                                                                         *)
(* Time is not counted: a wait of two or ten seconds that may run out is a *)
(* step of its own, and the supervisor's deadline passes when it likes.    *)
(***************************************************************************)
EXTENDS Integers, FiniteSets

CONSTANTS
  CliCalls,      \* model calls of one owner
  MaxOut,     \* bound: chunks a CLI prints
  PipeSize,   \* chunks a pipe holds
  MaxFaults   \* bound: supervisors stalled or killed from outside, kills that fail

None == "none"
NoCode == -1

ASSUME SuperviseAssumption ==
  /\ MaxOut \in Nat
  /\ PipeSize \in Nat \ {0}
  /\ MaxFaults \in Nat

VARIABLES
  alive,    \* the owner process runs
  cli,      \* the owner's side: where _run_cli is, what it has read, how it ended
  pipe,     \* who holds the write end of the parent-death pipe
  sup,      \* the supervisor: where main is, its flags, its exit code
  group,    \* the CLI's process group: who is in it, what was printed, the leader's code
  relay,    \* the thread _pump_out: chunks relayed, and whether it still runs
  overdue,  \* the supervisor's deadline has passed
  faults

superviseVars == <<alive, cli, pipe, sup, group, relay, overdue, faults>>

Members == {"leader", "kin"}
InCall == {"sending", "reading", "waiting"}
Outcomes == {"ok", "error", "timeout", "cancelled", "left"}
Running == {"starting", "ready", "watching", "terming", "killing", "draining", "joining"}

EXIT_DEADLINE == 124
EXIT_OWNER_GONE == 143
EXIT_CANNOT_START == 127
EXIT_KILL_FAILED == 70
Codes == {0, 1, EXIT_DEADLINE, EXIT_OWNER_GONE, EXIT_CANNOT_START, EXIT_KILL_FAILED}

\* "cut" is history: the reap itself was cancelled.  A supervisor is killed from outside,
\* reaped by its owner's reap, or dropped by a spawn that is cancelled.
CliState == [at : {"idle", "spawning", "reaping", "done", "dead"} \cup InCall, read : 0..MaxOut,
             outcome : Outcomes \cup {None}, cut : BOOLEAN]
SupState == [at : {None, "exited", "killed", "reaped", "dropped"} \cup Running, stop : BOOLEAN, stalled : BOOLEAN,
             forced : Codes \cup {NoCode}, gone : BOOLEAN, code : Codes \cup {NoCode}]
GroupState == [in : SUBSET Members, said : 0..MaxOut, code : {0, 1}]
RelayState == [sent : 0..MaxOut, on : BOOLEAN]

SuperviseTypeOK ==
  /\ alive \in BOOLEAN /\ faults \in 0..MaxFaults
  /\ cli \in [CliCalls -> CliState]
  /\ pipe \in [CliCalls -> SUBSET {"owner", "supervisor"}]
  /\ sup \in [CliCalls -> SupState]
  /\ group \in [CliCalls -> GroupState]
  /\ relay \in [CliCalls -> RelayState]
  /\ overdue \in [CliCalls -> BOOLEAN]

SuperviseInit ==
  /\ alive = TRUE /\ faults = 0
  /\ cli = [c \in CliCalls |-> [at |-> "idle", read |-> 0, outcome |-> None, cut |-> FALSE]]
  /\ pipe = [c \in CliCalls |-> {}]
  /\ sup = [c \in CliCalls |-> [at |-> None, stop |-> FALSE, stalled |-> FALSE, forced |-> NoCode,
                             gone |-> FALSE, code |-> NoCode]]
  /\ group = [c \in CliCalls |-> [in |-> {}, said |-> 0, code |-> 0]]
  /\ relay = [c \in CliCalls |-> [sent |-> 0, on |-> FALSE]]
  /\ overdue = [c \in CliCalls |-> FALSE]

Ended(c) == sup[c].at \in {"exited", "killed", "reaped", "dropped"}

-----------------------------------------------------------------------------
(* The owner: spawn_cli, _run_cli, reap *)

\* What SIGTERM does to a supervisor: before main has installed its handler, it ends it.
Terminated(s) == IF s.at = "starting" THEN [s EXCEPT !.at = "reaped"] ELSE [s EXCEPT !.stop = TRUE]

\* Mutant of SpawnCLI: the supervisor inherits the write end too.
SpawnLeaks(c) ==
  /\ alive /\ cli[c].at = "idle"
  /\ cli' = [cli EXCEPT ![c].at = "spawning"]
  /\ pipe' = [pipe EXCEPT ![c] = {"owner", "supervisor"}]
  /\ sup' = [sup EXCEPT ![c].at = "starting"]
  /\ UNCHANGED <<alive, group, relay, overdue, faults>>

\* spawn_cli: the pipe and the process, made before the first await.
SpawnCLI(c) ==
  /\ alive /\ cli[c].at = "idle"
  /\ cli' = [cli EXCEPT ![c].at = "spawning"]
  /\ pipe' = [pipe EXCEPT ![c] = {"owner"}]
  /\ sup' = [sup EXCEPT ![c].at = "starting"]
  /\ UNCHANGED <<alive, group, relay, overdue, faults>>

SpawnFails(c) ==
  /\ alive /\ cli[c].at = "idle"
  /\ cli' = [cli EXCEPT ![c].at = "done", ![c].outcome = "error"]
  /\ UNCHANGED <<alive, pipe, sup, group, relay, overdue, faults>>

Spawned(c) ==
  /\ alive /\ cli[c].at = "spawning"
  /\ cli' = [cli EXCEPT ![c].at = "sending"]
  /\ UNCHANGED <<alive, pipe, sup, group, relay, overdue, faults>>

\* Cancelled while the library connects the pipes: it kills what it has started, the
\* supervisor and nobody else, and spawn_cli closes the write end.
SpawnCancelled(c) ==
  /\ alive /\ cli[c].at = "spawning"
  /\ cli' = [cli EXCEPT ![c].at = "done", ![c].outcome = "cancelled"]
  /\ pipe' = [pipe EXCEPT ![c] = @ \ {"owner"}]
  /\ sup' = [sup EXCEPT ![c].at = IF Ended(c) THEN @ ELSE "dropped"]
  /\ UNCHANGED <<alive, group, relay, overdue, faults>>

HangsUp(c, outcome) ==
  /\ cli' = [cli EXCEPT ![c].at = "done", ![c].outcome = outcome]
  /\ pipe' = [pipe EXCEPT ![c] = @ \ {"owner"}]

\* reap, entered from the finally of _run_cli: TERM and wait, or nothing if it has exited.
Reap(c, outcome) ==
  \/ Ended(c) /\ HangsUp(c, outcome) /\ UNCHANGED sup
  \/ /\ ~Ended(c)
     /\ cli' = [cli EXCEPT ![c].at = "reaping", ![c].outcome = outcome]
     /\ sup' = [sup EXCEPT ![c] = Terminated(@)]
     /\ UNCHANGED pipe

Sends(c) ==
  /\ alive /\ cli[c].at = "sending"
  /\ cli' = [cli EXCEPT ![c].at = "reading"]
  /\ UNCHANGED <<alive, pipe, sup, group, relay, overdue, faults>>

SendFails(c) ==
  /\ alive /\ cli[c].at = "sending" /\ Ended(c)
  /\ Reap(c, "error")
  /\ UNCHANGED <<alive, group, relay, overdue, faults>>

Reads(c) ==
  /\ alive /\ cli[c].at = "reading"
  /\ \/ cli[c].read < relay[c].sent /\ cli' = [cli EXCEPT ![c].read = @ + 1]
     \/ /\ cli[c].read = relay[c].sent /\ Ended(c)
        /\ cli' = [cli EXCEPT ![c].at = "waiting"]
  /\ UNCHANGED <<alive, pipe, sup, group, relay, overdue, faults>>

\* The exit code, and whether the result line said is_error, decide.
Concludes(c) ==
  /\ alive /\ cli[c].at = "waiting" /\ Ended(c)
  /\ \E outcome \in {"ok", "error"} :
       /\ outcome = "ok" => sup[c].at = "exited" /\ sup[c].code = 0
       /\ Reap(c, outcome)
  /\ UNCHANGED <<alive, group, relay, overdue, faults>>

TimesOut(c) ==
  /\ alive /\ cli[c].at \in InCall
  /\ Reap(c, "timeout")
  /\ UNCHANGED <<alive, group, relay, overdue, faults>>

\* Stop, or a consumer that leaves its async for.
Interrupted(c) ==
  /\ alive
  /\ \/ cli[c].at \in InCall /\ Reap(c, "cancelled")
     \/ cli[c].at = "reading" /\ Reap(c, "left")
  /\ UNCHANGED <<alive, group, relay, overdue, faults>>

Reaped(c) ==
  /\ alive /\ cli[c].at = "reaping" /\ Ended(c)
  /\ HangsUp(c, cli[c].outcome)
  /\ UNCHANGED <<alive, sup, group, relay, overdue, faults>>

\* Mutant of ReapTimesOut: it asks again instead of killing.
ReapAsksAgain(c) ==
  /\ alive /\ cli[c].at = "reaping" /\ ~Ended(c) /\ sup[c].stalled
  /\ sup' = [sup EXCEPT ![c].stop = TRUE]
  /\ UNCHANGED <<alive, cli, pipe, group, relay, overdue, faults>>

\* REAP_SECONDS is longer than all the supervisor's waits: only a stalled one is killed.
ReapTimesOut(c) ==
  /\ alive /\ cli[c].at = "reaping" /\ ~Ended(c) /\ sup[c].stalled
  /\ sup' = [sup EXCEPT ![c].at = "reaped"]
  /\ UNCHANGED <<alive, cli, pipe, group, relay, overdue, faults>>

\* A cancel during the reap still closes the pipe.
ReapCancelled(c) ==
  /\ alive /\ cli[c].at = "reaping"
  /\ cli' = [cli EXCEPT ![c].at = "done", ![c].outcome = "cancelled", ![c].cut = TRUE]
  /\ pipe' = [pipe EXCEPT ![c] = @ \ {"owner"}]
  /\ UNCHANGED <<alive, sup, group, relay, overdue, faults>>

OwnerDies ==
  /\ alive
  /\ alive' = FALSE
  /\ cli' = [c \in CliCalls |-> [cli[c] EXCEPT !.at = IF @ = "done" THEN @ ELSE "dead"]]
  /\ pipe' = [c \in CliCalls |-> pipe[c] \ {"owner"}]
  /\ UNCHANGED <<sup, group, relay, overdue, faults>>

-----------------------------------------------------------------------------
(* The supervisor: main *)

Runs(c, at) == sup[c].at = at /\ ~sup[c].stalled

\* The handlers are installed before the CLI is started.
InstallsHandlers(c) ==
  /\ Runs(c, "starting")
  /\ sup' = [sup EXCEPT ![c].at = "ready"]
  /\ UNCHANGED <<alive, cli, pipe, group, relay, overdue, faults>>

StartsChild(c) ==
  /\ Runs(c, "ready")
  /\ sup' = [sup EXCEPT ![c].at = "watching"]
  /\ group' = [group EXCEPT ![c].in = {"leader"}]
  /\ relay' = [relay EXCEPT ![c].on = TRUE]
  /\ UNCHANGED <<alive, cli, pipe, overdue, faults>>

CannotStart(c) ==
  /\ Runs(c, "ready")
  /\ sup' = [sup EXCEPT ![c].at = "exited", ![c].code = EXIT_CANNOT_START]
  /\ UNCHANGED <<alive, cli, pipe, group, relay, overdue, faults>>

\* _owner_gone: end of file once nobody holds the write end.
OwnerGone(c) == pipe[c] = {}

\* What makes _watch and _drain give up.
Forced(c) ==
  (IF sup[c].stop \/ OwnerGone(c) THEN {EXIT_OWNER_GONE} ELSE {})
    \cup (IF overdue[c] THEN {EXIT_DEADLINE} ELSE {})

\* Mutant of Watches: a CLI that has exited leaves nothing to stop.
WatchesLeaderOnly(c) ==
  /\ Runs(c, "watching")
  /\ \/ /\ "leader" \notin group[c].in
        /\ sup' = [sup EXCEPT ![c].at = "draining", ![c].gone = TRUE]
     \/ \E f \in Forced(c) : sup' = [sup EXCEPT ![c].at = "terming", ![c].forced = f]
  /\ UNCHANGED <<alive, cli, pipe, group, relay, overdue, faults>>

\* _watch, and the TERM that opens stop_group.  A look at the child may be a poll old when
\* the others are made.
Watches(c) ==
  /\ Runs(c, "watching")
  /\ \/ "leader" \notin group[c].in /\ sup' = [sup EXCEPT ![c].at = "terming"]
     \/ \E f \in Forced(c) : sup' = [sup EXCEPT ![c].at = "terming", ![c].forced = f]
  /\ UNCHANGED <<alive, cli, pipe, group, relay, overdue, faults>>

\* Mutant of AfterStop: what is still in the pipes is not waited for.
AfterStopExits(s, gone) == [s EXCEPT !.gone = gone, !.at = "joining"]

AfterStop(s, gone) == [s EXCEPT !.gone = gone, !.at = IF s.forced = NoCode THEN "draining" ELSE "joining"]

\* _wait_gone sees the group empty, after TERM or after KILL.
GroupGone(c) ==
  /\ Runs(c, "terming") \/ Runs(c, "killing")
  /\ group[c].in = {}
  /\ sup' = [sup EXCEPT ![c] = AfterStop(@, TRUE)]
  /\ UNCHANGED <<alive, cli, pipe, group, relay, overdue, faults>>

\* TERM_GRACE_S is over.  KILL leaves nobody, unless the kernel cannot end a process now.
KillsGroup(c) ==
  /\ Runs(c, "terming")
  /\ group[c].in # {}
  /\ sup' = [sup EXCEPT ![c].at = "killing"]
  /\ \/ group' = [group EXCEPT ![c].in = {}] /\ UNCHANGED faults
     \/ /\ faults < MaxFaults /\ faults' = faults + 1
        /\ UNCHANGED group
  /\ UNCHANGED <<alive, cli, pipe, relay, overdue>>

\* KILL_WAIT_S is over.
GivesUpKilling(c) ==
  /\ Runs(c, "killing")
  /\ group[c].in # {}
  /\ sup' = [sup EXCEPT ![c] = AfterStop(@, FALSE)]
  /\ UNCHANGED <<alive, cli, pipe, group, relay, overdue, faults>>

ExitCode(c, forced) ==
  IF ~sup[c].gone THEN EXIT_KILL_FAILED
  ELSE IF forced # NoCode THEN forced
  ELSE group[c].code

Exits(c, forced) == sup' = [sup EXCEPT ![c].at = "exited", ![c].code = ExitCode(c, forced)]

Drains(c) ==
  /\ Runs(c, "draining")
  /\ \/ ~relay[c].on /\ Exits(c, NoCode)
     \/ \E f \in Forced(c) : Exits(c, f)
  /\ UNCHANGED <<alive, cli, pipe, group, relay, overdue, faults>>

\* The relay thread has JOIN_S to end, and may be left behind.
Joins(c) ==
  /\ Runs(c, "joining")
  /\ Exits(c, sup[c].forced)
  /\ UNCHANGED <<alive, cli, pipe, group, relay, overdue, faults>>

Deadline(c) ==
  /\ sup[c].at \in Running /\ ~overdue[c]
  /\ overdue' = [overdue EXCEPT ![c] = TRUE]
  /\ UNCHANGED <<alive, cli, pipe, sup, group, relay, faults>>

\* The supervisor is starved of time, or killed by somebody else.
Fault(c) ==
  /\ faults < MaxFaults /\ sup[c].at \in Running
  /\ faults' = faults + 1
  /\ \/ ~sup[c].stalled /\ sup' = [sup EXCEPT ![c].stalled = TRUE]
     \/ sup' = [sup EXCEPT ![c].at = "killed"]
  /\ UNCHANGED <<alive, cli, pipe, group, relay, overdue>>

-----------------------------------------------------------------------------
(* _pump_out and the CLI *)

Relaying(c) == relay[c].on /\ sup[c].at \in Running /\ ~sup[c].stalled

Relays(c) ==
  /\ Relaying(c) /\ alive
  /\ relay[c].sent < group[c].said
  /\ relay[c].sent - cli[c].read < PipeSize
  /\ relay' = [relay EXCEPT ![c].sent = @ + 1]
  /\ UNCHANGED <<alive, cli, pipe, sup, group, overdue, faults>>

\* End of file: nobody in the group holds the pipe, and it is empty.  Or the owner's end is
\* closed and a write fails.
RelayEnds(c) ==
  /\ Relaying(c)
  /\ \/ group[c].in = {} /\ relay[c].sent = group[c].said
     \/ ~alive /\ relay[c].sent < group[c].said
  /\ relay' = [relay EXCEPT ![c].on = FALSE]
  /\ UNCHANGED <<alive, cli, pipe, sup, group, overdue, faults>>

Says(c) ==
  /\ "leader" \in group[c].in
  /\ group[c].said < MaxOut /\ group[c].said - relay[c].sent < PipeSize
  /\ group' = [group EXCEPT ![c].said = @ + 1]
  /\ UNCHANGED <<alive, cli, pipe, sup, relay, overdue, faults>>

Forks(c) ==
  /\ "leader" \in group[c].in /\ "kin" \notin group[c].in
  /\ group' = [group EXCEPT ![c].in = Members]
  /\ UNCHANGED <<alive, cli, pipe, sup, relay, overdue, faults>>

\* A member ends: on its own, on TERM, or on a closed pipe.
Ends(c) ==
  /\ \/ /\ "leader" \in group[c].in
        /\ \E code \in {0, 1} :
             group' = [group EXCEPT ![c].in = @ \ {"leader"}, ![c].code = code]
     \/ "kin" \in group[c].in /\ group' = [group EXCEPT ![c].in = @ \ {"kin"}]
  /\ UNCHANGED <<alive, cli, pipe, sup, relay, overdue, faults>>

-----------------------------------------------------------------------------
OwnerStep(c) ==
  \/ SpawnCLI(c) \/ SpawnFails(c) \/ Spawned(c) \/ SpawnCancelled(c)
  \/ Sends(c) \/ SendFails(c) \/ Reads(c) \/ Concludes(c) \/ TimesOut(c) \/ Interrupted(c)
  \/ Reaped(c) \/ ReapTimesOut(c) \/ ReapCancelled(c)

SupervisorStep(c) ==
  \/ InstallsHandlers(c) \/ StartsChild(c) \/ CannotStart(c) \/ Watches(c)
  \/ GroupGone(c) \/ KillsGroup(c) \/ GivesUpKilling(c) \/ Drains(c) \/ Joins(c)

GroupStep(c) == Relays(c) \/ RelayEnds(c) \/ Says(c) \/ Forks(c) \/ Ends(c)

SuperviseNext ==
  \/ OwnerDies
  \/ \E c \in CliCalls : OwnerStep(c) \/ SupervisorStep(c) \/ GroupStep(c) \/ Deadline(c) \/ Fault(c)

\* The owner's loop and its timers run, and so do the supervisor and its threads.  Nothing
\* is assumed of the CLI, of the supervisor's deadline, or of a Stop.
Fairness ==
  \A c \in CliCalls :
    /\ WF_superviseVars(Spawned(c)) /\ WF_superviseVars(TimesOut(c)) /\ WF_superviseVars(Reaped(c))
    /\ WF_superviseVars(ReapTimesOut(c))
    /\ WF_superviseVars(SupervisorStep(c)) /\ WF_superviseVars(RelayEnds(c))

SuperviseSpec == SuperviseInit /\ [][SuperviseNext]_superviseVars /\ Fairness

-----------------------------------------------------------------------------
(* Properties *)

\* What a fault leaves nobody to clean up after: a supervisor that something else killed, or
\* that did not run any more when its owner's reap killed it, or whose own kill failed.
Orphaned(c) ==
  \/ sup[c].at = "killed" \/ sup[c].code = EXIT_KILL_FAILED
  \/ sup[c].at = "reaped" /\ sup[c].stalled

\* gateway.reap: when a call is over, on success, error, timeout or Stop alike, its whole
\* process group is gone, whoever of it was left, but for a fault.  A reap that was itself
\* cancelled leaves that to a supervisor that still runs; a spawn that was cancelled leaves
\* it to nobody, having killed the supervisor, which may have started the CLI.
NoChildOutlivesItsCall ==
  \A c \in CliCalls : cli[c].at = "done" /\ group[c].in # {} =>
    Orphaned(c) \/ sup[c].at = "dropped" \/ (cli[c].cut /\ sup[c].at \in Running)

\* docs/how-it-works/llm.md:256 says that "a call cancelled while the supervisor is still
\* starting closes the pipe, which the supervisor reads as the owner dying": it is there to
\* read it, and clean up.  It is not: the library has killed it.
CancelledSpawnIsNoticed ==
  \A c \in CliCalls : cli[c].at = "done" /\ group[c].in # {} => Orphaned(c) \/ sup[c].at \in Running

\* providers._run_cli: an answer taken as complete is all the CLI printed, although the
\* reader is slow, the CLI has long exited and its supervisor has a deadline.
AnswerIsWhole == \A c \in CliCalls : cli[c].outcome = "ok" => cli[c].read = group[c].said

\* supervise.main: once nobody owns a cli, by death, hang-up or cancel, its group ends,
\* long before the deadline.
OwnerGoneEndsTheGroup ==
  \A c \in CliCalls :
    sup[c].at \in Running /\ "owner" \notin pipe[c]
      ~> group[c].in = {} \/ Orphaned(c) \/ sup[c].stalled

\* gateway.BoundedStream, reap: every call ends, although its CLI may hang and its
\* supervisor may be stalled.
EveryCallEnds == \A c \in CliCalls : cli[c].at = "spawning" ~> cli[c].at \in {"done", "dead"}
=============================================================================
