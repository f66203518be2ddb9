----------------------------- MODULE Lifecycle -----------------------------
(***************************************************************************)
(* What the tracker promises of an application, stated without its         *)
(* columns.  `own` is where the user has put the application; nobody else  *)
(* changes it.  The closure lifecycle may only PARK a job on top of that   *)
(* state (posting_closed from the Shortlist, filled from applied) and may  *)
(* only take it off again, back to exactly the user's own state.  Once the *)
(* user has said the posting is still open it may not park the job at all. *)
(***************************************************************************)
CONSTANTS
  Jobs,
  Users,       \* the states only the user sets
  Shortlist    \* those of them that come before an application

VARIABLES
  own,      \* own[j]: the state the user has put the job in
  parked,   \* parked[j]: "no", or the closure state it is parked in
  kept,     \* kept[j]: the job is on the user's board
  insists   \* insists[j]: the user says the posting is open

lvars == <<own, parked, kept, insists>>

LInit ==
  /\ own = [j \in Jobs |-> ""]
  /\ parked = [j \in Jobs |-> "no"]
  /\ kept = [j \in Jobs |-> FALSE]
  /\ insists = [j \in Jobs |-> FALSE]

\* A kept job goes wherever the user puts it; one that was parked is now his to keep open.
UserMoves(j) ==
  /\ kept[j]
  /\ \E s \in Users : own' = [own EXCEPT ![j] = s]
  /\ parked' = [parked EXCEPT ![j] = "no"]
  /\ insists' = [insists EXCEPT ![j] = @ \/ parked[j] # "no"]
  /\ UNCHANGED kept

UserKeeps(j) ==
  /\ ~kept[j]
  /\ kept' = [kept EXCEPT ![j] = TRUE]
  /\ UNCHANGED <<own, parked, insists>>

\* Only an accidental keep is taken back, never an application.
UserDrops(j) ==
  /\ kept[j]
  /\ parked[j] = "no"
  /\ own[j] \in Shortlist
  /\ kept' = [kept EXCEPT ![j] = FALSE]
  /\ UNCHANGED <<own, parked, insists>>

UserSaysOpen(j) ==
  /\ insists' = [insists EXCEPT ![j] = TRUE]
  /\ parked' = [parked EXCEPT ![j] = "no"]
  /\ UNCHANGED <<own, kept>>

UserSaysClosed(j) ==
  /\ insists' = [insists EXCEPT ![j] = FALSE]
  /\ parked' = [parked EXCEPT ![j] =
                  IF kept[j] /\ @ = "no" /\ own[j] \in Shortlist THEN "posting_closed" ELSE @]
  /\ UNCHANGED <<own, kept>>

Parks(j) ==
  /\ kept[j]
  /\ ~insists[j]
  /\ parked[j] = "no"
  /\ \/ own[j] \in Shortlist /\ parked' = [parked EXCEPT ![j] = "posting_closed"]
     \/ own[j] = "applied" /\ parked' = [parked EXCEPT ![j] = "filled"]
  /\ UNCHANGED <<own, kept, insists>>

Unparks(j) ==
  /\ parked[j] # "no"
  /\ parked' = [parked EXCEPT ![j] = "no"]
  /\ UNCHANGED <<own, kept, insists>>

LNext ==
  \E j \in Jobs :
    \/ UserMoves(j) \/ UserKeeps(j) \/ UserDrops(j) \/ UserSaysOpen(j) \/ UserSaysClosed(j)
    \/ Parks(j) \/ Unparks(j)

LSpec == LInit /\ [][LNext]_lvars
=============================================================================
