---------------------------- MODULE PacketClaim ----------------------------
(***************************************************************************)
(* What a claim on a job's packet promises, without the table, the states  *)
(* and the clocks that keep the promise.  A run works on a packet between  *)
(* taking the claim and giving it back.  A run that is stopped leaves its  *)
(* claim behind, and nobody works on the packet until that claim lapses.   *)
(* All of it holds as long as the history is calm: no run outlives its     *)
(* claim, and no second process clears the claims of a live one.           *)
(***************************************************************************)
CONSTANTS
  Jobs,
  Runs

VARIABLES
  leased,   \* leased[j]: the runs whose claim on the packet of j counts
  working,  \* working[j]: the runs that may be writing it
  calm

cvars == <<leased, working, calm>>

Nobody == [j \in Jobs |-> {}]

CInit ==
  /\ leased = Nobody
  /\ working = Nobody
  /\ calm = TRUE

\* A packet is free when no claim on it counts, a dead run's included.
Takes(j, r) ==
  /\ leased[j] = {}
  /\ leased' = [leased EXCEPT ![j] = {r}]
  /\ working' = [working EXCEPT ![j] = {r}]

\* Only who works gives back, and gives back what he took.
GivesBack(j) ==
  /\ working[j] # {}
  /\ leased' = [leased EXCEPT ![j] = {}]
  /\ working' = [working EXCEPT ![j] = {}]

Abandons(j) ==
  /\ working[j] # {}
  /\ working' = [working EXCEPT ![j] = {}]
  /\ UNCHANGED leased

\* Only a claim that nobody works under lapses.
Lapses(j) ==
  /\ leased[j] # {} /\ working[j] = {}
  /\ leased' = [leased EXCEPT ![j] = {}]
  /\ UNCHANGED working

AllDie ==
  /\ leased' = Nobody
  /\ working' = Nobody

CNext ==
  calm' =>
    /\ calm
    /\ \/ \E j \in Jobs : (\E r \in Runs : Takes(j, r)) \/ GivesBack(j) \/ Abandons(j) \/ Lapses(j)
       \/ AllDie

CSpec == CInit /\ [][CNext]_cvars

\* Whoever works on a packet holds the only claim on it.
Alone == calm => \A j \in Jobs : \A r \in working[j] : leased[j] = {r}
=============================================================================
