-------------------------- MODULE CallLedgerProofs --------------------------
(***************************************************************************)
(* What holds of the call ledger for any number of processes, calls, rows, *)
(* pids, days and any caps.                                                *)
(***************************************************************************)
EXTENDS CallLedger, Supervise, FiniteSetTheorems, WellFoundedInduction, TLAPS

\* A set of days has an earliest one: MIN(started_at) exists for every owner.
LEMMA EarliestDay ==
  ASSUME NEW D, D \subseteq Day, D # {}
  PROVE  \E d \in D : \A e \in D : d <= e
<1>1. D \subseteq Nat
  BY LedgerAssumption DEF Day
<1>2. PICK d \in D : \A e \in D : <<e, d>> \notin OpToRel(<, Nat)
  BY <1>1, NatLessThanWellFounded, WFMin
<1>3. \A e \in D : ~ (e < d)
  BY <1>1, <1>2 DEF OpToRel
<1> QED
  BY <1>1, <1>3

\* The owners a reconcile collects are well-formed.
LEMMA OwnersOfType ==
  ASSUME TypeOK, NEW started, started \subseteq {r \in Rows : row[r].st = "started"}
  PROVE  OwnersOf(started) \in SUBSET [id : Owner, since : Day]
<1> SUFFICES ASSUME NEW r \in started
    PROVE  [id |-> row[r].owner,
            since |-> CHOOSE d \in Day :
              /\ \E s \in started : row[s].owner = row[r].owner /\ row[s].day = d
              /\ \A s \in started : row[s].owner = row[r].owner => d <= row[s].day]
           \in [id : Owner, since : Day]
  BY DEF OwnersOf
<1> DEFINE D == {row[s].day : s \in {t \in started : row[t].owner = row[r].owner}}
<1>1. \A s \in started : row[s].day \in Day /\ row[s].owner \in Owner
  BY DEF TypeOK, RowState, Free
<1>2. D \subseteq Day /\ D # {}
  BY <1>1
<1>3. PICK d \in D : \A e \in D : d <= e
  BY <1>2, EarliestDay
<1>4. \E e \in Day :
        /\ \E s \in started : row[s].owner = row[r].owner /\ row[s].day = e
        /\ \A s \in started : row[s].owner = row[r].owner => e <= row[s].day
  BY <1>2, <1>3
<1> QED
  BY <1>1, <1>4

LEMMA InitType == Init => TypeOK
BY LedgerAssumption DEF Init, TypeOK, Day, Stamp, CallState, Idle, ProcState, Down, RowState, Free

\* A row built for an admitted or a refused call is well-formed.
LEMMA InsertedType ==
  ASSUME TypeOK, NEW c \in Calls, call[c].pc \in {"asked", "orphaned"},
         Alive(call[c].proc), NEW st \in {"started", "refused"}
  PROVE  Inserted(c, st) \in RowState
<1>1. call[c] \in [pc : {"asked", "orphaned"}, proc : Procs, origin : Origins,
                   caller : Callers, day : Day]
  BY DEF TypeOK, CallState, Idle
<1>2. proc[call[c].proc].id \in Owner
  BY <1>1 DEF TypeOK, ProcState, Down, Alive
<1> QED
  BY <1>1, <1>2 DEF TypeOK, Inserted, RowState

-----------------------------------------------------------------------------
(* Type correctness: a row is written by a call whose process is alive *)

\* A call in progress belongs to a process that is running (its calls die with it).
CallsHaveProcs == \A c \in Calls : call[c].pc # "idle" => Alive(call[c].proc)

TypeInv == TypeOK /\ CallsHaveProcs

LEMMA InitTypeInv == Init => TypeInv
BY InitType DEF Init, TypeInv, CallsHaveProcs, Idle

LEMMA NextTypeInv == TypeInv /\ [Next]_vars => TypeInv'
<1> SUFFICES ASSUME TypeOK, CallsHaveProcs, [Next]_vars
    PROVE  TypeOK' /\ CallsHaveProcs'
  BY DEF TypeInv
<1> USE LedgerAssumption
<1>1. ASSUME NEW p \in Procs, Boot(p)
      PROVE  TypeOK' /\ CallsHaveProcs'
  <2>1. PICK pid \in FreePids, known \in BOOLEAN :
          /\ os' = [os EXCEPT ![pid] = boots + 1]
          /\ proc' = [proc EXCEPT ![p] =
               [up |-> "boot",
                id |-> [pid |-> pid, start |-> IF known THEN boots + 1 ELSE 0]]]
    BY <1>1 DEF Boot
  <2>2. boots + 1 \in Stamp /\ 0 \in Stamp /\ pid \in Pids
    BY <1>1 DEF Boot, TypeOK, Stamp, FreePids
  <2>3. os' \in [Pids -> Stamp] /\ proc' \in [Procs -> ProcState]
    BY <2>1, <2>2 DEF TypeOK, ProcState, Owner
  <2>4. CallsHaveProcs'
    BY <1>1, <2>1 DEF Boot, TypeOK, CallsHaveProcs, Alive
  <2> QED
    BY <1>1, <2>2, <2>3, <2>4 DEF Boot, TypeOK
<1>2. ASSUME NEW p \in Procs, Exit(p)
      PROVE  TypeOK' /\ CallsHaveProcs'
  <2>1. /\ os' \in [Pids -> Stamp]
        /\ proc' \in [Procs -> ProcState]
        /\ call' \in [Calls -> CallState]
    <3>0. 0 \in Stamp
      BY DEF Stamp
    <3>1. \A pid : [os EXCEPT ![pid] = 0] \in [Pids -> Stamp]
      BY <3>0 DEF TypeOK
    <3>2. proc' \in [Procs -> ProcState]
      BY <1>2 DEF Exit, TypeOK, ProcState
    <3>3. call' \in [Calls -> CallState]
      BY <1>2 DEF Exit, TypeOK, CallState
    <3> QED
      BY <1>2, <3>1, <3>2, <3>3 DEF Exit
  <2>2. CallsHaveProcs'
    BY <1>2 DEF Exit, TypeOK, CallsHaveProcs, Alive, Of, Idle
  <2> QED
    BY <1>2, <2>1, <2>2 DEF Exit, TypeOK
<1>3. ASSUME NEW p \in Procs, ReconcileBegins(p)
      PROVE  TypeOK' /\ CallsHaveProcs'
  <2>1. OwnersOf({r \in Rows : row[r].st = "started"}) \in SUBSET [id : Owner, since : Day]
    BY OwnersOfType
  <2>2. proc[p].id \in Owner
    BY <1>3 DEF ReconcileBegins, TypeOK, ProcState, Down
  <2>3. proc' \in [Procs -> ProcState]
    BY <1>3, <2>1, <2>2 DEF ReconcileBegins, Reconciling, TypeOK, ProcState
  <2>4. CallsHaveProcs'
    BY <1>3 DEF ReconcileBegins, Reconciling, TypeOK, CallsHaveProcs, Alive
  <2> QED
    BY <1>3, <2>3, <2>4 DEF ReconcileBegins, TypeOK
<1>4. ASSUME NEW p \in Procs, ReconcileOwner(p)
      PROVE  TypeOK' /\ CallsHaveProcs'
  <2>1. PICK o \in proc[p].owners :
          /\ proc' = [proc EXCEPT ![p] = Reconciling(@.id, @.owners \ {o})]
          /\ \/ UNCHANGED row
             \/ row' = [r \in Rows |->
                          IF row[r].st = "started" /\ row[r].owner = o.id
                          THEN [row[r] EXCEPT !.st = "abandoned"]
                          ELSE row[r]]
    BY <1>4 DEF ReconcileOwner
  <2>2. proc[p] \in [up : {"reconciling"}, id : Owner, owners : SUBSET [id : Owner, since : Day]]
    BY <1>4 DEF ReconcileOwner, TypeOK, ProcState, Down
  <2>3. proc' \in [Procs -> ProcState]
    BY <2>1, <2>2 DEF Reconciling, TypeOK, ProcState
  <2>4. row' \in [Rows -> RowState]
    <3>1. \A r \in Rows : row[r].st = "started" => [row[r] EXCEPT !.st = "abandoned"] \in RowState
      BY DEF TypeOK, RowState, Free
    <3> QED
      BY <2>1, <3>1 DEF TypeOK
  <2>5. CallsHaveProcs'
    BY <1>4, <2>1, <2>2 DEF ReconcileOwner, Reconciling, TypeOK, CallsHaveProcs, Alive
  <2> QED
    BY <1>4, <2>3, <2>4, <2>5 DEF ReconcileOwner, TypeOK
<1>5. ASSUME NEW p \in Procs, ReconcileFails(p)
      PROVE  TypeOK' /\ CallsHaveProcs'
  <2>1. proc[p] \in [up : {"reconciling"}, id : Owner, owners : SUBSET [id : Owner, since : Day]]
    BY <1>5 DEF ReconcileFails, TypeOK, ProcState, Down
  <2>2. proc' \in [Procs -> ProcState]
    BY <1>5, <2>1 DEF ReconcileFails, TypeOK, ProcState
  <2>3. CallsHaveProcs'
    BY <1>5 DEF ReconcileFails, TypeOK, CallsHaveProcs, Alive
  <2> QED
    BY <1>5, <2>2, <2>3 DEF ReconcileFails, TypeOK
<1>6. ASSUME NEW c \in Calls, CallStep(c)
      PROVE  TypeOK' /\ CallsHaveProcs'
  <2>1. ASSUME NEW p \in Procs, NEW o \in Origins, NEW k \in Callers, ReserveAsks(c, p, o, k)
        PROVE  TypeOK' /\ CallsHaveProcs'
    BY <2>1 DEF ReserveAsks, TypeOK, CallsHaveProcs, Alive, CallState
  <2>2. CASE ReserveCancelled(c)
    <3>1. call[c] \in [pc : {"asked"}, proc : Procs, origin : Origins, caller : Callers, day : Day]
      BY <2>2 DEF ReserveCancelled, TypeOK, CallState, Idle
    <3> QED
      BY <2>2, <3>1 DEF ReserveCancelled, TypeOK, CallsHaveProcs, Alive, CallState
  <2>3. CASE ReserveFails(c)
    BY <2>3 DEF ReserveFails, TypeOK, CallsHaveProcs, Alive, CallState, Idle
  <2>4. CASE ReserveAdmits(c)
    <3>1. Inserted(c, "started") \in RowState
      BY <2>4, InsertedType DEF ReserveAdmits, CallsHaveProcs
    <3>2. call[c] \in [pc : {"asked", "orphaned"}, proc : Procs, origin : Origins,
                       caller : Callers, day : Day]
      BY <2>4 DEF ReserveAdmits, TypeOK, CallState, Idle
    <3> QED
      BY <2>4, <3>1, <3>2 DEF ReserveAdmits, TypeOK, CallsHaveProcs, Alive, CallState
  <2>5. CASE ReserveRefuses(c)
    <3>1. Inserted(c, "refused") \in RowState
      BY <2>5, InsertedType DEF ReserveRefuses, CallsHaveProcs
    <3> QED
      BY <2>5, <3>1 DEF ReserveRefuses, TypeOK, CallsHaveProcs, Alive, CallState, Idle
  <2>6. CASE Finish(c)
    <3>1. call[c].row \in Rows
      BY <2>6 DEF Finish, TypeOK, CallState, Idle
    <3>2. Closed(call[c].row) \in RowState
      BY <3>1 DEF Closed, TypeOK, RowState, Free
    <3> QED
      BY <2>6, <3>1, <3>2 DEF Finish, TypeOK, CallsHaveProcs, Alive, CallState, Idle
  <2>7. CASE FinishLost(c)
    BY <2>7 DEF FinishLost, TypeOK, CallsHaveProcs, Alive, CallState, Idle
  <2> QED
    BY <1>6, <2>1, <2>2, <2>3, <2>4, <2>5, <2>6, <2>7 DEF CallStep
<1>7. CASE StrangerStarts
  <2>1. PICK pid \in FreePids : os' = [os EXCEPT ![pid] = boots + 1]
    BY <1>7 DEF StrangerStarts
  <2>2. boots + 1 \in Stamp
    BY <1>7 DEF StrangerStarts, TypeOK, Stamp
  <2>3. CallsHaveProcs'
    BY <1>7 DEF StrangerStarts, CallsHaveProcs, Alive
  <2> QED
    BY <1>7, <2>1, <2>2, <2>3 DEF StrangerStarts, TypeOK, FreePids
<1>8. CASE NewDay
  BY <1>8 DEF NewDay, TypeOK, CallsHaveProcs, Alive, Day
<1>9. CASE UNCHANGED vars
  BY <1>9 DEF vars, TypeOK, CallsHaveProcs, Alive
<1> QED
  BY <1>1, <1>2, <1>3, <1>4, <1>5, <1>6, <1>7, <1>8, <1>9 DEF Next, ProcStep

\* Type correctness of the ledger (llm/ledger.py), for any number of processes,
\* calls and rows.
THEOREM LedgerTypes == Spec => []TypeOK
<1>1. TypeInv => TypeOK
  BY DEF TypeInv
<1> QED
  BY <1>1, InitTypeInv, NextTypeInv, PTL DEF Spec

-----------------------------------------------------------------------------
(* What a step may do to one row, and what follows for the budget *)

\* A row stays as it is, is written once, or leaves `started` and nothing else of
\* it changes (finish and reconcile_abandoned).
LEMMA RowStep ==
  ASSUME TypeInv, [Next]_vars, NEW r \in Rows
  PROVE  \/ row'[r] = row[r]
         \/ row[r].st = "free"
         \/ /\ row[r].st = "started"
            /\ \E st \in {"closed", "abandoned"} : row'[r] = [row[r] EXCEPT !.st = st]
<1> USE DEF TypeInv
<1>1. CASE UNCHANGED row
  BY <1>1
<1>2. ASSUME NEW p \in Procs, ReconcileOwner(p)
      PROVE  \/ row'[r] = row[r]
             \/ /\ row[r].st = "started"
                /\ row'[r] = [row[r] EXCEPT !.st = "abandoned"]
  BY <1>2 DEF ReconcileOwner, TypeOK
<1>3. ASSUME NEW c \in Calls, ReserveAdmits(c) \/ ReserveRefuses(c)
      PROVE  row'[r] = row[r] \/ row[r].st = "free"
  BY <1>3 DEF ReserveAdmits, ReserveRefuses, TypeOK
<1>4. ASSUME NEW c \in Calls, Finish(c)
      PROVE  \/ row'[r] = row[r]
             \/ /\ row[r].st = "started"
                /\ row'[r] = [row[r] EXCEPT !.st = "closed"]
  BY <1>4 DEF Finish, Closed, TypeOK
<1>5. \/ UNCHANGED row
      \/ \E p \in Procs : ReconcileOwner(p)
      \/ \E c \in Calls : ReserveAdmits(c) \/ ReserveRefuses(c) \/ Finish(c)
  BY DEF Next, ProcStep, CallStep, vars, Boot, Exit, ReconcileBegins, ReconcileFails,
         StrangerStarts, NewDay, ReserveAsks, ReserveCancelled, ReserveFails, FinishLost
<1> QED
  BY <1>1, <1>2, <1>3, <1>4, <1>5

\* Only an admitted call adds a row that counts toward a cap.
LEMMA OnlyAdmissionCharges ==
  ASSUME TypeInv, [Next]_vars, NEW r \in Rows,
         row[r].st \in {"free", "refused"}, row'[r].st \notin {"free", "refused"}
  PROVE  \E c \in Calls : /\ ReserveAdmits(c)
                          /\ row' = [row EXCEPT ![r] = Inserted(c, "started")]
<1> USE DEF TypeInv
<1>1. row'[r] # row[r]
  OBVIOUS
<1>2. ~ \E p \in Procs : ReconcileOwner(p)
  BY <1>1 DEF ReconcileOwner, TypeOK
<1>3. ~ \E c \in Calls : Finish(c)
  BY <1>1 DEF Finish, Closed, TypeOK
<1>4. ~ \E c \in Calls : ReserveRefuses(c)
  BY <1>1 DEF ReserveRefuses, Inserted, TypeOK
<1>5. PICK c \in Calls : ReserveAdmits(c)
  BY <1>1, <1>2, <1>3, <1>4
     DEF Next, ProcStep, CallStep, vars, Boot, Exit, ReconcileBegins, ReconcileFails,
         StrangerStarts, NewDay, ReserveAsks, ReserveCancelled, ReserveFails, FinishLost
<1>6. row' = [row EXCEPT ![r] = Inserted(c, "started")]
  BY <1>1, <1>5 DEF ReserveAdmits, TypeOK
<1> QED
  BY <1>5, <1>6

\* The budget is never handed back (ledger.py:13-14).
THEOREM BudgetNeverRefunded == Spec => NeverRefunded
<1>1. ASSUME TypeInv, [Next]_vars
      PROVE  \A o \in Origins, d \in Day : Chargeable(o, d) \subseteq Chargeable(o, d)'
  <2> SUFFICES ASSUME NEW o \in Origins, NEW d \in Day, NEW r \in Chargeable(o, d)
      PROVE  r \in Chargeable(o, d)'
    OBVIOUS
  <2>1. r \in Rows /\ row[r].st \notin {"free", "refused"}
    BY DEF Chargeable
  <2>2. CASE row'[r] = row[r]
    BY <2>1, <2>2 DEF Chargeable
  <2>3. ASSUME NEW st \in {"closed", "abandoned"}, row[r].st = "started",
               row'[r] = [row[r] EXCEPT !.st = st]
        PROVE  r \in Chargeable(o, d)'
    <3>1. row[r] \in [st : {"started"}, day : Day, asked : Day, origin : Origins,
                      caller : Callers, owner : Owner]
      BY <2>1, <2>3, <1>1 DEF TypeInv, TypeOK, RowState, Free
    <3>2. /\ row'[r].st = st
          /\ row'[r].origin = row[r].origin
          /\ row'[r].day = row[r].day
      BY <2>3, <3>1
    <3> QED
      BY <2>1, <3>2 DEF Chargeable
  <2> QED
    BY <1>1, <2>1, <2>2, <2>3, RowStep
<1>2. TypeInv /\ [Next]_vars
        => [\A o \in Origins, d \in Day : Chargeable(o, d) \subseteq Chargeable(o, d)']_vars
  BY <1>1
<1> QED
  BY <1>2, InitTypeInv, NextTypeInv, PTL DEF Spec, NeverRefunded

\* What a call did is written once (the guard of finish's UPDATE, ledger.py:248).
THEOREM ClosedRowsAreFinal == Spec => ClosedIsFinal
<1>1. TypeInv /\ [Next]_vars
        => [\A r \in Rows : row[r].st \notin {"free", "started"} => row'[r] = row[r]]_vars
  BY RowStep
<1> QED
  BY <1>1, InitTypeInv, NextTypeInv, PTL DEF Spec, ClosedIsFinal

\* The cap (ledger.py:3-8), for any cap and any number of racing processes: the
\* count and the insert are one transaction, so the new row fits under the cap.
THEOREM CapIsKept == Spec => []CapHolds
<1>1. Init => CapHolds
  <2> SUFFICES ASSUME Init, NEW o \in Origins, NEW d \in Day
      PROVE  Cardinality({r \in Chargeable(o, d) : row[r].asked = d}) <= Cap[o]
    BY DEF CapHolds
  <2>1. {r \in Chargeable(o, d) : row[r].asked = d} = {}
    BY DEF Init, Chargeable, Free
  <2> QED
    BY <2>1, FS_EmptySet, LedgerAssumption
<1>2. TypeInv /\ CapHolds /\ [Next]_vars => CapHolds'
  <2> SUFFICES ASSUME TypeInv, CapHolds, [Next]_vars, NEW o \in Origins, NEW d \in Day
      PROVE  Cardinality({r \in Chargeable(o, d) : row[r].asked = d}') <= Cap[o]
    BY DEF CapHolds
  <2> DEFINE S == {r \in Chargeable(o, d) : row[r].asked = d}
  <2>1. /\ IsFiniteSet(Chargeable(o, d)) /\ IsFiniteSet(S)
        /\ Cardinality(S) \in Nat /\ Cardinality(Chargeable(o, d)) \in Nat
        /\ Cardinality(S) <= Cardinality(Chargeable(o, d))
        /\ Cap[o] \in Nat
    <3>1. Chargeable(o, d) \in SUBSET Rows /\ S \in SUBSET Chargeable(o, d)
      BY DEF Chargeable
    <3> QED
      BY <3>1, FS_Subset, FS_CardinalityType, LedgerAssumption
  <2>2. \A r \in S' : r \in S \/ row[r].st \in {"free", "refused"}
    <3> SUFFICES ASSUME NEW r \in S', row[r].st \notin {"free", "refused"}
        PROVE  r \in S
      OBVIOUS
    <3>1. r \in Rows
      BY DEF Chargeable
    <3>2. row[r] \in [st : {"started", "closed", "abandoned", "refused"}, day : Day,
                      asked : Day, origin : Origins, caller : Callers, owner : Owner]
      BY <3>1 DEF TypeInv, TypeOK, RowState, Free
    <3>3. CASE row'[r] = row[r]
      BY <3>1, <3>3 DEF Chargeable
    <3>4. ASSUME NEW st \in {"closed", "abandoned"}, row'[r] = [row[r] EXCEPT !.st = st]
          PROVE  r \in S
      BY <3>1, <3>2, <3>4 DEF Chargeable
    <3> QED
      BY <3>1, <3>3, <3>4, RowStep
  <2>3. CASE S' \subseteq S
    <3>1. Cardinality(S') <= Cardinality(S) /\ Cardinality(S') \in Nat
      BY <2>1, <2>3, FS_Subset, FS_CardinalityType
    <3>2. Cardinality(S) <= Cap[o]
      BY DEF CapHolds
    <3> QED
      BY <2>1, <3>1, <3>2
  <2>4. ASSUME NEW r \in S', r \notin S
        PROVE  Cardinality(S') <= Cap[o]
    <3>1. r \in Rows /\ row[r].st \in {"free", "refused"} /\ row'[r].st \notin {"free", "refused"}
      BY <2>2, <2>4 DEF Chargeable
    <3>2. PICK c \in Calls : /\ ReserveAdmits(c)
                             /\ row' = [row EXCEPT ![r] = Inserted(c, "started")]
      BY <3>1, OnlyAdmissionCharges
    <3>3. call[c].origin = o /\ call[c].day = d
      <4>1. row'[r] = Inserted(c, "started")
        BY <3>1, <3>2 DEF TypeInv, TypeOK
      <4>2. row'[r].origin = o /\ row'[r].asked = d
        BY DEF Chargeable
      <4> QED
        BY <4>1, <4>2 DEF Inserted
    <3>4. Cardinality(S) < Cap[o]
      BY <2>1, <3>2, <3>3 DEF ReserveAdmits
    <3>5. S' \subseteq S \cup {r}
      BY <2>2, <3>1, <3>2 DEF TypeInv, TypeOK, Chargeable
    <3>6. /\ IsFiniteSet(S \cup {r})
          /\ Cardinality(S \cup {r}) = Cardinality(S) + 1
      BY <2>1, <2>4, FS_AddElement
    <3>7. Cardinality(S') <= Cardinality(S) + 1 /\ Cardinality(S') \in Nat
      BY <3>5, <3>6, FS_Subset, FS_CardinalityType
    <3> QED
      BY <2>1, <3>4, <3>7
  <2> QED
    BY <2>3, <2>4
<1> QED
  BY <1>1, <1>2, InitTypeInv, NextTypeInv, PTL DEF Spec

-----------------------------------------------------------------------------
(* A live call keeps its row, when start times can be read *)

OwnsRow(c) == call[c].pc \in {"live", "closing"}

\* A running process recorded the start time of the pid it holds, and no two
\* processes hold one pid.
IdsAreCurrent ==
  /\ \A p \in Procs : Alive(p) => /\ proc[p].id.start # 0
                                 /\ os[proc[p].id.pid] = proc[p].id.start
  /\ \A p, q \in Procs : Alive(p) /\ Alive(q) /\ p # q => proc[p].id.pid # proc[q].id.pid

\* The row of a live call names the process that makes it, and no other call's.
RowsAreOwned ==
  /\ \A c \in Calls : OwnsRow(c) =>
       /\ row[call[c].row].st = "started"
       /\ row[call[c].row].owner = proc[call[c].proc].id
  /\ \A c, d \in Calls : OwnsRow(c) /\ OwnsRow(d) /\ c # d => call[c].row # call[d].row

OwnerInv == TypeInv /\ IdsAreCurrent /\ RowsAreOwned

LEMMA NextIdsAreCurrent ==
  ASSUME PsReadable, TypeInv, IdsAreCurrent, [Next]_vars
  PROVE  IdsAreCurrent'
<1> USE DEF TypeInv
<1>1. ASSUME NEW p \in Procs, Boot(p)
      PROVE  IdsAreCurrent'
  <2>1. PICK pid \in FreePids :
          /\ os' = [os EXCEPT ![pid] = boots + 1]
          /\ proc' = [proc EXCEPT ![p] =
               [up |-> "boot", id |-> [pid |-> pid, start |-> boots + 1]]]
    BY <1>1 DEF Boot
  <2>2. pid \in Pids /\ os[pid] = 0 /\ boots + 1 # 0
    BY DEF FreePids, TypeOK, Stamp
  <2>3. \A q \in Procs : q # p => proc'[q] = proc[q]
    BY <2>1
  <2>4. proc'[p].id = [pid |-> pid, start |-> boots + 1]
    BY <2>1 DEF TypeOK
  <2>5. \A q \in Procs : q # p /\ Alive(q) => proc[q].id.pid # pid
    BY <2>2 DEF IdsAreCurrent
  <2>6. \A q \in Procs : q # p /\ Alive(q) => os'[proc[q].id.pid] = os[proc[q].id.pid]
    BY <2>1, <2>5
  <2> QED
    BY <2>1, <2>2, <2>3, <2>4, <2>5, <2>6 DEF IdsAreCurrent, TypeOK, Alive
<1>2. ASSUME NEW p \in Procs, Exit(p)
      PROVE  IdsAreCurrent'
  <2>1. \A q \in Procs : Alive(q)' => q # p /\ Alive(q) /\ proc'[q] = proc[q]
    BY <1>2 DEF Exit, Alive, TypeOK, Down
  <2>2. \A q \in Procs : Alive(q)' => os'[proc[q].id.pid] = os[proc[q].id.pid]
    BY <1>2, <2>1 DEF Exit, IdsAreCurrent
  <2> QED
    BY <2>1, <2>2 DEF IdsAreCurrent
<1>3. ASSUME NEW p \in Procs, ReconcileBegins(p) \/ ReconcileOwner(p) \/ ReconcileFails(p)
      PROVE  IdsAreCurrent'
  <2>1. UNCHANGED os /\ Alive(p)
    BY <1>3 DEF ReconcileBegins, ReconcileOwner, ReconcileFails, Alive
  <2>2. \A q \in Procs : q # p => proc'[q] = proc[q]
    BY <1>3 DEF ReconcileBegins, ReconcileOwner, ReconcileFails, TypeOK
  <2>3. proc'[p].id = proc[p].id
    BY <1>3 DEF ReconcileBegins, ReconcileOwner, ReconcileFails, Reconciling, TypeOK
  <2> QED
    BY <2>1, <2>2, <2>3 DEF IdsAreCurrent, Alive
<1>4. CASE StrangerStarts
  <2>1. PICK pid \in FreePids : os' = [os EXCEPT ![pid] = boots + 1]
    BY <1>4 DEF StrangerStarts
  <2>2. UNCHANGED proc /\ os[pid] = 0
    BY <1>4 DEF StrangerStarts, FreePids
  <2>3. \A q \in Procs : Alive(q) => os'[proc[q].id.pid] = os[proc[q].id.pid]
    BY <2>1, <2>2 DEF IdsAreCurrent
  <2> QED
    BY <2>2, <2>3 DEF IdsAreCurrent, Alive
<1>5. CASE UNCHANGED <<os, proc>>
  BY <1>5 DEF IdsAreCurrent, Alive
<1> QED
  BY <1>1, <1>2, <1>3, <1>4, <1>5
     DEF Next, ProcStep, CallStep, vars, NewDay, ReserveAsks, ReserveCancelled, ReserveFails,
         ReserveAdmits, ReserveRefuses, Finish, FinishLost

\* owner_alive never says that the owner of a live call is dead: a running process
\* has the start time it recorded.
LEMMA LiveOwnerIsNotDead ==
  ASSUME TypeInv, IdsAreCurrent, NEW p \in Procs, NEW q \in Procs, Alive(p), Alive(q),
         NEW since
  PROVE  ~ SaysDead(p, proc[q].id, since)
BY DEF TypeInv, IdsAreCurrent, SaysDead

LEMMA NextRowsAreOwned ==
  ASSUME PsReadable, OwnerInv, [Next]_vars
  PROVE  RowsAreOwned'
<1> USE DEF OwnerInv, TypeInv
<1>0. \A c \in Calls : OwnsRow(c) =>
        /\ call[c] \in [pc : {"live", "closing"}, proc : Procs, row : Rows]
        /\ Alive(call[c].proc)
  BY DEF OwnsRow, TypeOK, CallState, Idle, CallsHaveProcs
<1>1. ASSUME NEW p \in Procs, Boot(p)
      PROVE  RowsAreOwned'
  <2>1. UNCHANGED <<call, row>> /\ ~Alive(p)
    BY <1>1 DEF Boot
  <2>2. \A q \in Procs : q # p => proc'[q] = proc[q]
    BY <1>1 DEF Boot, TypeOK
  <2> QED
    BY <1>0, <2>1, <2>2 DEF RowsAreOwned, OwnsRow
<1>2. ASSUME NEW p \in Procs, Exit(p)
      PROVE  RowsAreOwned'
  <2>1. UNCHANGED row
    BY <1>2 DEF Exit
  <2>2. \A c \in Calls : OwnsRow(c)' => OwnsRow(c) /\ call'[c] = call[c] /\ call[c].proc # p
    BY <1>2 DEF Exit, OwnsRow, Of, Idle, TypeOK
  <2>3. \A q \in Procs : q # p => proc'[q] = proc[q]
    BY <1>2 DEF Exit, TypeOK
  <2> QED
    BY <1>0, <2>1, <2>2, <2>3 DEF RowsAreOwned
<1>3. ASSUME NEW p \in Procs, ReconcileBegins(p) \/ ReconcileFails(p)
      PROVE  RowsAreOwned'
  <2>1. \A q \in Procs : proc'[q].id = proc[q].id
    BY <1>3 DEF ReconcileBegins, ReconcileFails, Reconciling, TypeOK
  <2> QED
    BY <1>0, <1>3, <2>1 DEF RowsAreOwned, OwnsRow, ReconcileBegins, ReconcileFails
<1>4. ASSUME NEW p \in Procs, ReconcileOwner(p)
      PROVE  RowsAreOwned'
  <2>1. PICK o \in proc[p].owners :
          \/ UNCHANGED row
          \/ /\ SaysDead(p, o.id, o.since)
             /\ row' = [r \in Rows |->
                          IF row[r].st = "started" /\ row[r].owner = o.id
                          THEN [row[r] EXCEPT !.st = "abandoned"]
                          ELSE row[r]]
    BY <1>4 DEF ReconcileOwner
  <2>2. UNCHANGED call /\ Alive(p)
    BY <1>4 DEF ReconcileOwner, Alive
  <2>3. \A q \in Procs : proc'[q].id = proc[q].id
    BY <1>4 DEF ReconcileOwner, Reconciling, TypeOK
  <2>4. ASSUME NEW c \in Calls, OwnsRow(c)
        PROVE  row'[call[c].row] = row[call[c].row]
    <3>1. row[call[c].row].owner = proc[call[c].proc].id
      BY <2>4 DEF RowsAreOwned
    <3>2. call[c].row \in Rows /\ call[c].proc \in Procs /\ Alive(call[c].proc)
      BY <1>0, <2>4
    <3>3. SaysDead(p, o.id, o.since) => row[call[c].row].owner # o.id
      BY <2>2, <3>1, <3>2, LiveOwnerIsNotDead
    <3> QED
      BY <2>1, <3>2, <3>3
  <2> QED
    BY <1>0, <2>2, <2>3, <2>4 DEF RowsAreOwned, OwnsRow
<1>5. ASSUME NEW c \in Calls, ReserveAdmits(c)
      PROVE  RowsAreOwned'
  <2>1. PICK r \in Rows :
          /\ row[r].st = "free"
          /\ row' = [row EXCEPT ![r] = Inserted(c, "started")]
          /\ call' = [call EXCEPT ![c] =
               [pc |-> IF call[c].pc = "asked" THEN "live" ELSE "closing",
                proc |-> call[c].proc, row |-> r]]
    BY <1>5 DEF ReserveAdmits
  <2>2. UNCHANGED proc
    BY <1>5 DEF ReserveAdmits
  <2>3. \A d \in Calls : d # c /\ OwnsRow(d)' =>
          /\ OwnsRow(d) /\ call'[d] = call[d]
          /\ call[d].row # r /\ row'[call[d].row] = row[call[d].row]
    BY <1>0, <2>1 DEF OwnsRow, RowsAreOwned, TypeOK
  <2>4. /\ call'[c].row = r /\ call'[c].proc = call[c].proc
        /\ row'[r].st = "started" /\ row'[r].owner = proc[call[c].proc].id
    BY <2>1 DEF Inserted, TypeOK
  <2> QED
    BY <2>2, <2>3, <2>4 DEF RowsAreOwned
<1>6. ASSUME NEW c \in Calls, ReserveRefuses(c)
      PROVE  RowsAreOwned'
  <2>1. \A d \in Calls : OwnsRow(d)' => OwnsRow(d) /\ call'[d] = call[d]
    BY <1>6 DEF ReserveRefuses, OwnsRow, Idle, TypeOK
  <2>2. \A d \in Calls : OwnsRow(d) => row'[call[d].row] = row[call[d].row]
    BY <1>0, <1>6 DEF ReserveRefuses, RowsAreOwned, TypeOK
  <2> QED
    BY <1>6, <2>1, <2>2 DEF ReserveRefuses, RowsAreOwned
<1>7. ASSUME NEW c \in Calls, Finish(c)
      PROVE  RowsAreOwned'
  <2>1. \A d \in Calls : OwnsRow(d)' => d # c /\ OwnsRow(d) /\ call'[d] = call[d]
    BY <1>7 DEF Finish, OwnsRow, Idle, TypeOK
  <2>2. \A d \in Calls : d # c /\ OwnsRow(d) => row'[call[d].row] = row[call[d].row]
    BY <1>0, <1>7 DEF Finish, OwnsRow, RowsAreOwned, TypeOK
  <2> QED
    BY <1>7, <2>1, <2>2 DEF Finish, RowsAreOwned
<1>8. ASSUME NEW c \in Calls,
             \/ \E p \in Procs, o \in Origins, k \in Callers : ReserveAsks(c, p, o, k)
             \/ ReserveCancelled(c) \/ ReserveFails(c) \/ FinishLost(c)
      PROVE  RowsAreOwned'
  <2>1. UNCHANGED <<proc, row>>
    BY <1>8 DEF ReserveAsks, ReserveCancelled, ReserveFails, FinishLost
  <2>2. \A d \in Calls : d # c => call'[d] = call[d]
    BY <1>8 DEF ReserveAsks, ReserveCancelled, ReserveFails, FinishLost, TypeOK
  <2>3. call'[c].pc \in {"asked", "orphaned", "idle"}
    <3>1. ASSUME ReserveCancelled(c)
          PROVE  call'[c].pc = "orphaned"
      <4>1. call[c] \in [pc : {"asked"}, proc : Procs, origin : Origins,
                         caller : Callers, day : Day]
        BY <3>1 DEF ReserveCancelled, TypeOK, CallState, Idle
      <4> QED
        BY <3>1, <4>1 DEF ReserveCancelled, TypeOK
    <3> QED
      BY <1>8, <3>1 DEF ReserveAsks, ReserveFails, FinishLost, Idle, TypeOK
  <2>4. \A d \in Calls : OwnsRow(d)' => OwnsRow(d) /\ call'[d] = call[d]
    BY <2>2, <2>3 DEF OwnsRow
  <2> QED
    BY <2>1, <2>4 DEF RowsAreOwned
<1>9. CASE UNCHANGED <<proc, call, row>>
  BY <1>9 DEF RowsAreOwned, OwnsRow
<1> QED
  BY <1>1, <1>2, <1>3, <1>4, <1>5, <1>6, <1>7, <1>8, <1>9
     DEF Next, ProcStep, CallStep, vars, NewDay, StrangerStarts

\* A live call is never abandoned (ledger.py:100-122), as long as the start time of
\* a running process can be read.  The run ledger_nostart shows it needs that.
THEOREM LiveCallsKeepTheirRows == PsReadable => (Spec => []LiveCallNeverAbandoned)
<1> SUFFICES ASSUME PsReadable
    PROVE  Spec => []LiveCallNeverAbandoned
  OBVIOUS
<1>1. Init => OwnerInv
  BY InitTypeInv DEF Init, OwnerInv, IdsAreCurrent, RowsAreOwned, OwnsRow, Alive, Idle, Down
<1>2. OwnerInv /\ [Next]_vars => OwnerInv'
  BY NextTypeInv, NextIdsAreCurrent, NextRowsAreOwned DEF OwnerInv
<1>3. OwnerInv => LiveCallNeverAbandoned
  BY DEF OwnerInv, RowsAreOwned, LiveCallNeverAbandoned, OwnsRow
<1> QED
  BY <1>1, <1>2, <1>3, PTL DEF Spec
-----------------------------------------------------------------------------
(* A reconcile leaves no row of a predecessor, whatever `ps` says *)

\* The pid of a running process is taken, by that process only.
PidsAreHeld ==
  /\ \A p \in Procs : Alive(p) => os[proc[p].id.pid] # 0
  /\ \A p, q \in Procs : Alive(p) /\ Alive(q) /\ p # q => proc[p].id.pid # proc[q].id.pid

\* A row that was started at the pid of p, by a process whose start time is known.
OfPid(p, r) ==
  /\ row[r].st = "started"
  /\ row[r].owner.pid = proc[p].id.pid /\ row[r].owner.start # 0

\* Since its reconcile began, such a row is p's own or still on its list of owners.
PredecessorsListed ==
  \A p \in Procs, r \in Rows :
    /\ proc[p].up \in {"reconciling", "ready"} /\ proc[p].id.start # 0
    /\ OfPid(p, r)
    => \/ row[r].owner = proc[p].id
       \/ /\ proc[p].up = "reconciling"
          /\ \E o \in proc[p].owners : o.id = row[r].owner

ReconcileInv == TypeInv /\ PidsAreHeld /\ PredecessorsListed

LEMMA NextPidsAreHeld ==
  ASSUME TypeInv, PidsAreHeld, [Next]_vars
  PROVE  PidsAreHeld'
<1> USE DEF TypeInv
<1>1. ASSUME NEW p \in Procs, Boot(p)
      PROVE  PidsAreHeld'
  <2>1. PICK pid \in FreePids, known \in BOOLEAN :
          /\ os' = [os EXCEPT ![pid] = boots + 1]
          /\ proc' = [proc EXCEPT ![p] =
                [up |-> "boot", id |-> [pid |-> pid, start |-> IF known THEN boots + 1 ELSE 0]]]
    BY <1>1 DEF Boot
  <2>2. pid \in Pids /\ os[pid] = 0 /\ boots + 1 # 0
    BY LedgerAssumption DEF FreePids, TypeOK, Stamp
  <2>3. \A q \in Procs : q # p => proc'[q] = proc[q]
    BY <2>1
  <2>4. proc'[p].id.pid = pid
    BY <2>1 DEF TypeOK
  <2>5. \A q \in Procs : q # p /\ Alive(q) =>
          proc[q].id.pid # pid /\ os'[proc[q].id.pid] = os[proc[q].id.pid]
    BY <2>1, <2>2 DEF PidsAreHeld
  <2>6. os'[pid] # 0
    BY <2>1, <2>2 DEF TypeOK
  <2> QED
    BY <2>3, <2>4, <2>5, <2>6 DEF PidsAreHeld, Alive
<1>2. ASSUME NEW p \in Procs, Exit(p)
      PROVE  PidsAreHeld'
  <2>1. \A q \in Procs : Alive(q)' => q # p /\ Alive(q) /\ proc'[q] = proc[q]
    BY <1>2 DEF Exit, Alive, TypeOK, Down
  <2>2. \A q \in Procs : Alive(q)' => os'[proc[q].id.pid] = os[proc[q].id.pid]
    BY <1>2, <2>1 DEF Exit, PidsAreHeld
  <2> QED
    BY <2>1, <2>2 DEF PidsAreHeld
<1>3. ASSUME NEW p \in Procs, ReconcileBegins(p) \/ ReconcileOwner(p) \/ ReconcileFails(p)
      PROVE  PidsAreHeld'
  <2>1. UNCHANGED os /\ Alive(p)
    BY <1>3 DEF ReconcileBegins, ReconcileOwner, ReconcileFails, Alive
  <2>2. \A q \in Procs : q # p => proc'[q] = proc[q]
    BY <1>3 DEF ReconcileBegins, ReconcileOwner, ReconcileFails, TypeOK
  <2>3. proc'[p].id = proc[p].id
    BY <1>3 DEF ReconcileBegins, ReconcileOwner, ReconcileFails, Reconciling, TypeOK
  <2> QED
    BY <2>1, <2>2, <2>3 DEF PidsAreHeld, Alive
<1>4. CASE StrangerStarts
  <2>1. PICK pid \in FreePids : os' = [os EXCEPT ![pid] = boots + 1]
    BY <1>4 DEF StrangerStarts
  <2>2. UNCHANGED proc /\ os[pid] = 0
    BY <1>4 DEF StrangerStarts, FreePids
  <2>3. \A q \in Procs : Alive(q) => os'[proc[q].id.pid] = os[proc[q].id.pid]
    BY <2>1, <2>2 DEF PidsAreHeld
  <2> QED
    BY <2>2, <2>3 DEF PidsAreHeld, Alive
<1>5. CASE UNCHANGED <<os, proc>>
  BY <1>5 DEF PidsAreHeld, Alive
<1> QED
  BY <1>1, <1>2, <1>3, <1>4, <1>5
     DEF Next, ProcStep, CallStep, vars, NewDay, ReserveAsks, ReserveCancelled, ReserveFails,
         ReserveAdmits, ReserveRefuses, Finish, FinishLost

\* A row that a step writes is owned by the process that makes the call, which runs.
LEMMA NewRowIsOfAliveProc ==
  ASSUME TypeInv, [Next]_vars, NEW r \in Rows, row[r].st = "free", row'[r].st # "free"
  PROVE  UNCHANGED proc /\ \E p \in Procs : Alive(p) /\ row'[r].owner = proc[p].id
<1> USE DEF TypeInv
<1>1. ~ \E p \in Procs : ReconcileOwner(p)
  BY DEF ReconcileOwner, TypeOK
<1>2. ~ \E c \in Calls : Finish(c)
  BY DEF Finish, Closed, TypeOK
<1>3. PICK c \in Calls : ReserveAdmits(c) \/ ReserveRefuses(c)
  BY <1>1, <1>2
     DEF Next, ProcStep, CallStep, vars, Boot, Exit, ReconcileBegins, ReconcileFails,
         StrangerStarts, NewDay, ReserveAsks, ReserveCancelled, ReserveFails, FinishLost
<1>4. call[c].proc \in Procs /\ Alive(call[c].proc)
  <2>1. call[c] \in [pc : {"asked", "orphaned"}, proc : Procs, origin : Origins,
                     caller : Callers, day : Day]
    BY <1>3 DEF ReserveAdmits, ReserveRefuses, TypeOK, CallState, Idle
  <2> QED
    BY <2>1 DEF CallsHaveProcs
<1>5. row'[r] \in {Inserted(c, "started"), Inserted(c, "refused")}
  BY <1>3 DEF ReserveAdmits, ReserveRefuses, TypeOK
<1>6. row'[r].owner = proc[call[c].proc].id
  BY <1>5 DEF Inserted
<1> QED
  BY <1>3, <1>4, <1>6 DEF ReserveAdmits, ReserveRefuses

\* A row that is started after a step was started before it with the same owner, or is new.
LEMMA StartedRowStep ==
  ASSUME TypeInv, [Next]_vars, NEW r \in Rows, row'[r].st = "started", row[r].st # "free"
  PROVE  row'[r] = row[r]
<1>1. ASSUME NEW st \in {"closed", "abandoned"}, row[r].st = "started"
      PROVE  [row[r] EXCEPT !.st = st].st = st
  BY DEF TypeInv, TypeOK, RowState, Free
<1> QED
  BY <1>1, RowStep

LEMMA NextPredecessorsListed ==
  ASSUME ReconcileInv, [Next]_vars
  PROVE  PredecessorsListed'
<1> USE DEF ReconcileInv, TypeInv
<1> SUFFICES ASSUME NEW p \in Procs, NEW r \in Rows,
                    proc'[p].up \in {"reconciling", "ready"}, proc'[p].id.start # 0, OfPid(p, r)'
             PROVE  \/ row'[r].owner = proc'[p].id
                    \/ /\ proc'[p].up = "reconciling"
                       /\ \E o \in proc'[p].owners : o.id = row'[r].owner
  BY DEF PredecessorsListed
<1>1. CASE row[r].st = "free"
  <2>1. PICK q \in Procs : Alive(q) /\ row'[r].owner = proc[q].id
    BY <1>1, NewRowIsOfAliveProc DEF OfPid
  <2>2. UNCHANGED proc
    BY <1>1, NewRowIsOfAliveProc DEF OfPid
  <2>3. Alive(p)
    BY <2>2 DEF Alive
  <2> QED
    BY <2>1, <2>2, <2>3 DEF OfPid, PidsAreHeld
<1>2. CASE row[r].st # "free"
  <2>0. row'[r] = row[r] /\ row[r].st = "started"
    BY <1>2, StartedRowStep DEF OfPid
  <2>1. CASE proc'[p] = proc[p]
    BY <2>0, <2>1 DEF OfPid, PredecessorsListed
  <2>2. ASSUME ReconcileBegins(p)
        PROVE  /\ proc'[p].up = "reconciling"
               /\ \E o \in proc'[p].owners : o.id = row'[r].owner
    <3> DEFINE owners == OwnersOf({s \in Rows : row[s].st = "started"})
    <3>1. \E o \in owners : o.id = row[r].owner
      <4> DEFINE started == {s \in Rows : row[s].st = "started"}
      <4>1. r \in started BY <2>0
      <4> HIDE DEF started
      <4>2. \E o \in OwnersOf(started) : o.id = row[r].owner
        <5> DEFINE since == CHOOSE d \in Day :
                     /\ \E s \in started : row[s].owner = row[r].owner /\ row[s].day = d
                     /\ \A s \in started : row[s].owner = row[r].owner => d <= row[s].day
        <5>1. [id |-> row[r].owner, since |-> since] \in OwnersOf(started)
          BY <4>1, Zenon DEF OwnersOf
        <5> HIDE DEF since
        <5> QED BY <5>1
      <4> QED BY <4>2 DEF started
    <3>2. proc'[p] = Reconciling(proc[p].id, owners)
      BY <2>2 DEF ReconcileBegins, TypeOK
    <3> HIDE DEF owners
    <3>3. owners # {} BY <3>1
    <3> QED
      BY <2>0, <3>1, <3>2, <3>3 DEF Reconciling
  <2>3. ASSUME ReconcileOwner(p)
        PROVE  \/ row'[r].owner = proc'[p].id
               \/ /\ proc'[p].up = "reconciling"
                  /\ \E o \in proc'[p].owners : o.id = row'[r].owner
    <3>1. PICK o \in proc[p].owners :
            /\ proc' = [proc EXCEPT ![p] = Reconciling(@.id, @.owners \ {o})]
            /\ \/ SaysAlive(p, o.id, o.since)
               \/ row' = [s \in Rows |->
                            IF row[s].st = "started" /\ row[s].owner = o.id
                            THEN [row[s] EXCEPT !.st = "abandoned"]
                            ELSE row[s]]
      BY <2>3 DEF ReconcileOwner
    <3>2. proc'[p] = Reconciling(proc[p].id, proc[p].owners \ {o})
      BY <3>1 DEF TypeOK
    <3>3. proc'[p].id = proc[p].id /\ proc[p].up = "reconciling"
      BY <2>3, <3>2 DEF Reconciling, ReconcileOwner
    <3>4. row[r].owner = proc[p].id \/ \E x \in proc[p].owners : x.id = row[r].owner
      BY <2>0, <3>3 DEF OfPid, PredecessorsListed
    <3>5. ASSUME row[r].owner # proc[p].id, row[r].owner = o.id
          PROVE  FALSE
      <4>1. row[r].owner \in Owner /\ proc[p].id \in Owner
        BY <2>0, <3>3 DEF TypeOK, RowState, Free, ProcState, Down
      <4>2. SaysDead(p, o.id, o.since)
        BY <2>0, <3>3, <3>5, <4>1 DEF SaysDead, OfPid, Owner
      <4>3. ~SaysAlive(p, o.id, o.since)
        BY <2>0, <3>3, <3>5, <4>2 DEF SaysAlive, OfPid
      <4>4. row'[r] = [row[r] EXCEPT !.st = "abandoned"]
        BY <2>0, <3>1, <3>5, <4>3
      <4>5. row'[r].st = "abandoned"
        BY <1>2, <4>4 DEF TypeOK, RowState, Free
      <4> QED
        BY <4>5 DEF OfPid
    <3>6. CASE row[r].owner = proc[p].id
      BY <2>0, <3>3, <3>6
    <3>7. CASE row[r].owner # proc[p].id
      <4>1. PICK x \in proc[p].owners \ {o} : x.id = row[r].owner
        BY <3>4, <3>5, <3>7
      <4>2. /\ Reconciling(proc[p].id, proc[p].owners \ {o}).up = "reconciling"
            /\ Reconciling(proc[p].id, proc[p].owners \ {o}).owners = proc[p].owners \ {o}
        BY <4>1 DEF Reconciling
      <4> QED
        BY <2>0, <3>2, <4>1, <4>2
    <3> QED
      BY <3>6, <3>7
  <2>4. proc'[p] = proc[p] \/ ReconcileBegins(p) \/ ReconcileOwner(p)
    <3>1. ASSUME NEW q \in Procs, Boot(q) PROVE proc'[p] = proc[p]
      BY <3>1 DEF Boot, TypeOK
    <3>2. ASSUME NEW q \in Procs, Exit(q) PROVE proc'[p] = proc[p]
      BY <3>2 DEF Exit, TypeOK, Down
    <3>3. ASSUME NEW q \in Procs, ReconcileBegins(q) PROVE q = p \/ proc'[p] = proc[p]
      BY <3>3 DEF ReconcileBegins, TypeOK
    <3>4. ASSUME NEW q \in Procs, ReconcileOwner(q) PROVE q = p \/ proc'[p] = proc[p]
      BY <3>4 DEF ReconcileOwner, TypeOK
    <3>5. ASSUME NEW q \in Procs, ReconcileFails(q) PROVE proc'[p] = proc[p]
      BY <3>5 DEF ReconcileFails, TypeOK
    <3> QED
      BY <3>1, <3>2, <3>3, <3>4, <3>5
         DEF Next, ProcStep, CallStep, vars, StrangerStarts, NewDay, ReserveAsks, ReserveCancelled,
             ReserveFails, ReserveAdmits, ReserveRefuses, Finish, FinishLost
  <2> QED
    BY <2>1, <2>2, <2>3, <2>4
<1> QED
  BY <1>1, <1>2

\* What a dead process left started at a pid is closed by the next one there before it is
\* ready (ledger.py:105-112): no assumption on `ps`, which is not asked about one's own pid.
THEOREM PredecessorsAreClosed == Spec => []PredecessorsRowsClosed
<1>1. Init => ReconcileInv
  BY InitTypeInv DEF Init, ReconcileInv, PidsAreHeld, PredecessorsListed, Alive, Down
<1>2. ReconcileInv /\ [Next]_vars => ReconcileInv'
  BY NextTypeInv, NextPidsAreHeld, NextPredecessorsListed DEF ReconcileInv
<1>3. ReconcileInv => PredecessorsRowsClosed
  BY DEF ReconcileInv, PredecessorsListed, PredecessorsRowsClosed, OfPid
<1> QED
  BY <1>1, <1>2, <1>3, PTL DEF Spec

-----------------------------------------------------------------------------
(* One call on the CLI and its children (Supervise), for any number of     *)
(* calls, chunks and faults                                                *)

Forcing == {EXIT_OWNER_GONE, EXIT_DEADLINE}
WithChild == {"watching", "terming", "killing", "draining", "joining"}

\* The group is there from StartsChild on, is seen to be gone or is reported, and an owner
\* that is done has waited for its supervisor.
GroupIsWatched(c) ==
  /\ cli[c].at = "idle" => sup[c].at = None
  /\ sup[c].at \in {None, "starting", "ready"} => group[c].in = {} /\ ~sup[c].gone
  /\ sup[c].gone => group[c].in = {}
  /\ sup[c].at = "exited" => group[c].in = {} \/ sup[c].code = EXIT_KILL_FAILED
  /\ sup[c].at = "reaped" => group[c].in = {} \/ sup[c].stalled
  /\ cli[c].at = "done" /\ ~cli[c].cut => Ended(c) \/ sup[c].at = None

\* While its owner lives, a relay that has ended has relayed all; a supervisor says 0 only
\* of such a relay, and an owner waits for it only after it has read what was relayed.
OutputIsRelayed(c) ==
  /\ sup[c].forced \in Forcing \cup {NoCode}
  /\ sup[c].at = "joining" => sup[c].forced # NoCode
  /\ alive /\ sup[c].at \in WithChild /\ ~relay[c].on => group[c].in = {} /\ relay[c].sent = group[c].said
  /\ alive /\ sup[c].at = "exited" /\ sup[c].code = 0 => group[c].in = {} /\ relay[c].sent = group[c].said
  /\ cli[c].at = "waiting" => Ended(c) /\ cli[c].read = relay[c].sent
  /\ cli[c].outcome = "ok" =>
       cli[c].at = "done" /\ sup[c].at = "exited" /\ group[c].in = {} /\ cli[c].read = group[c].said

CallOK(c) == GroupIsWatched(c) /\ OutputIsRelayed(c)

SuperviseInv == SuperviseTypeOK /\ \A c \in CliCalls : CallOK(c)

LEMMA StateTypes ==
  ASSUME SuperviseTypeOK, NEW c \in CliCalls
  PROVE  cli[c] \in CliState /\ sup[c] \in SupState /\ group[c] \in GroupState /\ relay[c] \in RelayState
BY DEF SuperviseTypeOK

\* Whatever a supervisor exits with is one of its codes.
LEMMA ExitsOK ==
  ASSUME SuperviseTypeOK, NEW c \in CliCalls, NEW f \in Codes \cup {NoCode}, Exits(c, f)
  PROVE  sup' \in [CliCalls -> SupState]
<1> USE DEF InCall, Outcomes, Running, Codes, None, NoCode, EXIT_DEADLINE, EXIT_OWNER_GONE, EXIT_CANNOT_START, EXIT_KILL_FAILED
<1>1. sup[c] \in SupState /\ group[c] \in GroupState BY StateTypes
<1>2. ExitCode(c, f) \in Codes BY <1>1 DEF GroupState, ExitCode
<1> DEFINE x == [sup[c] EXCEPT !.at = "exited", !.code = ExitCode(c, f)]
<1>3. x \in SupState BY <1>1, <1>2 DEF SupState
<1>4. sup' = [sup EXCEPT ![c] = x] BY DEF Exits, SuperviseTypeOK
<1> HIDE DEF x
<1> QED BY <1>3, <1>4 DEF SuperviseTypeOK

\* A step of one call that keeps what is said of it, and touches no other.
StepOK(c) ==
  /\ SuperviseTypeOK' /\ CallOK(c)' /\ alive' = alive
  /\ \A d \in CliCalls : d # c => /\ cli'[d] = cli[d] /\ sup'[d] = sup[d]
                                  /\ group'[d] = group[d] /\ relay'[d] = relay[d]

-----------------------------------------------------------------------------

LEMMA OneCallMoves ==
  ASSUME SuperviseInv, NEW c \in CliCalls, StepOK(c)
  PROVE  SuperviseInv'
<1>1. \A d \in CliCalls : d # c => CallOK(d)'
  BY DEF SuperviseInv, StepOK, CallOK, GroupIsWatched, OutputIsRelayed, Ended
<1> QED BY <1>1 DEF SuperviseInv, StepOK

LEMMA SpawnOK ==
  ASSUME SuperviseInv, NEW c \in CliCalls, SpawnCLI(c)
  PROVE  StepOK(c)
<1> USE SuperviseAssumption DEF InCall, Outcomes, Running, Codes, None, NoCode, EXIT_DEADLINE, EXIT_OWNER_GONE, EXIT_CANNOT_START, EXIT_KILL_FAILED
<1>0. SuperviseTypeOK BY DEF SuperviseInv
<1>a. cli[c] \in CliState /\ sup[c] \in SupState /\ group[c] \in GroupState /\ relay[c] \in RelayState
  BY <1>0, StateTypes
<1>1. cli' \in [CliCalls -> CliState]
  BY <1>0 DEF SuperviseTypeOK, CliState, SpawnCLI
<1>2. sup' \in [CliCalls -> SupState]
  <2>1. [sup[c] EXCEPT !.at = "starting"] \in SupState
    BY <1>a DEF SupState
  <2> QED BY <1>0, <2>1 DEF SuperviseTypeOK, SpawnCLI
<1>3. SuperviseTypeOK'
  BY <1>0, <1>1, <1>2 DEF SuperviseTypeOK, SpawnCLI
<1>4. CallOK(c)'
  BY <1>0 DEF SuperviseInv, SuperviseTypeOK, CliState, SupState, CallOK, GroupIsWatched, OutputIsRelayed, Forcing, WithChild, Ended, SpawnCLI
<1> QED BY <1>0, <1>3, <1>4 DEF StepOK, SuperviseTypeOK, SpawnCLI

LEMMA SpawnFailsOK ==
  ASSUME SuperviseInv, NEW c \in CliCalls, SpawnFails(c) \/ Spawned(c) \/ Sends(c)
  PROVE  StepOK(c)
<1> USE SuperviseAssumption DEF InCall, Outcomes, Running, Codes, None, NoCode, EXIT_DEADLINE, EXIT_OWNER_GONE, EXIT_CANNOT_START, EXIT_KILL_FAILED
<1>0. SuperviseTypeOK BY DEF SuperviseInv
<1>a. cli[c] \in CliState /\ sup[c] \in SupState /\ group[c] \in GroupState /\ relay[c] \in RelayState
  BY <1>0, StateTypes
<1>1. cli' \in [CliCalls -> CliState]
  <2>1. [cli[c] EXCEPT !.at = "done", !.outcome = "error"] \in CliState
    BY <1>a DEF CliState, RelayState
  <2>2. [cli[c] EXCEPT !.at = "sending"] \in CliState
    BY <1>a DEF CliState, RelayState
  <2>3. [cli[c] EXCEPT !.at = "reading"] \in CliState
    BY <1>a DEF CliState, RelayState
  <2> QED BY <1>0, <2>1, <2>2, <2>3 DEF SuperviseTypeOK, SpawnFails, Spawned, Sends
<1>2. SuperviseTypeOK'
  BY <1>0, <1>1 DEF SuperviseTypeOK, SpawnFails, Spawned, Sends
<1>3. CallOK(c)'
  BY <1>0 DEF SuperviseInv, SuperviseTypeOK, CliState, CallOK, GroupIsWatched, OutputIsRelayed, Forcing, WithChild, Ended, SpawnFails, Spawned, Sends
<1> QED BY <1>0, <1>2, <1>3 DEF StepOK, SuperviseTypeOK, SpawnFails, Spawned, Sends

LEMMA SpawnCancelledOK ==
  ASSUME SuperviseInv, NEW c \in CliCalls, SpawnCancelled(c)
  PROVE  StepOK(c)
<1> USE SuperviseAssumption DEF InCall, Outcomes, Running, Codes, None, NoCode, EXIT_DEADLINE, EXIT_OWNER_GONE, EXIT_CANNOT_START, EXIT_KILL_FAILED
<1>0. SuperviseTypeOK BY DEF SuperviseInv
<1>a. cli[c] \in CliState /\ sup[c] \in SupState /\ group[c] \in GroupState /\ relay[c] \in RelayState
  BY <1>0, StateTypes
<1>1. cli' \in [CliCalls -> CliState]
  <2>1. [cli[c] EXCEPT !.at = "done", !.outcome = "cancelled"] \in CliState
    BY <1>a DEF CliState, RelayState
  <2> QED BY <1>0, <2>1 DEF SuperviseTypeOK, SpawnCancelled
<1>2. sup' \in [CliCalls -> SupState]
  <2>1. [sup[c] EXCEPT !.at = "dropped"] \in SupState
    BY <1>a DEF SupState
  <2>2. [sup[c] EXCEPT !.at = sup[c].at] \in SupState
    BY <1>a DEF SupState
  <2> QED BY <1>0, <2>1, <2>2 DEF SuperviseTypeOK, SpawnCancelled
<1>3. SuperviseTypeOK'
  BY <1>0, <1>1, <1>2 DEF SuperviseTypeOK, SpawnCancelled
<1>4. CallOK(c)'
  BY <1>0 DEF SuperviseInv, SuperviseTypeOK, CliState, SupState, CallOK, GroupIsWatched, OutputIsRelayed, Forcing, WithChild, Ended, SpawnCancelled
<1> QED BY <1>0, <1>3, <1>4 DEF StepOK, SuperviseTypeOK, SpawnCancelled

\* reap is entered from anywhere in the call; only a supervisor that has exited is not waited
\* for, and "ok" is said only after all was read that a supervisor that said 0 has relayed.
LEMMA ReapOK ==
  ASSUME SuperviseInv, NEW c \in CliCalls, NEW outcome \in Outcomes, Reap(c, outcome),
         alive, cli[c].at \in InCall, UNCHANGED <<alive, group, relay, overdue, faults>>,
         outcome = "ok" => cli[c].at = "waiting" /\ sup[c].at = "exited" /\ sup[c].code = 0
  PROVE  StepOK(c)
<1> USE DEF InCall, Outcomes, Running, Codes, None, NoCode, EXIT_DEADLINE, EXIT_OWNER_GONE, EXIT_CANNOT_START, EXIT_KILL_FAILED
<1>0. SuperviseTypeOK BY DEF SuperviseInv
<1>a. cli[c] \in CliState /\ sup[c] \in SupState BY <1>0, StateTypes
<1>1. CASE Ended(c) /\ HangsUp(c, outcome) /\ UNCHANGED sup
  <2>3. [cli[c] EXCEPT !.at = "done", !.outcome = outcome] \in CliState BY <1>a DEF CliState
  <2>0. cli' \in [CliCalls -> CliState] BY <1>0, <1>1, <2>3 DEF SuperviseTypeOK, HangsUp
  <2>1. SuperviseTypeOK' BY <1>0, <1>1, <2>0 DEF SuperviseTypeOK, HangsUp
  <2>2. CallOK(c)' BY <1>0, <1>1 DEF SuperviseInv, SuperviseTypeOK, CliState, HangsUp, CallOK, GroupIsWatched, OutputIsRelayed, Forcing, WithChild, Ended
  <2> QED BY <1>1, <2>1, <2>2 DEF StepOK, HangsUp, SuperviseInv, SuperviseTypeOK
<1>2. CASE /\ ~Ended(c)
           /\ cli' = [cli EXCEPT ![c].at = "reaping", ![c].outcome = outcome]
           /\ sup' = [sup EXCEPT ![c] = Terminated(@)]
           /\ UNCHANGED pipe
  <2>4. [cli[c] EXCEPT !.at = "reaping", !.outcome = outcome] \in CliState BY <1>a DEF CliState
  <2>0. cli' \in [CliCalls -> CliState] BY <1>0, <1>2, <2>4 DEF SuperviseTypeOK
  <2>5. [sup[c] EXCEPT !.at = "reaped"] \in SupState /\ [sup[c] EXCEPT !.stop = TRUE] \in SupState
    BY <1>a DEF SupState
  <2>1. sup' \in [CliCalls -> SupState] BY <1>0, <1>2, <2>5 DEF SuperviseTypeOK, Terminated
  <2>3. SuperviseTypeOK' BY <1>0, <1>2, <2>0, <2>1 DEF SuperviseTypeOK
  <2>2. CallOK(c)' BY <1>0, <1>2 DEF SuperviseInv, SuperviseTypeOK, CliState, SupState, Terminated, CallOK, GroupIsWatched, OutputIsRelayed, Forcing, WithChild, Ended
  <2> QED BY <1>2, <2>3, <2>2 DEF StepOK, Terminated, SuperviseInv, SuperviseTypeOK
<1> QED BY <1>1, <1>2 DEF Reap

LEMMA EndsInReapOK ==
  ASSUME SuperviseInv, NEW c \in CliCalls, SendFails(c) \/ Concludes(c) \/ TimesOut(c) \/ Interrupted(c)
  PROVE  StepOK(c)
<1>1. CASE SendFails(c) BY <1>1, ReapOK DEF SendFails, InCall, Outcomes
<1>2. CASE Concludes(c) BY <1>2, ReapOK DEF Concludes, InCall, Outcomes
<1>3. CASE TimesOut(c) BY <1>3, ReapOK DEF TimesOut, Outcomes
<1>4. CASE Interrupted(c) BY <1>4, ReapOK DEF Interrupted, InCall, Outcomes
<1> QED BY <1>1, <1>2, <1>3, <1>4

\* End of file comes when the supervisor and its relay are gone, after what they relayed.
LEMMA ReadsOK ==
  ASSUME SuperviseInv, NEW c \in CliCalls, Reads(c)
  PROVE  StepOK(c)
<1> USE SuperviseAssumption DEF InCall, Outcomes, Running, Codes, None, NoCode, EXIT_DEADLINE, EXIT_OWNER_GONE, EXIT_CANNOT_START, EXIT_KILL_FAILED
<1>0. SuperviseTypeOK BY DEF SuperviseInv
<1>a. cli[c] \in CliState /\ sup[c] \in SupState /\ group[c] \in GroupState /\ relay[c] \in RelayState
  BY <1>0, StateTypes
<1>1. cli' \in [CliCalls -> CliState]
  <2>1. [cli[c] EXCEPT !.at = "waiting"] \in CliState
    BY <1>a DEF CliState, RelayState
  <2>2. cli[c].read < relay[c].sent => cli[c].read + 1 \in 0..MaxOut
    BY <1>a DEF CliState, RelayState
  <2>3. \A n \in 0..MaxOut : [cli[c] EXCEPT !.read = n] \in CliState
    BY <1>a DEF CliState, RelayState
  <2> QED BY <1>0, <2>1, <2>2, <2>3 DEF SuperviseTypeOK, Reads
<1>2. SuperviseTypeOK'
  BY <1>0, <1>1 DEF SuperviseTypeOK, Reads
<1>3. CallOK(c)'
  BY <1>0 DEF SuperviseInv, SuperviseTypeOK, CliState, CallOK, GroupIsWatched, OutputIsRelayed, Forcing, WithChild, Ended, Reads
<1> QED BY <1>0, <1>2, <1>3 DEF StepOK, SuperviseTypeOK, Reads

LEMMA ReapedOK ==
  ASSUME SuperviseInv, NEW c \in CliCalls, Reaped(c)
  PROVE  StepOK(c)
<1> USE SuperviseAssumption DEF InCall, Outcomes, Running, Codes, None, NoCode, EXIT_DEADLINE, EXIT_OWNER_GONE, EXIT_CANNOT_START, EXIT_KILL_FAILED
<1>0. SuperviseTypeOK BY DEF SuperviseInv
<1>a. cli[c] \in CliState /\ sup[c] \in SupState /\ group[c] \in GroupState /\ relay[c] \in RelayState
  BY <1>0, StateTypes
<1>1. cli' \in [CliCalls -> CliState]
  <2>1. [cli[c] EXCEPT !.at = "done", !.outcome = cli[c].outcome] \in CliState
    BY <1>a DEF CliState, RelayState
  <2> QED BY <1>0, <2>1 DEF SuperviseTypeOK, Reaped, HangsUp
<1>2. SuperviseTypeOK'
  BY <1>0, <1>1 DEF SuperviseTypeOK, Reaped, HangsUp
<1>3. CallOK(c)'
  BY <1>0 DEF SuperviseInv, SuperviseTypeOK, CliState, CallOK, GroupIsWatched, OutputIsRelayed, Forcing, WithChild, Ended, Reaped, HangsUp
<1> QED BY <1>0, <1>2, <1>3 DEF StepOK, SuperviseTypeOK, Reaped, HangsUp

LEMMA ReapTimesOutOK ==
  ASSUME SuperviseInv, NEW c \in CliCalls, ReapTimesOut(c)
  PROVE  StepOK(c)
<1> USE SuperviseAssumption DEF InCall, Outcomes, Running, Codes, None, NoCode, EXIT_DEADLINE, EXIT_OWNER_GONE, EXIT_CANNOT_START, EXIT_KILL_FAILED
<1>0. SuperviseTypeOK BY DEF SuperviseInv
<1>a. cli[c] \in CliState /\ sup[c] \in SupState /\ group[c] \in GroupState /\ relay[c] \in RelayState
  BY <1>0, StateTypes
<1>1. sup' \in [CliCalls -> SupState]
  <2>1. [sup[c] EXCEPT !.at = "reaped"] \in SupState BY <1>a DEF SupState
  <2> QED BY <1>0, <2>1 DEF SuperviseTypeOK, ReapTimesOut
<1>2. SuperviseTypeOK'
  BY <1>0, <1>1 DEF SuperviseTypeOK, ReapTimesOut
<1>3. CallOK(c)'
  BY <1>0 DEF SuperviseInv, SuperviseTypeOK, SupState, CallOK, GroupIsWatched, OutputIsRelayed, Forcing, WithChild, Ended, ReapTimesOut
<1> QED BY <1>0, <1>2, <1>3 DEF StepOK, SuperviseTypeOK, ReapTimesOut

LEMMA ReapCancelledOK ==
  ASSUME SuperviseInv, NEW c \in CliCalls, ReapCancelled(c)
  PROVE  StepOK(c)
<1> USE SuperviseAssumption DEF InCall, Outcomes, Running, Codes, None, NoCode, EXIT_DEADLINE, EXIT_OWNER_GONE, EXIT_CANNOT_START, EXIT_KILL_FAILED
<1>0. SuperviseTypeOK BY DEF SuperviseInv
<1>a. cli[c] \in CliState /\ sup[c] \in SupState /\ group[c] \in GroupState /\ relay[c] \in RelayState
  BY <1>0, StateTypes
<1>1. cli' \in [CliCalls -> CliState]
  <2>1. [cli[c] EXCEPT !.at = "done", !.outcome = "cancelled", !.cut = TRUE] \in CliState
    BY <1>a DEF CliState, RelayState
  <2> QED BY <1>0, <2>1 DEF SuperviseTypeOK, ReapCancelled
<1>2. SuperviseTypeOK'
  BY <1>0, <1>1 DEF SuperviseTypeOK, ReapCancelled
<1>3. CallOK(c)'
  BY <1>0 DEF SuperviseInv, SuperviseTypeOK, CliState, CallOK, GroupIsWatched, OutputIsRelayed, Forcing, WithChild, Ended, ReapCancelled
<1> QED BY <1>0, <1>2, <1>3 DEF StepOK, SuperviseTypeOK, ReapCancelled

LEMMA InstallsOK ==
  ASSUME SuperviseInv, NEW c \in CliCalls, InstallsHandlers(c)
  PROVE  StepOK(c)
<1> USE SuperviseAssumption DEF InCall, Outcomes, Running, Codes, None, NoCode, EXIT_DEADLINE, EXIT_OWNER_GONE, EXIT_CANNOT_START, EXIT_KILL_FAILED
<1>0. SuperviseTypeOK BY DEF SuperviseInv
<1>a. cli[c] \in CliState /\ sup[c] \in SupState /\ group[c] \in GroupState /\ relay[c] \in RelayState
  BY <1>0, StateTypes
<1>1. sup' \in [CliCalls -> SupState]
  BY <1>0 DEF SuperviseTypeOK, SupState, InstallsHandlers, Runs
<1>2. SuperviseTypeOK'
  BY <1>0, <1>1 DEF SuperviseTypeOK, InstallsHandlers, Runs
<1>3. CallOK(c)'
  BY <1>0 DEF SuperviseInv, SuperviseTypeOK, SupState, CallOK, GroupIsWatched, OutputIsRelayed, Forcing, WithChild, Ended, InstallsHandlers, Runs
<1> QED BY <1>0, <1>2, <1>3 DEF StepOK, SuperviseTypeOK, InstallsHandlers, Runs

LEMMA StartsChildOK ==
  ASSUME SuperviseInv, NEW c \in CliCalls, StartsChild(c)
  PROVE  StepOK(c)
<1> USE SuperviseAssumption DEF InCall, Outcomes, Running, Codes, None, NoCode, EXIT_DEADLINE, EXIT_OWNER_GONE, EXIT_CANNOT_START, EXIT_KILL_FAILED
<1>0. SuperviseTypeOK BY DEF SuperviseInv
<1>a. cli[c] \in CliState /\ sup[c] \in SupState /\ group[c] \in GroupState /\ relay[c] \in RelayState
  BY <1>0, StateTypes
<1>1. sup' \in [CliCalls -> SupState]
  BY <1>0 DEF SuperviseTypeOK, SupState, StartsChild, Runs, Members
<1>2. group' \in [CliCalls -> GroupState]
  BY <1>0 DEF SuperviseTypeOK, GroupState, StartsChild, Runs, Members
<1>3. relay' \in [CliCalls -> RelayState]
  BY <1>0 DEF SuperviseTypeOK, RelayState, StartsChild, Runs, Members
<1>4. SuperviseTypeOK'
  BY <1>0, <1>1, <1>2, <1>3 DEF SuperviseTypeOK, StartsChild, Runs, Members
<1>5. CallOK(c)'
  BY <1>0 DEF SuperviseInv, SuperviseTypeOK, SupState, GroupState, RelayState, CallOK, GroupIsWatched, OutputIsRelayed, Forcing, WithChild, Ended, StartsChild, Runs, Members
<1> QED BY <1>0, <1>4, <1>5 DEF StepOK, SuperviseTypeOK, StartsChild, Runs, Members

LEMMA CannotStartOK ==
  ASSUME SuperviseInv, NEW c \in CliCalls, CannotStart(c)
  PROVE  StepOK(c)
<1> USE SuperviseAssumption DEF InCall, Outcomes, Running, Codes, None, NoCode, EXIT_DEADLINE, EXIT_OWNER_GONE, EXIT_CANNOT_START, EXIT_KILL_FAILED
<1>0. SuperviseTypeOK BY DEF SuperviseInv
<1>a. cli[c] \in CliState /\ sup[c] \in SupState /\ group[c] \in GroupState /\ relay[c] \in RelayState
  BY <1>0, StateTypes
<1>1. sup' \in [CliCalls -> SupState]
  <2>1. \A code \in Codes : [sup[c] EXCEPT !.at = "exited", !.code = code] \in SupState
    BY <1>a DEF SupState
  <2> QED BY <1>0, <2>1 DEF SuperviseTypeOK, CannotStart, Runs
<1>2. SuperviseTypeOK'
  BY <1>0, <1>1 DEF SuperviseTypeOK, CannotStart, Runs
<1>3. CallOK(c)'
  BY <1>0 DEF SuperviseInv, SuperviseTypeOK, SupState, CallOK, GroupIsWatched, OutputIsRelayed, Forcing, WithChild, Ended, CannotStart, Runs
<1> QED BY <1>0, <1>2, <1>3 DEF StepOK, SuperviseTypeOK, CannotStart, Runs

LEMMA WatchesOK ==
  ASSUME SuperviseInv, NEW c \in CliCalls, Watches(c)
  PROVE  StepOK(c)
<1> USE SuperviseAssumption DEF InCall, Outcomes, Running, Codes, None, NoCode, EXIT_DEADLINE, EXIT_OWNER_GONE, EXIT_CANNOT_START, EXIT_KILL_FAILED
<1>0. SuperviseTypeOK BY DEF SuperviseInv
<1>a. cli[c] \in CliState /\ sup[c] \in SupState /\ group[c] \in GroupState /\ relay[c] \in RelayState
  BY <1>0, StateTypes
<1>1. sup' \in [CliCalls -> SupState]
  <2>1. [sup[c] EXCEPT !.at = "terming"] \in SupState
    BY <1>a DEF SupState
  <2>2. \A f \in Codes : [sup[c] EXCEPT !.at = "terming", !.forced = f] \in SupState
    BY <1>a DEF SupState
  <2> QED BY <1>0, <2>1, <2>2 DEF SuperviseTypeOK, Watches, Runs, Forced
<1>2. SuperviseTypeOK'
  BY <1>0, <1>1 DEF SuperviseTypeOK, Watches, Runs, Forced
<1>3. CallOK(c)'
  BY <1>0 DEF SuperviseInv, SuperviseTypeOK, SupState, CallOK, GroupIsWatched, OutputIsRelayed, Forcing, WithChild, Ended, Watches, Runs, Forced
<1> QED BY <1>0, <1>2, <1>3 DEF StepOK, SuperviseTypeOK, Watches, Runs, Forced

LEMMA GroupGoneOK ==
  ASSUME SuperviseInv, NEW c \in CliCalls, GroupGone(c)
  PROVE  StepOK(c)
<1> USE SuperviseAssumption DEF InCall, Outcomes, Running, Codes, None, NoCode, EXIT_DEADLINE, EXIT_OWNER_GONE, EXIT_CANNOT_START, EXIT_KILL_FAILED
<1>0. SuperviseTypeOK BY DEF SuperviseInv
<1>a. cli[c] \in CliState /\ sup[c] \in SupState /\ group[c] \in GroupState /\ relay[c] \in RelayState
  BY <1>0, StateTypes
<1>1. sup' \in [CliCalls -> SupState]
  <2>1. \A gone \in BOOLEAN : [sup[c] EXCEPT !.gone = gone, !.at = "draining"] \in SupState
    BY <1>a DEF SupState
  <2>2. \A gone \in BOOLEAN : [sup[c] EXCEPT !.gone = gone, !.at = "joining"] \in SupState
    BY <1>a DEF SupState
  <2> QED BY <1>0, <2>1, <2>2 DEF SuperviseTypeOK, GroupGone, Runs, AfterStop
<1>2. SuperviseTypeOK'
  BY <1>0, <1>1 DEF SuperviseTypeOK, GroupGone, Runs, AfterStop
<1>3. CallOK(c)'
  BY <1>0 DEF SuperviseInv, SuperviseTypeOK, SupState, CallOK, GroupIsWatched, OutputIsRelayed, Forcing, WithChild, Ended, GroupGone, Runs, AfterStop
<1> QED BY <1>0, <1>2, <1>3 DEF StepOK, SuperviseTypeOK, GroupGone, Runs, AfterStop

LEMMA KillsGroupOK ==
  ASSUME SuperviseInv, NEW c \in CliCalls, KillsGroup(c)
  PROVE  StepOK(c)
<1> USE SuperviseAssumption DEF InCall, Outcomes, Running, Codes, None, NoCode, EXIT_DEADLINE, EXIT_OWNER_GONE, EXIT_CANNOT_START, EXIT_KILL_FAILED
<1>0. SuperviseTypeOK BY DEF SuperviseInv
<1>a. cli[c] \in CliState /\ sup[c] \in SupState /\ group[c] \in GroupState /\ relay[c] \in RelayState
  BY <1>0, StateTypes
<1>1. sup' \in [CliCalls -> SupState]
  BY <1>0 DEF SuperviseTypeOK, SupState, KillsGroup, Runs
<1>2. group' \in [CliCalls -> GroupState]
  BY <1>0 DEF SuperviseTypeOK, GroupState, KillsGroup, Runs
<1>3. SuperviseTypeOK'
  BY <1>0, <1>1, <1>2 DEF SuperviseTypeOK, KillsGroup, Runs
<1>4. CallOK(c)'
  BY <1>0 DEF SuperviseInv, SuperviseTypeOK, SupState, GroupState, CallOK, GroupIsWatched, OutputIsRelayed, Forcing, WithChild, Ended, KillsGroup, Runs
<1> QED BY <1>0, <1>3, <1>4 DEF StepOK, SuperviseTypeOK, KillsGroup, Runs

LEMMA GivesUpKillingOK ==
  ASSUME SuperviseInv, NEW c \in CliCalls, GivesUpKilling(c)
  PROVE  StepOK(c)
<1> USE SuperviseAssumption DEF InCall, Outcomes, Running, Codes, None, NoCode, EXIT_DEADLINE, EXIT_OWNER_GONE, EXIT_CANNOT_START, EXIT_KILL_FAILED
<1>0. SuperviseTypeOK BY DEF SuperviseInv
<1>a. cli[c] \in CliState /\ sup[c] \in SupState /\ group[c] \in GroupState /\ relay[c] \in RelayState
  BY <1>0, StateTypes
<1>1. sup' \in [CliCalls -> SupState]
  <2>1. \A gone \in BOOLEAN : [sup[c] EXCEPT !.gone = gone, !.at = "draining"] \in SupState
    BY <1>a DEF SupState
  <2>2. \A gone \in BOOLEAN : [sup[c] EXCEPT !.gone = gone, !.at = "joining"] \in SupState
    BY <1>a DEF SupState
  <2> QED BY <1>0, <2>1, <2>2 DEF SuperviseTypeOK, GivesUpKilling, Runs, AfterStop
<1>2. SuperviseTypeOK'
  BY <1>0, <1>1 DEF SuperviseTypeOK, GivesUpKilling, Runs, AfterStop
<1>3. CallOK(c)'
  BY <1>0 DEF SuperviseInv, SuperviseTypeOK, SupState, CallOK, GroupIsWatched, OutputIsRelayed, Forcing, WithChild, Ended, GivesUpKilling, Runs, AfterStop
<1> QED BY <1>0, <1>2, <1>3 DEF StepOK, SuperviseTypeOK, GivesUpKilling, Runs, AfterStop

\* A supervisor says 0 only when its relay has ended by itself.
LEMMA DrainsOK ==
  ASSUME SuperviseInv, NEW c \in CliCalls, Drains(c)
  PROVE  StepOK(c)
<1> USE SuperviseAssumption DEF InCall, Outcomes, Running, Codes, None, NoCode, EXIT_DEADLINE, EXIT_OWNER_GONE, EXIT_CANNOT_START, EXIT_KILL_FAILED
<1>0. SuperviseTypeOK BY DEF SuperviseInv
<1>a. cli[c] \in CliState /\ sup[c] \in SupState /\ group[c] \in GroupState /\ relay[c] \in RelayState
  BY <1>0, StateTypes
<1>1. sup' \in [CliCalls -> SupState]
  <2>1. Forced(c) \subseteq Codes /\ NoCode \in Codes \cup {NoCode}
    BY <1>a DEF SupState, Forced
  <2> QED BY <1>0, <2>1, ExitsOK DEF SuperviseTypeOK, Drains
<1>2. SuperviseTypeOK'
  BY <1>0, <1>1 DEF SuperviseTypeOK, Drains, Runs, Forced, Exits, ExitCode
<1>3. CallOK(c)'
  BY <1>0 DEF SuperviseInv, SuperviseTypeOK, SupState, CallOK, GroupIsWatched, OutputIsRelayed, Forcing, WithChild, Ended, Drains, Runs, Forced, Exits, ExitCode
<1> QED BY <1>0, <1>2, <1>3 DEF StepOK, SuperviseTypeOK, Drains, Runs, Forced, Exits, ExitCode

LEMMA JoinsOK ==
  ASSUME SuperviseInv, NEW c \in CliCalls, Joins(c)
  PROVE  StepOK(c)
<1> USE SuperviseAssumption DEF InCall, Outcomes, Running, Codes, None, NoCode, EXIT_DEADLINE, EXIT_OWNER_GONE, EXIT_CANNOT_START, EXIT_KILL_FAILED
<1>0. SuperviseTypeOK BY DEF SuperviseInv
<1>a. cli[c] \in CliState /\ sup[c] \in SupState /\ group[c] \in GroupState /\ relay[c] \in RelayState
  BY <1>0, StateTypes
<1>1. sup' \in [CliCalls -> SupState]
  <2>1. sup[c].forced \in Codes \cup {NoCode}
    BY <1>a DEF SupState
  <2> QED BY <1>0, <2>1, ExitsOK DEF SuperviseTypeOK, Joins
<1>2. SuperviseTypeOK'
  BY <1>0, <1>1 DEF SuperviseTypeOK, Joins, Runs, Exits, ExitCode
<1>3. CallOK(c)'
  BY <1>0 DEF SuperviseInv, SuperviseTypeOK, SupState, CallOK, GroupIsWatched, OutputIsRelayed, Forcing, WithChild, Ended, Joins, Runs, Exits, ExitCode
<1> QED BY <1>0, <1>2, <1>3 DEF StepOK, SuperviseTypeOK, Joins, Runs, Exits, ExitCode

LEMMA DeadlineOK ==
  ASSUME SuperviseInv, NEW c \in CliCalls, Deadline(c)
  PROVE  StepOK(c)
<1> USE SuperviseAssumption DEF InCall, Outcomes, Running, Codes, None, NoCode, EXIT_DEADLINE, EXIT_OWNER_GONE, EXIT_CANNOT_START, EXIT_KILL_FAILED
<1>0. SuperviseTypeOK BY DEF SuperviseInv
<1>a. cli[c] \in CliState /\ sup[c] \in SupState /\ group[c] \in GroupState /\ relay[c] \in RelayState
  BY <1>0, StateTypes
<1>1. SuperviseTypeOK'
  BY <1>0 DEF SuperviseTypeOK, Deadline
<1>2. CallOK(c)'
  BY <1>0 DEF SuperviseInv, SuperviseTypeOK, CallOK, GroupIsWatched, OutputIsRelayed, Forcing, WithChild, Ended, Deadline
<1> QED BY <1>0, <1>1, <1>2 DEF StepOK, SuperviseTypeOK, Deadline

LEMMA FaultOK ==
  ASSUME SuperviseInv, NEW c \in CliCalls, Fault(c)
  PROVE  StepOK(c)
<1> USE SuperviseAssumption DEF InCall, Outcomes, Running, Codes, None, NoCode, EXIT_DEADLINE, EXIT_OWNER_GONE, EXIT_CANNOT_START, EXIT_KILL_FAILED
<1>0. SuperviseTypeOK BY DEF SuperviseInv
<1>a. cli[c] \in CliState /\ sup[c] \in SupState /\ group[c] \in GroupState /\ relay[c] \in RelayState
  BY <1>0, StateTypes
<1>1. sup' \in [CliCalls -> SupState]
  <2>1. [sup[c] EXCEPT !.stalled = TRUE] \in SupState
    BY <1>a DEF SupState
  <2>2. [sup[c] EXCEPT !.at = "killed"] \in SupState
    BY <1>a DEF SupState
  <2> QED BY <1>0, <2>1, <2>2 DEF SuperviseTypeOK, Fault
<1>2. SuperviseTypeOK'
  BY <1>0, <1>1 DEF SuperviseTypeOK, Fault
<1>3. CallOK(c)'
  BY <1>0 DEF SuperviseInv, SuperviseTypeOK, SupState, CallOK, GroupIsWatched, OutputIsRelayed, Forcing, WithChild, Ended, Fault
<1> QED BY <1>0, <1>2, <1>3 DEF StepOK, SuperviseTypeOK, Fault

LEMMA RelaysOK ==
  ASSUME SuperviseInv, NEW c \in CliCalls, Relays(c)
  PROVE  StepOK(c)
<1> USE SuperviseAssumption DEF InCall, Outcomes, Running, Codes, None, NoCode, EXIT_DEADLINE, EXIT_OWNER_GONE, EXIT_CANNOT_START, EXIT_KILL_FAILED
<1>0. SuperviseTypeOK BY DEF SuperviseInv
<1>a. cli[c] \in CliState /\ sup[c] \in SupState /\ group[c] \in GroupState /\ relay[c] \in RelayState
  BY <1>0, StateTypes
<1>1. relay' \in [CliCalls -> RelayState]
  <2>1. relay[c].sent < group[c].said => relay[c].sent + 1 \in 0..MaxOut
    BY <1>a DEF RelayState, GroupState
  <2>2. \A n \in 0..MaxOut : [relay[c] EXCEPT !.sent = n] \in RelayState
    BY <1>a DEF RelayState, GroupState
  <2> QED BY <1>0, <2>1, <2>2 DEF SuperviseTypeOK, Relays, Relaying
<1>2. SuperviseTypeOK'
  BY <1>0, <1>1 DEF SuperviseTypeOK, Relays, Relaying
<1>3. CallOK(c)'
  BY <1>0 DEF SuperviseInv, SuperviseTypeOK, RelayState, CallOK, GroupIsWatched, OutputIsRelayed, Forcing, WithChild, Ended, Relays, Relaying
<1> QED BY <1>0, <1>2, <1>3 DEF StepOK, SuperviseTypeOK, Relays, Relaying

LEMMA RelayEndsOK ==
  ASSUME SuperviseInv, NEW c \in CliCalls, RelayEnds(c)
  PROVE  StepOK(c)
<1> USE SuperviseAssumption DEF InCall, Outcomes, Running, Codes, None, NoCode, EXIT_DEADLINE, EXIT_OWNER_GONE, EXIT_CANNOT_START, EXIT_KILL_FAILED
<1>0. SuperviseTypeOK BY DEF SuperviseInv
<1>a. cli[c] \in CliState /\ sup[c] \in SupState /\ group[c] \in GroupState /\ relay[c] \in RelayState
  BY <1>0, StateTypes
<1>1. relay' \in [CliCalls -> RelayState]
  BY <1>0 DEF SuperviseTypeOK, RelayState, RelayEnds, Relaying
<1>2. SuperviseTypeOK'
  BY <1>0, <1>1 DEF SuperviseTypeOK, RelayEnds, Relaying
<1>3. CallOK(c)'
  BY <1>0 DEF SuperviseInv, SuperviseTypeOK, RelayState, CallOK, GroupIsWatched, OutputIsRelayed, Forcing, WithChild, Ended, RelayEnds, Relaying
<1> QED BY <1>0, <1>2, <1>3 DEF StepOK, SuperviseTypeOK, RelayEnds, Relaying

LEMMA SaysOK ==
  ASSUME SuperviseInv, NEW c \in CliCalls, Says(c)
  PROVE  StepOK(c)
<1> USE SuperviseAssumption DEF InCall, Outcomes, Running, Codes, None, NoCode, EXIT_DEADLINE, EXIT_OWNER_GONE, EXIT_CANNOT_START, EXIT_KILL_FAILED
<1>0. SuperviseTypeOK BY DEF SuperviseInv
<1>a. cli[c] \in CliState /\ sup[c] \in SupState /\ group[c] \in GroupState /\ relay[c] \in RelayState
  BY <1>0, StateTypes
<1>1. group' \in [CliCalls -> GroupState]
  BY <1>0 DEF SuperviseTypeOK, GroupState, Says, Members
<1>2. SuperviseTypeOK'
  BY <1>0, <1>1 DEF SuperviseTypeOK, Says, Members
<1>3. CallOK(c)'
  BY <1>0 DEF SuperviseInv, SuperviseTypeOK, GroupState, CallOK, GroupIsWatched, OutputIsRelayed, Forcing, WithChild, Ended, Says, Members
<1> QED BY <1>0, <1>2, <1>3 DEF StepOK, SuperviseTypeOK, Says, Members

LEMMA ForksOK ==
  ASSUME SuperviseInv, NEW c \in CliCalls, Forks(c)
  PROVE  StepOK(c)
<1> USE SuperviseAssumption DEF InCall, Outcomes, Running, Codes, None, NoCode, EXIT_DEADLINE, EXIT_OWNER_GONE, EXIT_CANNOT_START, EXIT_KILL_FAILED
<1>0. SuperviseTypeOK BY DEF SuperviseInv
<1>a. cli[c] \in CliState /\ sup[c] \in SupState /\ group[c] \in GroupState /\ relay[c] \in RelayState
  BY <1>0, StateTypes
<1>1. group' \in [CliCalls -> GroupState]
  BY <1>0 DEF SuperviseTypeOK, GroupState, Forks, Members
<1>2. SuperviseTypeOK'
  BY <1>0, <1>1 DEF SuperviseTypeOK, Forks, Members
<1>3. CallOK(c)'
  BY <1>0 DEF SuperviseInv, SuperviseTypeOK, GroupState, CallOK, GroupIsWatched, OutputIsRelayed, Forcing, WithChild, Ended, Forks, Members
<1> QED BY <1>0, <1>2, <1>3 DEF StepOK, SuperviseTypeOK, Forks, Members

LEMMA EndsOK ==
  ASSUME SuperviseInv, NEW c \in CliCalls, Ends(c)
  PROVE  StepOK(c)
<1> USE SuperviseAssumption DEF InCall, Outcomes, Running, Codes, None, NoCode, EXIT_DEADLINE, EXIT_OWNER_GONE, EXIT_CANNOT_START, EXIT_KILL_FAILED
<1>0. SuperviseTypeOK BY DEF SuperviseInv
<1>a. cli[c] \in CliState /\ sup[c] \in SupState /\ group[c] \in GroupState /\ relay[c] \in RelayState
  BY <1>0, StateTypes
<1>1. group' \in [CliCalls -> GroupState]
  <2>1. \A code \in {0, 1} : [group[c] EXCEPT !.in = @ \ {"leader"}, !.code = code] \in GroupState
    BY <1>a DEF GroupState
  <2>2. [group[c] EXCEPT !.in = @ \ {"kin"}] \in GroupState
    BY <1>a DEF GroupState
  <2> QED BY <1>0, <2>1, <2>2 DEF SuperviseTypeOK, Ends, Members
<1>2. SuperviseTypeOK'
  BY <1>0, <1>1 DEF SuperviseTypeOK, Ends, Members
<1>3. CallOK(c)'
  BY <1>0 DEF SuperviseInv, SuperviseTypeOK, GroupState, CallOK, GroupIsWatched, OutputIsRelayed, Forcing, WithChild, Ended, Ends, Members
<1> QED BY <1>0, <1>2, <1>3 DEF StepOK, SuperviseTypeOK, Ends, Members

\* What the owner's death ends: no call of a dead owner concludes.
LEMMA OwnerDiesOK == ASSUME SuperviseInv, OwnerDies PROVE SuperviseInv'
<1> USE DEF InCall, Outcomes, Running, Codes, None, NoCode, EXIT_DEADLINE, EXIT_OWNER_GONE, EXIT_CANNOT_START, EXIT_KILL_FAILED
<1>0. cli' \in [CliCalls -> CliState] BY DEF SuperviseInv, SuperviseTypeOK, CliState, OwnerDies
<1>1. SuperviseTypeOK' BY <1>0 DEF SuperviseInv, SuperviseTypeOK, OwnerDies
<1>2. ASSUME NEW c \in CliCalls PROVE CallOK(c)'
  BY DEF SuperviseInv, SuperviseTypeOK, CliState, OwnerDies, CallOK, GroupIsWatched, OutputIsRelayed, Forcing, WithChild, Ended
<1> QED BY <1>1, <1>2 DEF SuperviseInv

LEMMA InitSupervise == SuperviseInit => SuperviseInv
BY SuperviseAssumption DEF SuperviseInit, SuperviseInv, SuperviseTypeOK, CliState, SupState, GroupState, RelayState, CallOK, GroupIsWatched, OutputIsRelayed, Forcing, WithChild, Ended, Members, InCall, Outcomes, Running, Codes, None, NoCode, EXIT_DEADLINE, EXIT_OWNER_GONE, EXIT_CANNOT_START, EXIT_KILL_FAILED

LEMMA NextSupervise == SuperviseInv /\ [SuperviseNext]_superviseVars => SuperviseInv'
<1> SUFFICES ASSUME SuperviseInv, [SuperviseNext]_superviseVars PROVE SuperviseInv' OBVIOUS
<1>1. CASE UNCHANGED superviseVars
  <2>1. SuperviseTypeOK' BY <1>1 DEF superviseVars, SuperviseInv, SuperviseTypeOK
  <2>2. \A c \in CliCalls : CallOK(c)' BY <1>1 DEF superviseVars, SuperviseInv, CallOK, GroupIsWatched, OutputIsRelayed, Ended
  <2> QED BY <2>1, <2>2 DEF SuperviseInv
<1>2. CASE OwnerDies BY <1>2, OwnerDiesOK
<1>3. ASSUME NEW c \in CliCalls, OwnerStep(c) PROVE SuperviseInv'
  <2>1. StepOK(c)
    BY <1>3, SpawnOK, SpawnFailsOK, SpawnCancelledOK, EndsInReapOK, ReadsOK, ReapedOK, ReapTimesOutOK, ReapCancelledOK
       DEF OwnerStep
  <2> QED BY <2>1, OneCallMoves
<1>4. ASSUME NEW c \in CliCalls, SupervisorStep(c) PROVE SuperviseInv'
  <2>1. StepOK(c)
    BY <1>4, InstallsOK, StartsChildOK, CannotStartOK, WatchesOK, GroupGoneOK, KillsGroupOK, GivesUpKillingOK, DrainsOK, JoinsOK
       DEF SupervisorStep
  <2> QED BY <2>1, OneCallMoves
<1>5. ASSUME NEW c \in CliCalls, GroupStep(c) \/ Deadline(c) \/ Fault(c) PROVE SuperviseInv'
  <2>1. StepOK(c)
    BY <1>5, RelaysOK, RelayEndsOK, SaysOK, ForksOK, EndsOK, DeadlineOK, FaultOK DEF GroupStep
  <2> QED BY <2>1, OneCallMoves
<1> QED BY <1>1, <1>2, <1>3, <1>4, <1>5 DEF SuperviseNext

THEOREM SuperviseInvariant == SuperviseSpec => []SuperviseInv
BY InitSupervise, NextSupervise, PTL DEF SuperviseSpec

-----------------------------------------------------------------------------

\* gateway.reap: for any number of calls, faults and chunks, no process of a call that is over
\* is left, but by a fault, by a reap cut short while the supervisor still runs, or by a spawn
\* that was cancelled.
THEOREM NoChildIsLeft == SuperviseSpec => []NoChildOutlivesItsCall
<1>1. SuperviseInv => NoChildOutlivesItsCall
  <2> SUFFICES ASSUME SuperviseInv, NEW c \in CliCalls, cli[c].at = "done", group[c].in # {},
                      ~Orphaned(c), sup[c].at # "dropped"
               PROVE  cli[c].cut /\ sup[c].at \in Running
    BY DEF NoChildOutlivesItsCall
  <2>1. GroupIsWatched(c) /\ sup[c] \in SupState BY StateTypes DEF SuperviseInv, CallOK
  <2>2. ~Ended(c) /\ sup[c].at # None BY <2>1 DEF GroupIsWatched, Orphaned, Ended
  <2>3. sup[c].at \in Running BY <2>1, <2>2 DEF SupState, Ended
  <2>4. cli[c].cut \in BOOLEAN /\ cli[c].cut BY <2>1, <2>2, StateTypes DEF GroupIsWatched, SuperviseInv, CliState
  <2> QED BY <2>3, <2>4
<1> QED BY <1>1, SuperviseInvariant, PTL

\* providers._run_cli: a complete answer is all that its CLI printed, for any amount of it.
THEOREM AnswersAreWhole == SuperviseSpec => []AnswerIsWhole
<1>1. SuperviseInv => AnswerIsWhole
  BY DEF SuperviseInv, CallOK, OutputIsRelayed, AnswerIsWhole
<1> QED BY <1>1, SuperviseInvariant, PTL
=============================================================================
