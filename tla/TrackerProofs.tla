--------------------------- MODULE TrackerProofs ---------------------------
(***************************************************************************)
(* Tracking implements the application's life cycle, and the invariants of *)
(* its sends, its timeline and its warnings, for any number of jobs, roles *)
(* of any shape, recruiters, documents and passes.  Every write to a row   *)
(* is one of a few row transitions, so what the life cycle allows is shown *)
(* once for each transition of JobStages and lifted to the jobs table.     *)
(***************************************************************************)
EXTENDS Tracker, TLAPS

RowOK(r) ==
  /\ r \in Row
  /\ r.app \in ClosureStates => r.closed # "no" /\ r.review = "kept"

\* What one step of the life cycle may do to one row.
SameKept(r, s) == r.review = "kept" <=> s.review = "kept"
SamePlace(r, s) == OwnState(s) = OwnState(r) /\ ParkedState(s) = ParkedState(r)
SameInsists(r, s) == Insists(r) <=> Insists(s)

RowMoves(r, s) ==
  /\ r.review = "kept"
  /\ OwnState(s) \in UserStates
  /\ ParkedState(s) = "no"
  /\ Insists(s) <=> (Insists(r) \/ ParkedState(r) # "no")
  /\ SameKept(r, s)
RowKeeps(r, s) ==
  /\ r.review # "kept" /\ s.review = "kept"
  /\ SamePlace(r, s)
  /\ SameInsists(r, s)
RowDrops(r, s) ==
  /\ r.review = "kept" /\ s.review # "kept"
  /\ ParkedState(r) = "no"
  /\ OwnState(r) \in ShortlistStates
  /\ SamePlace(r, s)
  /\ SameInsists(r, s)
RowSaysOpen(r, s) ==
  /\ Insists(s)
  /\ OwnState(s) = OwnState(r)
  /\ ParkedState(s) = "no"
  /\ SameKept(r, s)
RowSaysClosed(r, s) ==
  /\ ~Insists(s)
  /\ OwnState(s) = OwnState(r)
  /\ ParkedState(s) =
       IF r.review = "kept" /\ ParkedState(r) = "no" /\ OwnState(r) \in ShortlistStates
         THEN "posting_closed" ELSE ParkedState(r)
  /\ SameKept(r, s)
RowParks(r, s) ==
  /\ r.review = "kept"
  /\ ~Insists(r)
  /\ ParkedState(r) = "no"
  /\ \/ OwnState(r) \in ShortlistStates /\ ParkedState(s) = "posting_closed"
     \/ OwnState(r) = "applied" /\ ParkedState(s) = "filled"
  /\ OwnState(s) = OwnState(r)
  /\ SameKept(r, s)
  /\ SameInsists(r, s)
RowUnparks(r, s) ==
  /\ ParkedState(r) # "no"
  /\ ParkedState(s) = "no"
  /\ OwnState(s) = OwnState(r)
  /\ SameKept(r, s)
  /\ SameInsists(r, s)
RowSame(r, s) == SamePlace(r, s) /\ SameKept(r, s) /\ SameInsists(r, s)

RowStep(r, s) ==
  \/ RowMoves(r, s) \/ RowKeeps(r, s) \/ RowDrops(r, s)
  \/ RowSaysOpen(r, s) \/ RowSaysClosed(r, s)
  \/ RowParks(r, s) \/ RowUnparks(r, s) \/ RowSame(r, s)

\* A good write: the row stays well formed, moves as the life cycle allows, and
\* what the user applied to stays applied to.
GoodWrite(r, s) == RowOK(s) /\ RowStep(r, s) /\ s.applied = r.applied

-----------------------------------------------------------------------------
(* The transitions of JobStages *)

LEMMA StatesApart ==
  /\ ClosureStates \cap UserStates = {}
  /\ ClosureStates \subseteq AppStates
  /\ UserStates \subseteq AppStates
  /\ ShortlistStates \subseteq UserStates
  /\ InProcessStates \subseteq UserStates
  /\ "no" \notin ClosureStates
  /\ "applied" \in UserStates
  /\ "posting_closed" \in ClosureStates
  /\ "filled" \in ClosureStates
  /\ "withdrawn" \in UserStates
  /\ "" \in UserStates
BY DEF ClosureStates, UserStates, AppStates, ShortlistStates, InProcessStates

LEMMA StampedKeeps ==
  ASSUME NEW r \in Row
  PROVE  /\ Stamped(r) \in Row
         /\ Stamped(r).closed # "no"
         /\ Stamped(r).app = r.app /\ Stamped(r).review = r.review
         /\ Stamped(r).prior = r.prior /\ Stamped(r).pinned = r.pinned
         /\ Stamped(r).check = r.check /\ Stamped(r).applied = r.applied
BY DEF Stamped, Row

\* Closing parks a Shortlist row, keeping what it takes to restore it, or only stamps.
LEMMA CloseIsGood ==
  ASSUME NEW r, RowOK(r), NEW auto \in BOOLEAN
  PROVE  GoodWrite(r, CloseTransition(r, auto, TRUE))
<1> DEFINE s == Stamped(r)
           t == [s EXCEPT !.prior = r.app, !.app = "posting_closed"]
<1>1. r \in Row BY DEF RowOK
<1>2. CASE r.pinned
  <2>1. CloseTransition(r, auto, TRUE) = r BY <1>2 DEF CloseTransition
  <2> QED BY <2>1 DEF GoodWrite, RowStep, RowSame, SamePlace, SameKept, SameInsists
<1>3. CASE ~r.pinned /\ auto /\ r.review = "kept" /\ r.app \in ShortlistStates
  <2>1. CloseTransition(r, auto, TRUE) = t BY <1>3 DEF CloseTransition
  <2>2. t \in Row /\ t.app = "posting_closed" /\ t.prior = r.app /\ t.closed # "no"
        /\ t.review = "kept" /\ t.pinned = r.pinned /\ t.check = r.check /\ t.applied = r.applied
    <3>1. s \in Row /\ s.closed # "no" /\ s.review = "kept" /\ s.pinned = r.pinned
          /\ s.check = r.check /\ s.applied = r.applied
      BY <1>1, <1>3, StampedKeeps
    <3>2. r.app \in UserStates /\ "posting_closed" \in AppStates BY <1>3, StatesApart
    <3> HIDE DEF s
    <3> QED BY <3>1, <3>2 DEF Row
  <2>3. r.app \notin ClosureStates BY <1>3, StatesApart
  <2>4. RowParks(r, t)
    BY <2>2, <2>3, <1>3, StatesApart DEF RowParks, OwnState, ParkedState, SameKept, SameInsists, Insists
  <2> QED BY <2>1, <2>2, <2>4 DEF GoodWrite, RowStep, RowOK
<1>4. CASE ~r.pinned /\ ~(auto /\ r.review = "kept" /\ r.app \in ShortlistStates)
  <2>1. CloseTransition(r, auto, TRUE) = s BY <1>4 DEF CloseTransition
  <2>2. RowOK(s) BY <1>1, StampedKeeps DEF RowOK
  <2>3. RowSame(r, s)
    BY <1>1, StampedKeeps DEF RowSame, SamePlace, SameKept, SameInsists, OwnState, ParkedState, Insists
  <2> QED BY <1>1, <2>1, <2>2, <2>3, StampedKeeps DEF GoodWrite, RowStep
<1> QED BY <1>2, <1>3, <1>4

\* Reopening restores exactly what a close parked, or only forgets the stamp.
LEMMA ReopenIsGood ==
  ASSUME NEW r, RowOK(r), NEW auto \in BOOLEAN
  PROVE  GoodWrite(r, ReopenTransition(r, auto, TRUE))
<1> DEFINE t == [r EXCEPT !.app = r.prior, !.prior = "", !.closed = "no"]
           u == [r EXCEPT !.closed = "no"]
<1>1. r \in Row BY DEF RowOK
<1>2. CASE ReopenTransition(r, auto, TRUE) = r
  BY <1>2 DEF GoodWrite, RowStep, RowSame, SamePlace, SameKept, SameInsists
<1>3. CASE ReopenTransition(r, auto, TRUE) = u /\ r.app \notin ClosureStates
  <2>1. RowOK(u) /\ u.applied = r.applied BY <1>1, <1>3 DEF RowOK, Row
  <2>2. RowSame(r, u)
    BY <1>1 DEF RowSame, SamePlace, SameKept, SameInsists, OwnState, ParkedState, Insists, Row
  <2> QED BY <1>3, <2>1, <2>2 DEF GoodWrite, RowStep
<1>4. CASE ReopenTransition(r, auto, TRUE) = t /\ r.app \in ClosureStates
  <2>1. t \in Row /\ t.app = r.prior /\ t.review = r.review /\ t.pinned = r.pinned
        /\ t.check = r.check /\ t.applied = r.applied
    BY <1>1, StatesApart DEF Row
  <2>2. r.prior \in UserStates /\ r.prior \notin ClosureStates BY <1>1, StatesApart DEF Row
  <2>3. RowUnparks(r, t)
    BY <2>1, <2>2, <1>4, StatesApart
    DEF RowUnparks, OwnState, ParkedState, SameKept, SameInsists, Insists
  <2> QED BY <1>4, <2>1, <2>2, <2>3 DEF GoodWrite, RowStep, RowOK
<1> QED BY <1>2, <1>3, <1>4 DEF ReopenTransition

LEMMA SameThenGood ==
  ASSUME NEW r, NEW s, NEW t, RowSame(r, s), s.applied = r.applied, GoodWrite(s, t)
  PROVE  GoodWrite(r, t)
<1>1. RowOK(t) /\ t.applied = r.applied BY DEF GoodWrite
<1>2. SamePlace(r, s) /\ SameKept(r, s) /\ SameInsists(r, s) BY DEF RowSame
<1>3. CASE RowMoves(s, t)
  BY <1>2, <1>3, <1>1 DEF RowMoves, SamePlace, SameKept, SameInsists, GoodWrite, RowStep
<1>4. CASE RowKeeps(s, t)
  BY <1>2, <1>4, <1>1 DEF RowKeeps, SamePlace, SameKept, SameInsists, GoodWrite, RowStep
<1>5. CASE RowDrops(s, t)
  BY <1>2, <1>5, <1>1 DEF RowDrops, SamePlace, SameKept, SameInsists, GoodWrite, RowStep
<1>6. CASE RowSaysOpen(s, t)
  BY <1>2, <1>6, <1>1 DEF RowSaysOpen, SamePlace, SameKept, SameInsists, GoodWrite, RowStep
<1>7. CASE RowSaysClosed(s, t)
  BY <1>2, <1>7, <1>1 DEF RowSaysClosed, SamePlace, SameKept, SameInsists, GoodWrite, RowStep
<1>8. CASE RowParks(s, t)
  BY <1>2, <1>8, <1>1 DEF RowParks, SamePlace, SameKept, SameInsists, GoodWrite, RowStep
<1>9. CASE RowUnparks(s, t)
  BY <1>2, <1>9, <1>1 DEF RowUnparks, SamePlace, SameKept, SameInsists, GoodWrite, RowStep
<1>10. CASE RowSame(s, t)
  BY <1>2, <1>10, <1>1 DEF RowSame, SamePlace, SameKept, SameInsists, GoodWrite, RowStep
<1> QED BY <1>3, <1>4, <1>5, <1>6, <1>7, <1>8, <1>9, <1>10 DEF GoodWrite, RowStep

LEMMA NoChangeIsGood ==
  ASSUME NEW r, RowOK(r)
  PROVE  GoodWrite(r, r)
BY DEF GoodWrite, RowStep, RowSame, SamePlace, SameKept, SameInsists

\* An automated verdict, whatever the pass had read of the row.
LEMMA ApplyIsGood ==
  ASSUME NEW r, RowOK(r), NEW seen, NEW verdict \in Verdicts,
         NEW checked \in BOOLEAN, NEW auto \in BOOLEAN
  PROVE  GoodWrite(r, Apply(r, seen, verdict, checked, auto))
<1> DEFINE writes == checked \/ verdict # seen.check
           t == [r EXCEPT !.check = verdict]
           s == IF writes THEN t ELSE r
<1>1. CASE writes /\ r.pinned
  BY <1>1, NoChangeIsGood DEF Apply
<1>2. CASE ~(writes /\ r.pinned)
  <2>1. RowOK(s) /\ RowSame(r, s) /\ s.applied = r.applied
    <3>1. CASE writes
      <4>1. t \in Row /\ t.app = r.app /\ t.closed = r.closed /\ t.review = r.review
            /\ t.prior = r.prior /\ t.applied = r.applied /\ t.pinned = r.pinned
        BY DEF RowOK, Row
      <4>2. ~r.pinned /\ ~t.pinned BY <1>2, <3>1, <4>1
      <4>3. RowOK(t) BY <4>1 DEF RowOK
      <4>4. RowSame(r, t)
        BY <4>1, <4>2 DEF RowSame, SamePlace, SameKept, SameInsists, OwnState, ParkedState, Insists
      <4> QED BY <3>1, <4>1, <4>3, <4>4
    <3>2. CASE ~writes
      BY <3>2 DEF RowSame, SamePlace, SameKept, SameInsists
    <3> QED BY <3>1, <3>2
  <2>2. \/ Apply(r, seen, verdict, checked, auto) = r
        \/ Apply(r, seen, verdict, checked, auto) = CloseTransition(s, auto, TRUE)
        \/ Apply(r, seen, verdict, checked, auto) = ReopenTransition(s, auto, TRUE)
        \/ Apply(r, seen, verdict, checked, auto) = s
    BY <1>2 DEF Apply
  <2>3. GoodWrite(s, CloseTransition(s, auto, TRUE)) BY <2>1, CloseIsGood
  <2>4. GoodWrite(s, ReopenTransition(s, auto, TRUE)) BY <2>1, ReopenIsGood
  <2>5. GoodWrite(s, s) BY <2>1, NoChangeIsGood
  <2>6. GoodWrite(r, r) BY NoChangeIsGood
  <2> HIDE DEF s
  <2> QED BY <2>1, <2>2, <2>3, <2>4, <2>5, <2>6, SameThenGood
<1> QED BY <1>1, <1>2

\* The sweep: a closed verdict never stands where the user insists on open.
LEMMA FilledIsGood ==
  ASSUME NEW r, RowOK(r)
  PROVE  GoodWrite(r, Filled(r))
<1> DEFINE t == [r EXCEPT !.prior = "applied", !.app = "filled"]
<1>1. CASE ~Fillable(r)
  BY <1>1, NoChangeIsGood DEF Filled
<1>2. CASE Fillable(r)
  <2>1. t \in Row /\ t.app = "filled" /\ t.prior = "applied" /\ t.closed = r.closed
        /\ t.review = r.review /\ t.pinned = r.pinned /\ t.check = r.check /\ t.applied = r.applied
    BY StatesApart DEF Row, RowOK
  <2>2. RowOK(t) BY <1>2, <2>1 DEF RowOK, Fillable
  <2>3. "applied" \notin ClosureStates BY StatesApart
  <2>4. RowParks(r, t)
    BY <1>2, <2>1, <2>3, StatesApart
    DEF RowParks, Fillable, OwnState, ParkedState, Insists, SameKept, SameInsists
  <2> QED BY <1>2, <2>1, <2>2, <2>4 DEF Filled, GoodWrite, RowStep
<1> QED BY <1>1, <1>2

\* The user's verdict: open unparks and pins, closed parks what may be parked.
LEMMA ManualOpenIsGood ==
  ASSUME NEW r, RowOK(r)
  PROVE  GoodWrite(r, ManualVerdict(r, TRUE))
<1> DEFINE s == [r EXCEPT !.check = "open", !.pinned = TRUE]
           t == [s EXCEPT !.app = s.prior, !.prior = "", !.closed = "no"]
           u == [s EXCEPT !.closed = "no"]
<1>1. ManualVerdict(r, TRUE) = ReopenTransition(s, TRUE, FALSE) BY DEF ManualVerdict
<1>2. s \in Row /\ s.check = "open" /\ s.pinned = TRUE /\ s.app = r.app /\ s.prior = r.prior
      /\ s.closed = r.closed /\ s.review = r.review /\ s.applied = r.applied
  BY DEF RowOK, Row, Verdicts
<1> HIDE DEF s
<1>3. s.prior \in UserStates /\ s.prior \notin ClosureStates BY <1>2, StatesApart DEF Row
<1>4. CASE s.app \in ClosureStates
  <2>1. s.closed # "no" BY <1>2, <1>4 DEF RowOK
  <2>2. ReopenTransition(s, TRUE, FALSE) = t BY <1>4, <2>1 DEF ReopenTransition
  <2>3. t \in Row /\ t.check = "open" /\ t.pinned = TRUE /\ t.app = s.prior
        /\ t.review = r.review /\ t.applied = r.applied
    BY <1>2, <1>3, StatesApart DEF Row
  <2>4. RowSaysOpen(r, t)
    BY <1>2, <1>3, <1>4, <2>3 DEF RowSaysOpen, OwnState, ParkedState, Insists, SameKept
  <2> QED BY <1>1, <1>3, <2>2, <2>3, <2>4 DEF GoodWrite, RowStep, RowOK
<1>5. CASE s.app \notin ClosureStates
  <2>1. ReopenTransition(s, TRUE, FALSE) \in {s, u} BY <1>5 DEF ReopenTransition
  <2>2. u \in Row /\ u.check = "open" /\ u.pinned = TRUE /\ u.app = s.app /\ u.prior = s.prior
        /\ u.review = r.review /\ u.applied = r.applied
    BY <1>2 DEF Row
  <2>3. RowSaysOpen(r, u) /\ RowSaysOpen(r, s)
    BY <1>2, <1>5, <2>2 DEF RowSaysOpen, OwnState, ParkedState, Insists, SameKept
  <2> QED BY <1>1, <1>2, <1>5, <2>1, <2>2, <2>3 DEF GoodWrite, RowStep, RowOK
<1> QED BY <1>4, <1>5

LEMMA ManualClosedIsGood ==
  ASSUME NEW r, RowOK(r)
  PROVE  GoodWrite(r, ManualVerdict(r, FALSE))
<1> DEFINE s == [r EXCEPT !.check = "closed", !.pinned = TRUE]
           u == Stamped(s)
           t == [u EXCEPT !.prior = s.app, !.app = "posting_closed"]
<1>1. ManualVerdict(r, FALSE) = CloseTransition(s, TRUE, FALSE) BY DEF ManualVerdict
<1>2. s \in Row /\ s.check = "closed" /\ s.pinned = TRUE /\ s.app = r.app /\ s.prior = r.prior
      /\ s.closed = r.closed /\ s.review = r.review /\ s.applied = r.applied
  BY DEF RowOK, Row, Verdicts
<1> HIDE DEF s
<1>3. u \in Row /\ u.check = "closed" /\ u.pinned = TRUE /\ u.app = r.app /\ u.prior = r.prior
      /\ u.closed # "no" /\ u.review = r.review /\ u.applied = r.applied
  BY <1>2, StampedKeeps
<1>4. CASE r.review = "kept" /\ r.app \in ShortlistStates
  <2>1. CloseTransition(s, TRUE, FALSE) = t BY <1>2, <1>4 DEF CloseTransition
  <2>2. r.app \in UserStates /\ r.app \notin ClosureStates BY <1>4, StatesApart
  <2>3. t \in Row /\ t.check = "closed" /\ t.pinned = TRUE /\ t.app = "posting_closed"
        /\ t.prior = r.app /\ t.closed # "no" /\ t.review = "kept" /\ t.applied = r.applied
    <3> HIDE DEF u
    <3> QED BY <1>2, <1>3, <1>4, <2>2, StatesApart DEF Row
  <2>4. RowSaysClosed(r, t)
    BY <1>4, <2>2, <2>3, StatesApart DEF RowSaysClosed, OwnState, ParkedState, Insists, SameKept
  <2> QED BY <1>1, <2>1, <2>3, <2>4 DEF GoodWrite, RowStep, RowOK
<1>5. CASE ~(r.review = "kept" /\ r.app \in ShortlistStates)
  <2>1. CloseTransition(s, TRUE, FALSE) = u BY <1>2, <1>5 DEF CloseTransition
  <2> HIDE DEF u
  <2>2. RowSaysClosed(r, u)
    BY <1>3, <1>5, StatesApart DEF RowSaysClosed, OwnState, ParkedState, Insists, SameKept
  <2>3. RowOK(u) BY <1>3 DEF RowOK
  <2> QED BY <1>1, <1>3, <2>1, <2>2, <2>3 DEF GoodWrite, RowStep
<1> QED BY <1>4, <1>5

\* A move by the user: to any of his states, pinned when it leaves a closure.
LEMMA MovedIsGood ==
  ASSUME NEW r, RowOK(r), NEW new \in UserStates, r.review = "kept"
  PROVE  /\ RowOK(Moved(r, new))
         /\ RowStep(r, Moved(r, new))
         /\ Moved(r, new).applied = (r.applied \/ new = "applied")
<1> DEFINE s == [r EXCEPT !.app = new, !.applied = @ \/ new = "applied", !.prior = ""]
           t == [s EXCEPT !.pinned = TRUE, !.check = "open", !.closed = "no"]
<1>1. s \in Row /\ s.app = new /\ s.review = "kept" /\ s.pinned = r.pinned /\ s.check = r.check
      /\ s.applied = (r.applied \/ new = "applied")
  BY StatesApart DEF RowOK, Row
<1>2. new \notin ClosureStates BY StatesApart
<1>3. CASE r.app \in ClosureStates
  <2>1. Moved(r, new) = t BY <1>3 DEF Moved
  <2> HIDE DEF s
  <2>2. t \in Row /\ t.app = new /\ t.review = "kept" /\ t.pinned = TRUE /\ t.check = "open"
        /\ t.applied = s.applied
    BY <1>1 DEF Row, Verdicts
  <2>3. RowMoves(r, t)
    BY <1>2, <1>3, <2>2, StatesApart
    DEF RowMoves, OwnState, ParkedState, Insists, SameKept
  <2> QED BY <1>1, <1>2, <2>1, <2>2, <2>3 DEF RowStep, RowOK
<1>4. CASE r.app \notin ClosureStates
  <2>1. Moved(r, new) = s BY <1>4 DEF Moved
  <2> HIDE DEF s
  <2>2. RowMoves(r, s)
    BY <1>1, <1>2, <1>4 DEF RowMoves, OwnState, ParkedState, Insists, SameKept
  <2> QED BY <1>1, <1>2, <2>1, <2>2 DEF RowStep, RowOK
<1> QED BY <1>3, <1>4

LEMMA LinkIsGood ==
  ASSUME NEW r, RowOK(r), NEW link \in {"none", "found", "manual"}
  PROVE  LET s == [r EXCEPT !.link = link]
         IN  RowOK(s) /\ RowSame(r, s) /\ s.applied = r.applied
<1> DEFINE s == [r EXCEPT !.link = link]
<1>1. s \in Row /\ s.app = r.app /\ s.closed = r.closed /\ s.review = r.review /\ s.prior = r.prior
      /\ s.applied = r.applied /\ s.pinned = r.pinned /\ s.check = r.check
  BY DEF RowOK, Row
<1> HIDE DEF s
<1>2. RowSame(r, s)
  BY <1>1 DEF RowSame, SamePlace, SameKept, SameInsists, OwnState, ParkedState, Insists
<1>3. RowOK(s) BY <1>1 DEF RowOK
<1>4. RowOK(s) /\ RowSame(r, s) /\ s.applied = r.applied BY <1>1, <1>2, <1>3
<1> QED BY <1>4 DEF s

-----------------------------------------------------------------------------
(* The invariant, and what a step does to the tables *)

\* A request that is about to record a send has made an application.
CockpitOK ==
  cockpit # Idle =>
    /\ cockpit.send => cockpit.want = "applied"
    /\ cockpit.pc = "send" => cockpit.send /\ rows[cockpit.job].applied

Inv ==
  /\ TypeOK
  /\ ParkedIsRestorable
  /\ OneApplication
  /\ SendsAreApplications
  /\ OneOpenAttempt
  /\ NeverBothUnawares
  /\ CockpitOK

RestOK ==
  /\ docs \in [Jobs -> Docs \cup {"none"}]
  /\ subs \subseteq Submission
  /\ page \in [Jobs -> SUBSET Submission]
  /\ cockpit \in {Idle} \cup Request
  /\ pass \in PassState

GoodRows ==
  \/ UNCHANGED rows
  \/ \E j \in Jobs : \E s : GoodWrite(rows[j], s) /\ rows' = [rows EXCEPT ![j] = s]

GoodSends ==
  \/ UNCHANGED sends
  \/ \E j \in Jobs : \E o : sends' = [sends EXCEPT ![j] = WithOutcome(@, o)]
  \/ \E j \in Jobs, d \in Docs :
       rows[j].applied /\ sends' = [sends EXCEPT ![j] = WithSend(@, d)]

LEMMA RowsAreOK ==
  ASSUME Inv
  PROVE  \A j \in Jobs : RowOK(rows[j])
BY DEF Inv, TypeOK, ParkedIsRestorable, RowOK

LEMMA GoodRowsKeep ==
  ASSUME Inv, GoodRows
  PROVE  /\ rows' \in [Jobs -> Row]
         /\ ParkedIsRestorable'
         /\ \A j \in Jobs : rows'[j].applied = rows[j].applied
<1>1. rows \in [Jobs -> Row] BY DEF Inv, TypeOK
<1>2. \A j \in Jobs : RowOK(rows[j]) BY RowsAreOK
<1>3. CASE UNCHANGED rows
  BY <1>1, <1>3 DEF Inv, ParkedIsRestorable
<1>4. CASE \E j \in Jobs : \E s : GoodWrite(rows[j], s) /\ rows' = [rows EXCEPT ![j] = s]
  <2>0. PICK j \in Jobs : \E s : GoodWrite(rows[j], s) /\ rows' = [rows EXCEPT ![j] = s] BY <1>4
  <2>1. PICK s : GoodWrite(rows[j], s) /\ rows' = [rows EXCEPT ![j] = s] BY <2>0
  <2>2. s \in Row /\ RowOK(s) /\ s.applied = rows[j].applied BY <2>1 DEF GoodWrite, RowOK
  <2>3. \A k \in Jobs : RowOK(rows'[k]) BY <1>1, <1>2, <2>1, <2>2
  <2>4. rows' \in [Jobs -> Row] BY <1>1, <2>1, <2>2
  <2>5. \A k \in Jobs : rows'[k].applied = rows[k].applied BY <1>1, <2>1, <2>2
  <2> QED BY <2>3, <2>4, <2>5 DEF ParkedIsRestorable, RowOK
<1> QED BY <1>3, <1>4 DEF GoodRows

LEMMA WithOutcomeKeeps ==
  ASSUME NEW ss \in Seq(Send), NEW o
  PROVE  /\ WithOutcome(ss, o) \in Seq(Send)
         /\ Len(WithOutcome(ss, o)) = Len(ss)
         /\ ss = << >> => WithOutcome(ss, o) = << >>
         /\ \A i \in 1 .. Len(ss) : WithOutcome(ss, o)[i].docs = ss[i].docs
         /\ \A i \in 1 .. Len(ss) : i < Len(ss) => WithOutcome(ss, o)[i] = ss[i]
<1>1. CASE ss = << >>
  BY <1>1 DEF WithOutcome
<1>2. CASE ss # << >>
  <2> DEFINE n == Len(ss)
             e == o \in TerminalOutcomes
             t == [ss EXCEPT ![n].ended = e]
  <2>1. n \in Nat /\ n >= 1 /\ n \in 1 .. Len(ss) BY <1>2
  <2>2. ss[n] \in Send /\ [ss[n] EXCEPT !.ended = e] \in Send /\ [ss[n] EXCEPT !.ended = e].docs = ss[n].docs
    <3>1. ss[n] \in Send BY <2>1
    <3>2. e \in BOOLEAN OBVIOUS
    <3> HIDE DEF e
    <3> QED BY <3>1, <3>2 DEF Send
  <2>3. t = [ss EXCEPT ![n] = [ss[n] EXCEPT !.ended = e]] BY <2>1
  <2>4. t \in Seq(Send) /\ Len(t) = Len(ss)
        /\ \A i \in 1 .. Len(ss) : t[i] = IF i = n THEN [ss[n] EXCEPT !.ended = e] ELSE ss[i]
    BY <2>1, <2>2, <2>3
  <2>5. WithOutcome(ss, o) = t BY <1>2 DEF WithOutcome
  <2> HIDE DEF t, e, n
  <2>6. \A i \in 1 .. Len(ss) : i < Len(ss) => i # n BY DEF n
  <2> QED BY <1>2, <2>2, <2>4, <2>5, <2>6
<1> QED BY <1>1, <1>2

\* Within the sends of one job: an attempt is followed by another of the same
\* documents only once it has ended.
Attempts(ss) ==
  \A i, k \in DOMAIN ss : i < k /\ ss[i].docs = ss[k].docs => ss[i].ended

LEMMA WithOutcomeAttempts ==
  ASSUME NEW ss \in Seq(Send), NEW o, Attempts(ss)
  PROVE  Attempts(WithOutcome(ss, o))
<1> DEFINE t == WithOutcome(ss, o)
<1>1. t \in Seq(Send) /\ Len(t) = Len(ss)
      /\ (\A i \in 1 .. Len(ss) : t[i].docs = ss[i].docs)
      /\ (\A i \in 1 .. Len(ss) : i < Len(ss) => t[i] = ss[i])
  BY WithOutcomeKeeps
<1> HIDE DEF t
<1>2. DOMAIN t = 1 .. Len(ss) /\ DOMAIN ss = 1 .. Len(ss) BY <1>1
<1>3. ASSUME NEW i \in DOMAIN t, NEW k \in DOMAIN t, i < k, t[i].docs = t[k].docs
      PROVE  t[i].ended
  BY <1>1, <1>2, <1>3 DEF Attempts
<1>4. Attempts(t) BY <1>3 DEF Attempts
<1> QED BY <1>4 DEF t

LEMMA WithSendAttempts ==
  ASSUME NEW ss \in Seq(Send), NEW d \in Docs, Attempts(ss)
  PROVE  WithSend(ss, d) \in Seq(Send) /\ Attempts(WithSend(ss, d))
<1> DEFINE new == [docs |-> d, ended |-> FALSE]
           t == Append(ss, new)
<1>1. CASE StillOpen(ss, d)
  BY <1>1 DEF WithSend
<1>2. CASE ~StillOpen(ss, d)
  <2>1. WithSend(ss, d) = t BY <1>2 DEF WithSend
  <2>2. new \in Send /\ new.docs = d BY DEF Send
  <2>3. ASSUME NEW i \in DOMAIN ss, ss[i].docs = d
        PROVE  ss[i].ended
    <3>1. i \in SameDocs(ss, d) BY <2>3 DEF SameDocs
    <3>2. ss[i].ended \/ \E k \in SameDocs(ss, d) : ~(k <= i) BY <1>2, <3>1 DEF StillOpen
    <3>3. ASSUME NEW k \in SameDocs(ss, d), ~(k <= i)
          PROVE  ss[i].ended
      BY <2>3, <3>3 DEF SameDocs, Attempts
    <3> QED BY <3>2, <3>3
  <2> HIDE DEF new
  <2>4. t \in Seq(Send) /\ DOMAIN t = 1 .. Len(ss) + 1 /\ DOMAIN ss = 1 .. Len(ss)
        /\ t[Len(ss) + 1] = new /\ \A i \in 1 .. Len(ss) : t[i] = ss[i]
    BY <2>2
  <2> HIDE DEF t
  <2>5. ASSUME NEW i \in DOMAIN t, NEW k \in DOMAIN t, i < k, t[i].docs = t[k].docs
        PROVE  t[i].ended
    <3>1. i \in 1 .. Len(ss) /\ t[i] = ss[i] BY <2>4, <2>5
    <3>2. CASE k = Len(ss) + 1
      BY <2>2, <2>3, <2>4, <2>5, <3>1, <3>2
    <3>3. CASE k # Len(ss) + 1
      BY <2>4, <2>5, <3>1, <3>3 DEF Attempts
    <3> QED BY <3>2, <3>3
  <2> QED BY <2>1, <2>4, <2>5 DEF Attempts
<1> QED BY <1>1, <1>2

LEMMA GoodSendsKeep ==
  ASSUME Inv, GoodSends, \A j \in Jobs : rows[j].applied => rows'[j].applied
  PROVE  /\ sends' \in [Jobs -> Seq(Send)]
         /\ SendsAreApplications'
         /\ OneOpenAttempt'
<1>1. sends \in [Jobs -> Seq(Send)] /\ SendsAreApplications BY DEF Inv, TypeOK
<1>2. \A j \in Jobs : Attempts(sends[j]) BY DEF Inv, OneOpenAttempt, Attempts
<1> DEFINE Good(j, ss) == ss \in Seq(Send) /\ Attempts(ss) /\ (ss # << >> => rows'[j].applied)
<1>3. \A j \in Jobs : Good(j, sends[j]) BY <1>1, <1>2 DEF SendsAreApplications
<1>4. SUFFICES sends' \in [Jobs -> Seq(Send)] /\ \A j \in Jobs : Good(j, sends'[j])
  BY DEF SendsAreApplications, OneOpenAttempt, Attempts
<1>5. CASE UNCHANGED sends
  BY <1>1, <1>3, <1>5
<1>6. ASSUME NEW j \in Jobs, NEW o, sends' = [sends EXCEPT ![j] = WithOutcome(@, o)]
      PROVE  sends' \in [Jobs -> Seq(Send)] /\ \A k \in Jobs : Good(k, sends'[k])
  <2>1. Good(j, WithOutcome(sends[j], o))
    BY <1>1, <1>2, <1>3, WithOutcomeKeeps, WithOutcomeAttempts
  <2> HIDE DEF Good
  <2>2. WithOutcome(sends[j], o) \in Seq(Send) BY <2>1 DEF Good
  <2> QED BY <1>1, <1>3, <1>6, <2>1, <2>2
<1>7. ASSUME NEW j \in Jobs, NEW d \in Docs,
             rows[j].applied, sends' = [sends EXCEPT ![j] = WithSend(@, d)]
      PROVE  sends' \in [Jobs -> Seq(Send)] /\ \A k \in Jobs : Good(k, sends'[k])
  <2>1. Good(j, WithSend(sends[j], d)) BY <1>1, <1>2, <1>7, WithSendAttempts
  <2> HIDE DEF Good
  <2>2. WithSend(sends[j], d) \in Seq(Send) BY <2>1 DEF Good
  <2> QED BY <1>1, <1>3, <1>7, <2>1, <2>2
<1> HIDE DEF Good
<1> QED BY <1>5, <1>6, <1>7 DEF GoodSends

-----------------------------------------------------------------------------
(* Lifting: a row step is a step of the life cycle *)

LEMMA LiftStep ==
  ASSUME rows \in [Jobs -> Row], NEW j \in Jobs, NEW s \in Row,
         rows' = [rows EXCEPT ![j] = s], RowStep(rows[j], s)
  PROVE  [Life!LNext]_(Life!lvars)
<1> DEFINE r == rows[j]
           own == [k \in Jobs |-> OwnState(rows[k])]
           parked == [k \in Jobs |-> ParkedState(rows[k])]
           kept == [k \in Jobs |-> rows[k].review = "kept"]
           insists == [k \in Jobs |-> Insists(rows[k])]
<1>1. rows'[j] = s /\ \A k \in Jobs : k # j => rows'[k] = rows[k] OBVIOUS
<1>2. own' = [own EXCEPT ![j] = OwnState(s)] BY <1>1
<1>3. parked' = [parked EXCEPT ![j] = ParkedState(s)] BY <1>1
<1>4. kept' = [kept EXCEPT ![j] = (s.review = "kept")] BY <1>1
<1>5. insists' = [insists EXCEPT ![j] = Insists(s)] BY <1>1
<1>6. /\ own[j] = OwnState(r) /\ parked[j] = ParkedState(r)
      /\ kept[j] = (r.review = "kept") /\ insists[j] = Insists(r)
  OBVIOUS
<1>7. Insists(r) \in BOOLEAN /\ Insists(s) \in BOOLEAN BY DEF Insists, Row
<1>8. (r.review = "kept") \in BOOLEAN /\ (s.review = "kept") \in BOOLEAN OBVIOUS
<1>9. SameKept(r, s) => kept' = kept
  <2>1. SUFFICES ASSUME SameKept(r, s) PROVE kept' = kept OBVIOUS
  <2>2. (s.review = "kept") = (r.review = "kept") BY <2>1, <1>8 DEF SameKept
  <2> QED BY <1>1, <2>2
<1>10. SameInsists(r, s) => insists' = insists
  <2>1. SUFFICES ASSUME SameInsists(r, s) PROVE insists' = insists OBVIOUS
  <2>2. Insists(s) = Insists(r) BY <2>1, <1>7 DEF SameInsists
  <2> QED BY <1>1, <2>2
<1>11. OwnState(s) = OwnState(r) => own' = own
  BY <1>1
<1>12. ParkedState(s) = ParkedState(r) => parked' = parked
  BY <1>1
<1>13. CASE RowMoves(r, s)
  <2>1. Insists(s) = (Insists(r) \/ ParkedState(r) # "no") BY <1>7, <1>13 DEF RowMoves
  <2>2. insists' = [insists EXCEPT ![j] = @ \/ parked[j] # "no"] BY <1>5, <1>6, <2>1
  <2>3. kept[j] /\ kept' = kept BY <1>6, <1>9, <1>13 DEF RowMoves
  <2>4. parked' = [parked EXCEPT ![j] = "no"] BY <1>3, <1>13 DEF RowMoves
  <2>5. \E x \in UserStates : own' = [own EXCEPT ![j] = x] BY <1>2, <1>13 DEF RowMoves
  <2>6. Life!UserMoves(j) BY <2>2, <2>3, <2>4, <2>5 DEF Life!UserMoves
  <2> QED BY <2>6 DEF Life!LNext
<1>14. CASE RowKeeps(r, s)
  <2>1. ~kept[j] BY <1>6, <1>14 DEF RowKeeps
  <2>2. kept' = [kept EXCEPT ![j] = TRUE]
    <3>1. (s.review = "kept") = TRUE BY <1>14 DEF RowKeeps
    <3> QED BY <1>4, <3>1
  <2>3. own' = own /\ parked' = parked /\ insists' = insists
    BY <1>10, <1>11, <1>12, <1>14 DEF RowKeeps, SamePlace
  <2>4. Life!UserKeeps(j) BY <2>1, <2>2, <2>3 DEF Life!UserKeeps
  <2> QED BY <2>4 DEF Life!LNext
<1>15. CASE RowDrops(r, s)
  <2>1. kept[j] /\ parked[j] = "no" /\ own[j] \in ShortlistStates BY <1>6, <1>15 DEF RowDrops
  <2>2. kept' = [kept EXCEPT ![j] = FALSE]
    <3>1. (s.review = "kept") = FALSE BY <1>15 DEF RowDrops
    <3> QED BY <1>4, <3>1
  <2>3. own' = own /\ parked' = parked /\ insists' = insists
    BY <1>10, <1>11, <1>12, <1>15 DEF RowDrops, SamePlace
  <2>4. Life!UserDrops(j) BY <2>1, <2>2, <2>3 DEF Life!UserDrops
  <2> QED BY <2>4 DEF Life!LNext
<1>16. CASE RowSaysOpen(r, s)
  <2>1. Insists(s) = TRUE BY <1>7, <1>16 DEF RowSaysOpen
  <2>2. insists' = [insists EXCEPT ![j] = TRUE] BY <1>5, <2>1
  <2>3. parked' = [parked EXCEPT ![j] = "no"] BY <1>3, <1>16 DEF RowSaysOpen
  <2>4. own' = own /\ kept' = kept BY <1>9, <1>11, <1>16 DEF RowSaysOpen
  <2>5. Life!UserSaysOpen(j) BY <2>2, <2>3, <2>4 DEF Life!UserSaysOpen
  <2> QED BY <2>5 DEF Life!LNext
<1>17. CASE RowSaysClosed(r, s)
  <2>1. Insists(s) = FALSE BY <1>7, <1>17 DEF RowSaysClosed
  <2>2. insists' = [insists EXCEPT ![j] = FALSE] BY <1>5, <2>1
  <2>3. parked' = [parked EXCEPT ![j] =
                     IF kept[j] /\ @ = "no" /\ own[j] \in ShortlistStates
                       THEN "posting_closed" ELSE @]
    BY <1>3, <1>6, <1>17 DEF RowSaysClosed
  <2>4. own' = own /\ kept' = kept BY <1>9, <1>11, <1>17 DEF RowSaysClosed
  <2>5. Life!UserSaysClosed(j) BY <2>2, <2>3, <2>4 DEF Life!UserSaysClosed
  <2> QED BY <2>5 DEF Life!LNext
<1>18. CASE RowParks(r, s)
  <2>1. kept[j] /\ ~insists[j] /\ parked[j] = "no" BY <1>6, <1>18 DEF RowParks
  <2>2. \/ own[j] \in ShortlistStates /\ parked' = [parked EXCEPT ![j] = "posting_closed"]
        \/ own[j] = "applied" /\ parked' = [parked EXCEPT ![j] = "filled"]
    BY <1>3, <1>6, <1>18 DEF RowParks
  <2>3. own' = own /\ kept' = kept /\ insists' = insists
    BY <1>9, <1>10, <1>11, <1>18 DEF RowParks
  <2>4. Life!Parks(j) BY <2>1, <2>2, <2>3 DEF Life!Parks
  <2> QED BY <2>4 DEF Life!LNext
<1>19. CASE RowUnparks(r, s)
  <2>1. parked[j] # "no" BY <1>6, <1>19 DEF RowUnparks
  <2>2. parked' = [parked EXCEPT ![j] = "no"] BY <1>3, <1>19 DEF RowUnparks
  <2>3. own' = own /\ kept' = kept /\ insists' = insists
    BY <1>9, <1>10, <1>11, <1>19 DEF RowUnparks
  <2>4. Life!Unparks(j) BY <2>1, <2>2, <2>3 DEF Life!Unparks
  <2> QED BY <2>4 DEF Life!LNext
<1>20. CASE RowSame(r, s)
  <2>1. own' = own /\ parked' = parked /\ kept' = kept /\ insists' = insists
    BY <1>9, <1>10, <1>11, <1>12, <1>20 DEF RowSame, SamePlace
  <2> QED BY <2>1 DEF Life!lvars
<1> QED BY <1>13, <1>14, <1>15, <1>16, <1>17, <1>18, <1>19, <1>20 DEF RowStep

-----------------------------------------------------------------------------
(* Quiet steps: every action but a move that lands and a submission logged *)

CockpitGoes ==
  \/ cockpit' = cockpit
  \/ cockpit' = Idle
  \/ cockpit'.pc # "send" /\ (cockpit'.send => cockpit'.want = "applied")

Quiet ==
  /\ GoodRows
  /\ GoodSends
  /\ RestOK'
  /\ CockpitGoes
  /\ subs' \subseteq subs
  /\ history' = history

LEMMA QuietKeepsInv ==
  ASSUME Inv, Quiet
  PROVE  Inv' /\ [Life!LNext]_(Life!lvars)
<1>1. rows' \in [Jobs -> Row] /\ ParkedIsRestorable'
      /\ \A j \in Jobs : rows'[j].applied = rows[j].applied
  BY GoodRowsKeep DEF Quiet
<1>2. sends' \in [Jobs -> Seq(Send)] /\ SendsAreApplications' /\ OneOpenAttempt'
  BY <1>1, GoodSendsKeep DEF Quiet
<1>3. TypeOK' BY <1>1, <1>2 DEF Quiet, RestOK, TypeOK, Inv
<1>4. OneApplication' BY <1>1 DEF Inv, OneApplication, Quiet
<1>5. NeverBothUnawares'
  BY <1>1 DEF Inv, NeverBothUnawares, Quiet, SubsForRole
<1>6. CockpitOK'
  <2>1. CASE cockpit' = cockpit
    <3>1. cockpit \in {Idle} \cup Request BY DEF Inv, TypeOK
    <3>2. cockpit # Idle => cockpit.job \in Jobs BY <3>1 DEF Request
    <3> QED BY <1>1, <2>1, <3>2 DEF Inv, CockpitOK
  <2>2. CASE cockpit' = Idle
    BY <2>2 DEF CockpitOK, Idle
  <2>3. CASE cockpit'.pc # "send" /\ (cockpit'.send => cockpit'.want = "applied")
    BY <2>3 DEF CockpitOK
  <2> QED BY <2>1, <2>2, <2>3 DEF Quiet, CockpitGoes
<1>7. [Life!LNext]_(Life!lvars)
  <2>1. CASE UNCHANGED rows
    BY <2>1 DEF Life!lvars
  <2>2. CASE \E j \in Jobs : \E s : GoodWrite(rows[j], s) /\ rows' = [rows EXCEPT ![j] = s]
    <3>0. PICK j \in Jobs : \E s : GoodWrite(rows[j], s) /\ rows' = [rows EXCEPT ![j] = s]
      BY <2>2
    <3>1. PICK s : GoodWrite(rows[j], s) /\ rows' = [rows EXCEPT ![j] = s] BY <3>0
    <3>2. s \in Row /\ RowStep(rows[j], s) BY <3>1 DEF GoodWrite, RowOK
    <3>3. rows \in [Jobs -> Row] BY DEF Inv, TypeOK
    <3> QED BY <3>1, <3>2, <3>3, LiftStep
  <2> QED BY <2>1, <2>2 DEF Quiet, GoodRows
<1> QED BY <1>1, <1>2, <1>3, <1>4, <1>5, <1>6, <1>7 DEF Inv

LEMMA ReviewIsQuiet ==
  ASSUME Inv, NEW j \in Jobs, Keep(j) \/ Archive(j) \/ Unarchive(j) \/ Unkeep(j)
  PROVE  Quiet
<1> DEFINE r == rows[j]
           s(new) == [r EXCEPT !.review = new]
<1>1. RowOK(r) /\ rows \in [Jobs -> Row] BY RowsAreOK DEF Inv, TypeOK
<1>2. ASSUME NEW new \in {"open", "kept", "archived"}
      PROVE  s(new) \in Row /\ s(new).app = r.app /\ s(new).prior = r.prior
             /\ s(new).check = r.check /\ s(new).pinned = r.pinned /\ s(new).closed = r.closed
             /\ s(new).applied = r.applied /\ s(new).review = new
  BY <1>1 DEF RowOK, Row
<1>3. \A new \in {"open", "kept", "archived"} : SamePlace(r, s(new)) /\ SameInsists(r, s(new))
  BY <1>2 DEF SamePlace, SameInsists, OwnState, ParkedState, Insists
<1>4. \E new \in {"open", "kept", "archived"} :
        GoodWrite(r, s(new)) /\ rows' = [rows EXCEPT ![j] = s(new)]
  <2>1. CASE Keep(j)
    <3>1. r.review = "open" /\ rows' = [rows EXCEPT ![j] = s("kept")]
      BY <2>1 DEF Keep, SetReview
    <3>2. RowOK(s("kept")) BY <1>1, <1>2, <3>1 DEF RowOK
    <3>3. RowKeeps(r, s("kept")) BY <1>2, <1>3, <3>1 DEF RowKeeps
    <3> QED BY <1>2, <3>1, <3>2, <3>3 DEF GoodWrite, RowStep
  <2>2. CASE Archive(j)
    <3>1. r.review = "open" /\ rows' = [rows EXCEPT ![j] = s("archived")]
      BY <2>2 DEF Archive, SetReview
    <3>2. RowOK(s("archived")) BY <1>1, <1>2, <3>1 DEF RowOK
    <3>3. RowSame(r, s("archived")) BY <1>2, <1>3, <3>1 DEF RowSame, SameKept
    <3> QED BY <1>2, <3>1, <3>2, <3>3 DEF GoodWrite, RowStep
  <2>3. CASE Unarchive(j)
    <3>1. r.review = "archived" /\ rows' = [rows EXCEPT ![j] = s("open")]
      BY <2>3 DEF Unarchive, SetReview
    <3>2. RowOK(s("open")) BY <1>1, <1>2, <3>1 DEF RowOK
    <3>3. RowSame(r, s("open")) BY <1>2, <1>3, <3>1 DEF RowSame, SameKept
    <3> QED BY <1>2, <3>1, <3>2, <3>3 DEF GoodWrite, RowStep
  <2>4. CASE Unkeep(j)
    <3>1. r.review = "kept" /\ r.app \in ShortlistStates /\ rows' = [rows EXCEPT ![j] = s("open")]
      BY <2>4 DEF Unkeep, SetReview
    <3>2. r.app \notin ClosureStates BY <3>1, StatesApart
    <3>3. RowOK(s("open")) BY <1>2, <3>2 DEF RowOK
    <3>4. RowDrops(r, s("open"))
      BY <1>2, <1>3, <3>1, <3>2 DEF RowDrops, ParkedState, OwnState
    <3> QED BY <1>2, <3>1, <3>3, <3>4 DEF GoodWrite, RowStep
  <2> QED BY <2>1, <2>2, <2>3, <2>4
<1>5. UNCHANGED <<docs, sends, subs, page, cockpit, pass, history>>
  BY DEF Keep, Archive, Unarchive, Unkeep, SetReview
<1> HIDE DEF s, r
<1>6. GoodRows
  BY <1>4 DEF GoodRows, r
<1> QED BY <1>5, <1>6 DEF Quiet, GoodSends, RestOK, CockpitGoes, Inv, TypeOK

\* A verdict on a row, with the outcome that may go with it.
LEMMA WriteVerdictIsGood ==
  ASSUME NEW j \in Jobs, NEW r, GoodWrite(rows[j], r), WriteVerdict(j, r)
  PROVE  GoodRows /\ GoodSends
<1>1. GoodRows BY DEF GoodRows, WriteVerdict
<1>2. GoodSends BY DEF GoodSends, WriteVerdict
<1> QED BY <1>1, <1>2

LEMMA CockpitFormsAreQuiet ==
  ASSUME Inv, NEW j \in Jobs,
         \/ \E open \in BOOLEAN : PostingVerdict(j, open)
         \/ SaveManualLink(j)
         \/ ClearManualLink(j)
         \/ Render(j)
  PROVE  Quiet
<1>1. RowOK(rows[j]) /\ rows \in [Jobs -> Row] BY RowsAreOK DEF Inv, TypeOK
<1>2. RestOK BY DEF Inv, TypeOK, RestOK
<1>3. CASE \E open \in BOOLEAN : PostingVerdict(j, open)
  <2>1. PICK open \in BOOLEAN : PostingVerdict(j, open) BY <1>3
  <2>2. GoodWrite(rows[j], ManualVerdict(rows[j], open))
    BY <1>1, ManualOpenIsGood, ManualClosedIsGood
  <2>3. GoodRows /\ GoodSends BY <2>1, <2>2, WriteVerdictIsGood DEF PostingVerdict
  <2> QED BY <1>2, <2>1, <2>3 DEF Quiet, PostingVerdict, CockpitGoes, RestOK
<1>4. ASSUME NEW link \in {"none", "found", "manual"}, rows' = [rows EXCEPT ![j].link = link],
             UNCHANGED <<docs, sends, subs, page, cockpit, pass, history>>
      PROVE  Quiet
  <2> DEFINE s == [rows[j] EXCEPT !.link = link]
  <2>1. GoodWrite(rows[j], s)
    BY <1>1, LinkIsGood DEF GoodWrite, RowStep
  <2>2. rows' = [rows EXCEPT ![j] = s] BY <1>4
  <2> HIDE DEF s
  <2>3. GoodRows BY <2>1, <2>2 DEF GoodRows
  <2> QED BY <1>2, <1>4, <2>3 DEF Quiet, GoodSends, RestOK, CockpitGoes
<1>5. CASE SaveManualLink(j)
  BY <1>4, <1>5 DEF SaveManualLink
<1>6. CASE ClearManualLink(j)
  BY <1>4, <1>6 DEF ClearManualLink
<1>7. CASE Render(j)
  <2>1. SubsForRole(j) \in SUBSET Submission BY <1>2 DEF SubsForRole, RestOK
  <2>2. page' \in [Jobs -> SUBSET Submission] BY <1>2, <1>7, <2>1 DEF Render, RestOK
  <2> QED BY <1>2, <1>7, <2>2 DEF Quiet, Render, GoodRows, GoodSends, RestOK, CockpitGoes
<1> QED BY <1>3, <1>5, <1>6, <1>7

\* Everything but the cockpit's request and the pages stays as it is.
LEMMA BeginIsQuiet ==
  ASSUME Inv, NEW j \in Jobs, NEW want \in UserStates, NEW from \in SUBSET AppStates,
         NEW send \in BOOLEAN, NEW outcome \in BOOLEAN, send => want = "applied",
         Begin(j, want, from, send, outcome)
  PROVE  Quiet
<1>1. RestOK BY DEF Inv, TypeOK, RestOK
<1>2. cockpit' = [pc |-> "move", job |-> j, want |-> want, from |-> from,
                  send |-> send, outcome |-> outcome, shown |-> page[j]]
  BY DEF Begin
<1>3. page[j] \in SUBSET Submission BY <1>1 DEF RestOK
<1>4. cockpit' \in Request BY <1>2, <1>3 DEF Request
<1>5. CockpitGoes BY <1>2 DEF CockpitGoes
<1>6. page' \in [Jobs -> SUBSET Submission] BY <1>1 DEF RestOK, Begin
<1> QED BY <1>1, <1>4, <1>5, <1>6 DEF Quiet, Begin, GoodRows, GoodSends, RestOK

LEMMA MovesBeginQuietly ==
  ASSUME Inv, NEW j \in Jobs,
         MarkApplied(j) \/ Advance(j) \/ Withdraw(j) \/ Reopen(j) \/ SetStatus(j)
  PROVE  Quiet
<1>1. rows[j] \in Row BY DEF Inv, TypeOK
<1>2. CASE MarkApplied(j)
  <2>1. ShortlistStates \in SUBSET AppStates BY StatesApart
  <2> QED BY <1>2, <2>1, BeginIsQuiet, StatesApart DEF MarkApplied
<1>3. CASE Advance(j)
  <2> DEFINE next == NextStage(rows[j].app)
  <2>1. next \in UserStates
    BY <1>3 DEF Advance, NextStage, InProcessStates, UserStates
  <2>2. {rows[j].app} \in SUBSET AppStates BY <1>1 DEF Row
  <2>3. Begin(j, next, {rows[j].app}, FALSE, TRUE) BY <1>3 DEF Advance
  <2> HIDE DEF next
  <2> QED BY <2>1, <2>2, <2>3, BeginIsQuiet
<1>4. CASE Withdraw(j)
  <2>1. InProcessStates \in SUBSET AppStates BY StatesApart
  <2> QED BY <1>4, <2>1, BeginIsQuiet, StatesApart DEF Withdraw
<1>5. CASE Reopen(j)
  <2>1. {rows[j].app} \in SUBSET AppStates BY <1>1 DEF Row
  <2>2. \/ Begin(j, "applied", {rows[j].app}, FALSE, TRUE)
        \/ Begin(j, "", {rows[j].app}, FALSE, FALSE)
    BY <1>5 DEF Reopen
  <2> QED BY <2>1, <2>2, BeginIsQuiet, StatesApart
<1>6. CASE SetStatus(j)
  <2>1. PICK status \in Menu :
          Begin(j, status, AppStates, status = "applied" /\ ~rows[j].applied, status # "drafted")
    BY <1>6 DEF SetStatus
  <2>2. status \in UserStates BY TrackerAssumption DEF TrackerAssumption
  <2> DEFINE send == status = "applied" /\ ~rows[j].applied
             outcome == status # "drafted"
  <2>3. send \in BOOLEAN /\ outcome \in BOOLEAN /\ (send => status = "applied") OBVIOUS
  <2>4. AppStates \in SUBSET AppStates OBVIOUS
  <2>5. Begin(j, status, AppStates, send, outcome) BY <2>1
  <2> HIDE DEF send, outcome
  <2> QED BY <2>2, <2>3, <2>4, <2>5, BeginIsQuiet
<1> QED BY <1>2, <1>3, <1>4, <1>5, <1>6

LEMMA AfterIsRequest ==
  ASSUME NEW req \in Request, NEW done \in {"move", "send", "outcome"}
  PROVE  /\ After(req, done) \in {Idle} \cup Request
         /\ After(req, done) # Idle =>
              /\ After(req, done).send = req.send /\ After(req, done).want = req.want
              /\ After(req, done).job = req.job
              /\ After(req, done).pc = "send" => req.send /\ done = "move"
<1>1. CASE done = "move" /\ req.send
  <2> DEFINE t == [req EXCEPT !.pc = "send"]
  <2>1. After(req, done) = t BY <1>1 DEF After
  <2>2. t \in Request /\ t.send = req.send /\ t.want = req.want /\ t.job = req.job
    BY DEF Request
  <2> QED BY <1>1, <2>1, <2>2
<1>2. CASE ~(done = "move" /\ req.send) /\ done # "outcome" /\ req.outcome
  <2> DEFINE t == [req EXCEPT !.pc = "outcome"]
  <2>1. After(req, done) = t BY <1>2 DEF After
  <2>2. t \in Request /\ t.send = req.send /\ t.want = req.want /\ t.job = req.job
        /\ t.pc = "outcome"
    BY DEF Request
  <2> QED BY <2>1, <2>2
<1>3. CASE After(req, done) = Idle
  BY <1>3
<1> QED BY <1>1, <1>2, <1>3 DEF After

LEMMA CockpitAtWork ==
  ASSUME Inv, cockpit.pc \in {"move", "send", "outcome"}
  PROVE  cockpit \in Request /\ cockpit.job \in Jobs /\ cockpit.want \in UserStates
<1>1. cockpit \in {Idle} \cup Request BY DEF Inv, TypeOK
<1>2. cockpit # Idle BY DEF Idle
<1> QED BY <1>1, <1>2 DEF Request

LEMMA BookkeepingIsQuiet ==
  ASSUME Inv, MoveRefused \/ RecordSend \/ RecordOutcome \/ CockpitDies
  PROVE  Quiet
<1>1. RestOK BY DEF Inv, TypeOK, RestOK
<1>2. CASE MoveRefused
  BY <1>1, <1>2 DEF Quiet, MoveRefused, GoodRows, GoodSends, RestOK, CockpitGoes
<1>3. CASE RecordSend
  <2>1. cockpit \in Request /\ cockpit.job \in Jobs BY <1>3, CockpitAtWork DEF RecordSend
  <2>2. cockpit # Idle BY <1>3 DEF Idle, RecordSend
  <2>3. rows[cockpit.job].applied /\ cockpit.want = "applied"
    BY <1>3, <2>2 DEF Inv, CockpitOK, RecordSend
  <2>4. docs[cockpit.job] # "none" => docs[cockpit.job] \in Docs BY <1>1, <2>1 DEF RestOK
  <2>5. GoodSends BY <1>3, <2>1, <2>3, <2>4 DEF GoodSends, RecordSend
  <2>6. cockpit' = After(cockpit, "send") BY <1>3 DEF RecordSend
  <2>7. cockpit' \in {Idle} \cup Request /\ CockpitGoes
    BY <2>1, <2>3, <2>6, AfterIsRequest DEF CockpitGoes
  <2> QED BY <1>1, <1>3, <2>5, <2>7 DEF Quiet, RecordSend, GoodRows, RestOK
<1>4. CASE RecordOutcome
  <2>1. cockpit.job \in Jobs BY <1>4, CockpitAtWork DEF RecordOutcome
  <2>2. GoodSends BY <1>4, <2>1 DEF GoodSends, RecordOutcome
  <2> QED BY <1>1, <1>4, <2>2 DEF Quiet, RecordOutcome, GoodRows, RestOK, CockpitGoes
<1>5. CASE CockpitDies
  BY <1>1, <1>5 DEF Quiet, CockpitDies, GoodRows, GoodSends, RestOK, CockpitGoes
<1> QED BY <1>2, <1>3, <1>4, <1>5

LEMMA SurroundingsAreQuiet ==
  ASSUME Inv,
         \/ \E j \in Jobs : DocumentsChange(j) \/ PostingAges(j)
         \/ \E s \in subs : DeleteSubmission(s)
  PROVE  Quiet
<1>1. RestOK /\ rows \in [Jobs -> Row] BY DEF Inv, TypeOK, RestOK
<1>2. ASSUME NEW j \in Jobs, DocumentsChange(j)
      PROVE  Quiet
  <2>1. docs' \in [Jobs -> Docs \cup {"none"}] BY <1>1, <1>2 DEF RestOK, DocumentsChange
  <2> QED BY <1>1, <1>2, <2>1 DEF Quiet, DocumentsChange, GoodRows, GoodSends, RestOK, CockpitGoes
<1>3. ASSUME NEW j \in Jobs, PostingAges(j)
      PROVE  Quiet
  <2> DEFINE s == [rows[j] EXCEPT !.closed = "due"]
  <2>1. RowOK(rows[j]) BY RowsAreOK
  <2>2. s \in Row /\ s.closed = "due" /\ s.app = rows[j].app /\ s.prior = rows[j].prior
        /\ s.review = rows[j].review /\ s.applied = rows[j].applied
        /\ s.pinned = rows[j].pinned /\ s.check = rows[j].check
    BY <2>1 DEF RowOK, Row
  <2>3. rows' = [rows EXCEPT ![j] = s] BY <1>3 DEF PostingAges
  <2> HIDE DEF s
  <2>4. RowOK(s) BY <2>1, <2>2 DEF RowOK
  <2>5. RowSame(rows[j], s)
    BY <2>2 DEF RowSame, SamePlace, SameKept, SameInsists, OwnState, ParkedState, Insists
  <2>6. GoodRows BY <2>2, <2>3, <2>4, <2>5 DEF GoodRows, GoodWrite, RowStep
  <2> QED BY <1>1, <1>3, <2>6 DEF Quiet, PostingAges, GoodSends, RestOK, CockpitGoes
<1>4. ASSUME NEW s \in subs, DeleteSubmission(s)
      PROVE  Quiet
  BY <1>1, <1>4 DEF Quiet, DeleteSubmission, GoodRows, GoodSends, RestOK, CockpitGoes
<1> QED BY <1>2, <1>3, <1>4

Rows == [pc : {"rows"}, auto : BOOLEAN, seen : UNION {[S -> Seen] : S \in SUBSET Jobs}]
Sweep == [pc : {"sweep"}, due : SUBSET Jobs]

LEMMA PassKinds ==
  ASSUME Inv
  PROVE  /\ pass.pc = "rows" => pass \in Rows
         /\ pass.pc = "sweep" => pass \in Sweep
<1>1. pass \in {NoPass} \cup Rows \cup Sweep BY DEF Inv, TypeOK, PassState, Rows, Sweep
<1>2. pass = NoPass => pass.pc = "none" BY DEF NoPass
<1>3. pass \in Rows => pass.pc = "rows" BY DEF Rows
<1>4. pass \in Sweep => pass.pc = "sweep" BY DEF Sweep
<1> QED BY <1>1, <1>2, <1>3, <1>4

LEMMA RowDoneKeepsType ==
  ASSUME Inv, NEW j \in ToCheck, RowDone(j)
  PROVE  j \in Jobs /\ pass.auto \in BOOLEAN /\ pass' \in PassState
<1>1. pass.pc = "rows" /\ j \in DOMAIN pass.seen BY DEF ToCheck
<1>2. pass \in Rows BY <1>1, PassKinds
<1>3. PICK S \in SUBSET Jobs : pass.seen \in [S -> Seen] BY <1>2 DEF Rows
<1>4. DOMAIN pass.seen = S BY <1>3
<1> DEFINE f == [k \in DOMAIN pass.seen \ {j} |-> pass.seen[k]]
<1>5. f \in [S \ {j} -> Seen] /\ S \ {j} \in SUBSET Jobs BY <1>3, <1>4
<1> HIDE DEF f
<1>6. f \in UNION {[T -> Seen] : T \in SUBSET Jobs} BY <1>5
<1>7. pass' = [pass EXCEPT !.seen = f] BY DEF RowDone, f
<1>8. pass' \in Rows BY <1>2, <1>6, <1>7 DEF Rows
<1>9. pass.auto \in BOOLEAN BY <1>2 DEF Rows
<1> QED BY <1>1, <1>3, <1>4, <1>8, <1>9 DEF PassState, Rows

\* Whatever the pass saw, it decides on a row that differs from the table's by a link.
LEMMA RecordIsQuiet ==
  ASSUME Inv, NEW j \in ToCheck, NEW r, RowOK(r), RowSame(rows[j], r),
         r.applied = rows[j].applied, NEW verdict \in Verdicts, NEW checked \in BOOLEAN,
         Record(j, r, verdict, checked)
  PROVE  Quiet
<1>1. RestOK BY DEF Inv, TypeOK, RestOK
<1>2. j \in Jobs /\ pass.auto \in BOOLEAN /\ pass' \in PassState
  BY RowDoneKeepsType DEF Record
<1> DEFINE s == Apply(r, pass.seen[j], verdict, checked, pass.auto)
<1>3. GoodWrite(r, s) BY <1>2, ApplyIsGood
<1>4. GoodWrite(rows[j], s) BY <1>3, SameThenGood
<1>5. WriteVerdict(j, s) BY DEF Record
<1> HIDE DEF s
<1>6. GoodRows /\ GoodSends BY <1>2, <1>4, <1>5, WriteVerdictIsGood
<1> QED BY <1>1, <1>2, <1>6 DEF Quiet, Record, RestOK, CockpitGoes

LEMMA PassChecksAreQuiet ==
  ASSUME Inv, NEW j \in Jobs, PassChecks(j)
  PROVE  Quiet
<1>1. RestOK BY DEF Inv, TypeOK, RestOK
<1>2. RowOK(rows[j]) BY RowsAreOK
<1> DEFINE Plain(r) == RowOK(r) /\ RowSame(rows[j], r) /\ r.applied = rows[j].applied
<1>3. Plain(rows[j])
  BY <1>2 DEF RowSame, SamePlace, SameKept, SameInsists
<1>4. \A link \in {"none", "found", "manual"} : Plain([rows[j] EXCEPT !.link = link])
  BY <1>2, LinkIsGood
<1>5. Plain(WithLink(rows[j])) BY <1>3, <1>4 DEF WithLink
<1>6. {"open", "closed", "unproven"} \subseteq Verdicts BY DEF Verdicts
<1>7. CASE OwnSourceDecides(j)
  <2>1. PICK verdict \in {"open", "closed"} : Record(j, rows[j], verdict, FALSE)
    BY <1>7 DEF OwnSourceDecides
  <2> QED BY <1>3, <1>6, <1>7, <2>1, RecordIsQuiet DEF OwnSourceDecides
<1>8. CASE RowLeftAlone(j)
  <2>1. pass' \in PassState BY <1>8, RowDoneKeepsType DEF RowLeftAlone
  <2> QED
    BY <1>1, <1>8, <2>1 DEF Quiet, RowLeftAlone, GoodRows, GoodSends, RestOK, CockpitGoes
<1>9. CASE LinkDecides(j)
  <2>1. \E verdict \in Verdicts, checked \in BOOLEAN : Record(j, rows[j], verdict, checked)
    BY <1>6, <1>9 DEF LinkDecides
  <2> QED BY <1>3, <1>9, <2>1, RecordIsQuiet DEF LinkDecides
<1>10. CASE LinkDropped(j)
  <2> DEFINE r == IF rows[j].pinned THEN rows[j] ELSE [rows[j] EXCEPT !.link = "none"]
  <2>1. Plain(r) BY <1>3, <1>4
  <2>2. Record(j, r, "unproven", TRUE) /\ j \in ToCheck BY <1>10 DEF LinkDropped
  <2> HIDE DEF r
  <2> QED BY <1>6, <2>1, <2>2, RecordIsQuiet
<1>11. CASE LinkFound(j)
  <2>1. \E verdict \in Verdicts, checked \in BOOLEAN :
          Record(j, WithLink(rows[j]), verdict, checked)
    BY <1>6, <1>11 DEF LinkFound
  <2> QED BY <1>5, <1>11, <2>1, RecordIsQuiet DEF LinkFound
<1>12. CASE NothingFound(j)
  <2>1. \E checked \in BOOLEAN : Record(j, rows[j], "unproven", checked)
    BY <1>12 DEF NothingFound
  <2> QED BY <1>3, <1>6, <1>12, <2>1, RecordIsQuiet DEF NothingFound
<1> QED BY <1>7, <1>8, <1>9, <1>10, <1>11, <1>12 DEF PassChecks

LEMMA PassFrameIsQuiet ==
  ASSUME Inv,
         \/ \E auto \in Passes : PassBegins(auto)
         \/ \E j \in Jobs : SweepFills(j)
         \/ SweepBegins
         \/ PassEnds
  PROVE  Quiet
<1>1. RestOK /\ rows \in [Jobs -> Row] BY DEF Inv, TypeOK, RestOK
<1>2. ASSUME NEW auto \in Passes, PassBegins(auto)
      PROVE  Quiet
  <2> DEFINE S == {k \in Jobs : ~rows[k].pinned}
             f == [j \in S |-> [review |-> rows[j].review, check |-> rows[j].check,
                                link |-> rows[j].link]]
  <2>1. f \in [S -> Seen] /\ S \in SUBSET Jobs BY <1>1 DEF Row, Seen
  <2>2. pass' = [pc |-> "rows", auto |-> auto, seen |-> f] BY <1>2 DEF PassBegins
  <2> HIDE DEF f, S
  <2>3. f \in UNION {[T -> Seen] : T \in SUBSET Jobs} BY <2>1
  <2>4. auto \in BOOLEAN BY TrackerAssumption DEF TrackerAssumption
  <2>5. pass' \in PassState BY <2>2, <2>3, <2>4 DEF PassState
  <2> QED
    BY <1>1, <1>2, <2>5 DEF Quiet, PassBegins, GoodRows, GoodSends, RestOK, CockpitGoes
<1>3. ASSUME NEW j \in Jobs, SweepFills(j)
      PROVE  Quiet
  <2>1. GoodWrite(rows[j], Filled(rows[j])) BY RowsAreOK, FilledIsGood
  <2>2. rows' = [rows EXCEPT ![j] = Filled(rows[j])] BY <1>3 DEF SweepFills
  <2>3. GoodRows BY <2>1, <2>2 DEF GoodRows
  <2>4. GoodSends BY <1>3 DEF SweepFills, GoodSends
  <2>5. pass \in Sweep BY <1>3, PassKinds DEF SweepFills
  <2>6. pass' = [pass EXCEPT !.due = @ \ {j}] BY <1>3 DEF SweepFills
  <2>7. pass' \in PassState BY <2>5, <2>6 DEF PassState, Sweep
  <2> QED BY <1>1, <1>3, <2>3, <2>4, <2>7 DEF Quiet, SweepFills, RestOK, CockpitGoes
<1>4. CASE SweepBegins
  <2> DEFINE due == {j \in Jobs : pass.auto /\ Fillable(rows[j])}
  <2>1. pass' = [pc |-> "sweep", due |-> due] /\ due \in SUBSET Jobs BY <1>4 DEF SweepBegins
  <2> HIDE DEF due
  <2>2. pass' \in PassState BY <2>1 DEF PassState
  <2> QED
    BY <1>1, <1>4, <2>2 DEF Quiet, SweepBegins, GoodRows, GoodSends, RestOK, CockpitGoes
<1>5. CASE PassEnds
  BY <1>1, <1>5 DEF Quiet, PassEnds, PassState, GoodRows, GoodSends, RestOK, CockpitGoes
<1> QED BY <1>2, <1>3, <1>4, <1>5

-----------------------------------------------------------------------------
(* The two other actions, and the theorems *)

\* A new submission stands beside an application only when it went in anyway.
LEMMA LogSubmissionKeepsInv ==
  ASSUME Inv, NEW j \in Jobs, NEW who \in Recruiters, LogSubmission(j, who)
  PROVE  Inv' /\ [Life!LNext]_(Life!lvars)
<1>1. UNCHANGED <<rows, docs, sends, page, cockpit, pass, history>> BY DEF LogSubmission
<1>2. PICK id \in 1 .. MaxIds :
        subs' = subs \cup {[id |-> id, job |-> j, who |-> who, anyway |-> AppliedBefore(j) # {}]}
  BY DEF LogSubmission
<1> DEFINE x == [id |-> id, job |-> j, who |-> who, anyway |-> AppliedBefore(j) # {}]
<1>3. x \in Submission /\ x.job = j /\ x.anyway = (AppliedBefore(j) # {}) BY DEF Submission
<1>4. subs' = subs \cup {x} BY <1>2
<1> HIDE DEF x
<1>5. TypeOK' BY <1>1, <1>3, <1>4 DEF Inv, TypeOK
<1>6. NeverBothUnawares'
  <2>1. SUFFICES ASSUME NEW k \in Jobs, rows[k].applied, ~history[k].acked,
                        NEW s \in subs \cup {x}, s.job \in Role[k]
                 PROVE  s.anyway
    BY <1>1, <1>4 DEF NeverBothUnawares, SubsForRole
  <2>2. CASE s \in subs
    BY <2>1, <2>2 DEF Inv, NeverBothUnawares, SubsForRole
  <2>3. CASE s = x
    <3>1. k \in Role[j] BY <1>3, <2>1, <2>3, TrackerAssumption DEF TrackerAssumption
    <3>2. k \in AppliedBefore(j) BY <2>1, <3>1 DEF AppliedBefore
    <3> QED BY <1>3, <2>3, <3>2
  <2> QED BY <2>1, <2>2, <2>3
<1>7. ParkedIsRestorable' /\ OneApplication' /\ SendsAreApplications' /\ OneOpenAttempt'
      /\ CockpitOK'
  BY <1>1 DEF Inv, ParkedIsRestorable, OneApplication, SendsAreApplications, OneOpenAttempt,
              CockpitOK
<1>8. UNCHANGED Life!lvars BY <1>1 DEF Life!lvars
<1> QED BY <1>5, <1>6, <1>7, <1>8 DEF Inv

\* A move that lands: the first one into applied is counted, and was not refused.
LEMMA MoveLandsKeepsInv ==
  ASSUME Inv, MoveLands
  PROVE  Inv' /\ [Life!LNext]_(Life!lvars)
<1> DEFINE j == cockpit.job
           want == cockpit.want
           s == Moved(rows[j], want)
           first == FirstApplication(rows[j], want)
           h == [applications |-> history[j].applications + 1,
                 acked |-> SubsForRole(j) # {}]
<1>1. cockpit \in Request /\ j \in Jobs /\ want \in UserStates
  BY CockpitAtWork DEF MoveLands
<1>2. /\ rows \in [Jobs -> Row] /\ history \in [Jobs -> History]
      /\ RowOK(rows[j]) /\ rows[j].review = "kept"
  BY <1>1, RowsAreOK DEF Inv, TypeOK, MoveLands, CanMove
<1>3. RowOK(s) /\ RowStep(rows[j], s) /\ s.applied = (rows[j].applied \/ want = "applied")
  BY <1>1, <1>2, MovedIsGood
<1>4. s \in Row BY <1>3 DEF RowOK
<1>5. rows' = [rows EXCEPT ![j] = s] BY DEF MoveLands
<1>6. history' = IF ~first THEN history ELSE [history EXCEPT ![j] = h] BY DEF MoveLands
<1>7. ~Refused(j, want, cockpit.shown) BY DEF MoveLands
<1>8. cockpit' = After(cockpit, "move") BY DEF MoveLands
<1>9. UNCHANGED <<docs, sends, subs, page, pass>> BY DEF MoveLands
<1>10. first => want = "applied" /\ ~rows[j].applied BY DEF FirstApplication
<1>11. ~first => s.applied = rows[j].applied
  <2>1. rows[j].applied \in BOOLEAN BY <1>2, <1>1 DEF Row
  <2> QED BY <1>3, <2>1 DEF FirstApplication
<1>12. first => s.applied BY <1>3, <1>10
<1>13. h \in History /\ h.applications = history[j].applications + 1
       /\ h.acked = (SubsForRole(j) # {})
  <2>1. history[j].applications \in Nat BY <1>1, <1>2 DEF History
  <2> QED BY <2>1 DEF History
<1> HIDE DEF s, h, first
<1>14. rows' \in [Jobs -> Row] /\ rows'[j] = s /\ \A k \in Jobs : k # j => rows'[k] = rows[k]
  BY <1>1, <1>2, <1>4, <1>5
<1>15. history' \in [Jobs -> History] /\ (\A k \in Jobs : k # j => history'[k] = history[k])
       /\ history'[j] = IF first THEN h ELSE history[j]
  BY <1>1, <1>2, <1>6, <1>13
<1>16. TypeOK'
  <2>1. cockpit' \in {Idle} \cup Request BY <1>1, <1>8, AfterIsRequest
  <2> QED BY <1>9, <1>14, <1>15, <2>1 DEF Inv, TypeOK
<1>17. ParkedIsRestorable'
  BY <1>3, <1>14 DEF Inv, ParkedIsRestorable, RowOK
<1>18. OneApplication'
  <2>1. \A k \in Jobs : k # j =>
          history'[k].applications = IF rows'[k].applied THEN 1 ELSE 0
    BY <1>14, <1>15 DEF Inv, OneApplication
  <2>2. history[j].applications = IF rows[j].applied THEN 1 ELSE 0
    BY <1>1 DEF Inv, OneApplication
  <2>3. history'[j].applications = IF rows'[j].applied THEN 1 ELSE 0
    <3>1. CASE first BY <1>10, <1>12, <1>13, <1>14, <1>15, <2>2, <3>1
    <3>2. CASE ~first BY <1>11, <1>14, <1>15, <2>2, <3>2
    <3> QED BY <3>1, <3>2
  <2> QED BY <2>1, <2>3 DEF OneApplication
<1>19. \A k \in Jobs : rows[k].applied => rows'[k].applied
  BY <1>3, <1>14
<1>20. SendsAreApplications' /\ OneOpenAttempt'
  BY <1>9, <1>19, GoodSendsKeep DEF GoodSends
<1>21. NeverBothUnawares'
  <2>1. SUFFICES ASSUME NEW k \in Jobs, rows'[k].applied
                 PROVE  history'[k].acked \/ \A x \in SubsForRole(k) : x.anyway
    BY <1>9 DEF NeverBothUnawares, SubsForRole
  <2>2. CASE k = j /\ first
    BY <1>13, <1>15, <2>2
  <2>3. CASE ~(k = j /\ first)
    <3>1. rows[k].applied /\ history'[k] = history[k] BY <1>11, <1>14, <1>15, <2>1, <2>3
    <3> QED BY <3>1 DEF Inv, NeverBothUnawares
  <2> QED BY <2>2, <2>3
<1>22. CockpitOK'
  <2>1. SUFFICES ASSUME cockpit' # Idle
                 PROVE  /\ cockpit'.send => cockpit'.want = "applied"
                        /\ cockpit'.pc = "send" => cockpit'.send /\ rows'[cockpit'.job].applied
    BY DEF CockpitOK
  <2>2. cockpit'.send = cockpit.send /\ cockpit'.want = want /\ cockpit'.job = j
        /\ (cockpit'.pc = "send" => cockpit.send)
    BY <1>1, <1>8, <2>1, AfterIsRequest
  <2>3. cockpit.send => want = "applied"
    <3>1. cockpit # Idle BY DEF MoveLands, Idle
    <3> QED BY <3>1 DEF Inv, CockpitOK
  <2>4. want = "applied" => rows'[j].applied BY <1>3, <1>14
  <2> QED BY <2>2, <2>3, <2>4
<1>23. [Life!LNext]_(Life!lvars)
  BY <1>1, <1>2, <1>3, <1>4, <1>5, LiftStep
<1> QED BY <1>16, <1>17, <1>18, <1>20, <1>21, <1>22, <1>23 DEF Inv

LEMMA InitOK ==
  ASSUME Init
  PROVE  Inv /\ Life!LInit
<1>1. PICK own \in [Jobs -> BOOLEAN] : rows = [j \in Jobs |-> NewRow(own[j])] BY DEF Init
<1>2. \A j \in Jobs : /\ rows[j] \in Row /\ rows[j].app = "" /\ ~rows[j].applied
                      /\ rows[j].review = "open" /\ ~rows[j].pinned
  BY <1>1, StatesApart DEF NewRow, Row, Verdicts
<1>3. rows \in [Jobs -> Row] BY <1>1, <1>2
<1>4. "" \notin ClosureStates BY StatesApart
<1>5. TypeOK
  <2>1. history \in [Jobs -> History] BY DEF Init, History
  <2>2. sends \in [Jobs -> Seq(Send)] BY DEF Init
  <2> QED BY <1>3, <2>1, <2>2 DEF Init, TypeOK, PassState
<1>6. ParkedIsRestorable /\ OneApplication /\ SendsAreApplications /\ OneOpenAttempt
      /\ NeverBothUnawares /\ CockpitOK
  <2>1. ParkedIsRestorable BY <1>2, <1>4 DEF ParkedIsRestorable
  <2>2. OneApplication BY <1>2 DEF Init, OneApplication
  <2>3. \A j \in Jobs : sends[j] = << >> BY DEF Init
  <2>4. SendsAreApplications BY <2>3 DEF SendsAreApplications
  <2>5. OneOpenAttempt BY <2>3 DEF OneOpenAttempt
  <2>6. NeverBothUnawares BY <1>2 DEF NeverBothUnawares
  <2>7. CockpitOK BY DEF Init, CockpitOK
  <2> QED BY <2>1, <2>2, <2>4, <2>5, <2>6, <2>7
<1>7. Life!LInit
  <2>1. \A j \in Jobs : OwnState(rows[j]) = "" /\ ParkedState(rows[j]) = "no"
                        /\ (rows[j].review = "kept") = FALSE /\ Insists(rows[j]) = FALSE
    BY <1>2, <1>4 DEF OwnState, ParkedState, Insists
  <2> QED BY <2>1 DEF Life!LInit
<1> QED BY <1>5, <1>6, <1>7 DEF Inv

LEMMA StepOK ==
  ASSUME Inv, [Next]_vars
  PROVE  Inv' /\ [Life!LNext]_(Life!lvars)
<1>1. CASE UNCHANGED vars
  <2>1. Quiet
    BY <1>1 DEF vars, Quiet, GoodRows, GoodSends, RestOK, CockpitGoes, Inv, TypeOK
  <2> QED BY <2>1, QuietKeepsInv
<1>2. ASSUME NEW j \in Jobs, UserActs(j)
      PROVE  Inv' /\ [Life!LNext]_(Life!lvars)
  <2>1. CASE \E who \in Recruiters : LogSubmission(j, who)
    BY <2>1, LogSubmissionKeepsInv
  <2>2. CASE ~\E who \in Recruiters : LogSubmission(j, who)
    <3>1. Quiet
      BY <1>2, <2>2, ReviewIsQuiet, CockpitFormsAreQuiet, MovesBeginQuietly DEF UserActs
    <3> QED BY <3>1, QuietKeepsInv
  <2> QED BY <2>1, <2>2
<1>3. CASE MoveLands
  BY <1>3, MoveLandsKeepsInv
<1>4. CASE MoveRefused \/ RecordSend \/ RecordOutcome \/ CockpitDies
  BY <1>4, BookkeepingIsQuiet, QuietKeepsInv
<1>5. CASE \/ \E j \in Jobs : DocumentsChange(j) \/ PostingAges(j)
           \/ \E s \in subs : DeleteSubmission(s)
  BY <1>5, SurroundingsAreQuiet, QuietKeepsInv
<1>6. CASE PassWorks
  <2>1. CASE \E j \in Jobs : PassChecks(j)
    BY <2>1, PassChecksAreQuiet, QuietKeepsInv
  <2>2. CASE ~\E j \in Jobs : PassChecks(j)
    BY <1>6, <2>2, PassFrameIsQuiet, QuietKeepsInv DEF PassWorks
  <2> QED BY <2>1, <2>2
<1> QED BY <1>1, <1>2, <1>3, <1>4, <1>5, <1>6 DEF Next, CockpitWorks

\* The inductive invariant holds in every reachable state of the tracker.
THEOREM TrackerInvariant == Spec => []Inv
<1>1. Init => Inv BY InitOK
<1>2. Inv /\ [Next]_vars => Inv' BY StepOK
<1> QED BY <1>1, <1>2, PTL DEF Spec

\* Tracking implements the life cycle of an application.
THEOREM Implementation == Spec => ImplementsLifecycle
<1>1. Init => Life!LInit BY InitOK
<1>2. Inv /\ [Next]_vars => [Life!LNext]_(Life!lvars) BY StepOK
<1> QED BY <1>1, <1>2, TrackerInvariant, PTL DEF Spec, ImplementsLifecycle, Life!LSpec

\* What the closure lifecycle parks can be restored.
THEOREM Restorable == Spec => []ParkedIsRestorable
BY TrackerInvariant, PTL DEF Inv

\* A job is applied to once.
THEOREM AppliedOnce == Spec => []OneApplication
BY TrackerInvariant, PTL DEF Inv

\* A send is recorded only for an application.
THEOREM NoSendWithoutApplication == Spec => []SendsAreApplications
BY TrackerInvariant, PTL DEF Inv

\* The same documents are out in one attempt at a time.
THEOREM OneAttemptAtATime == Spec => []OneOpenAttempt
BY TrackerInvariant, PTL DEF Inv

\* No role is submitted and applied to without a warning.
THEOREM NoUnawareDouble == Spec => []NeverBothUnawares
BY TrackerInvariant, PTL DEF Inv
=============================================================================
