--------------------------- MODULE DailyRunProofs ---------------------------
(***************************************************************************)
(* What holds of the daily run for any items, passes and windows.  The     *)
(* lock makes one pass the runner, and all others idle; the invariant then *)
(* says what each item's stamp stands for, and what the runner has in hand *)
(* before, while and after its digest is sent.  The second half is on the  *)
(* scores that such a run and the clicks beside it give (Matching).        *)
(***************************************************************************)
EXTENDS DailyRun, Matching, FiniteSetTheorems, WellFoundedInduction, TLAPS

Early == {"idle", "discovery", "scoring", "over", "closure"}

\* Only the holder of the lock runs, and an idle pass has nothing in hand.
OneRunner ==
  \A p \in Passes : /\ pass[p].at # "idle" => lock = p
                    /\ pass[p].at = "idle" => pass[p] = Idle

InHand(i) == \E p \in Passes : i \in pass[p].fresh

\* The runner has sent this item and not yet come to the stamps of its kind.
BeingStamped(i) ==
  \E p \in Passes : /\ pass[p].at = "stamp" /\ Kind[i] \in pass[p].left
                    /\ pass[p].shown[i] = date[i]

ItemOK(i) ==
  /\ Kind[i] \notin Dated => date[i] = 1 /\ stamp[i] <= 1
  /\ stamp[i] # 0 => \/ stamp[i] \in told[i]
                     \/ Kind[i] \in Recorded /\ (i \in lost \/ InHand(i))
  /\ Kind[i] \in Recorded /\ told[i] # {} => stamp[i] # 0
  /\ Kind[i] \notin Recorded /\ date[i] \in told[i] /\ i \notin again
       => stamp[i] = date[i] \/ BeingStamped(i)

\* Replies and closures in hand: a real run has recorded them, none is told twice.
FreshOK(p) ==
  /\ pass[p].at \in Early => pass[p].fresh = {}
  /\ \A i \in pass[p].fresh :
       /\ Kind[i] \in Recorded
       /\ ~pass[p].dry => stamp[i] # 0
       /\ pass[p].dry /\ Kind[i] = "reply" => stamp[i] = 0
       /\ pass[p].at # "stamp" => told[i] = {}

\* A digest under way: what moved since it was rendered may be told again.
ShownOK(p) ==
  pass[p].at \in {"send", "stamp"} =>
    /\ ~pass[p].dry /\ pass[p].seen <= skips
    /\ \A i \in pass[p].fresh : pass[p].shown[i] = date[i]
    /\ \A i \in Items : /\ pass[p].shown[i] # 0 /\ pass[p].shown[i] # date[i] => i \in again
                        /\ pass[p].shown[i] # 0 /\ Kind[i] \notin Dated => pass[p].shown[i] = 1
                        /\ pass[p].shown[i] # 0 /\ Kind[i] \in Recorded => i \in pass[p].fresh
    /\ pass[p].at = "send" => \A i \in Items : pass[p].shown[i] \in told[i] => i \in again
    /\ pass[p].at = "stamp" => /\ untold <= skips - pass[p].seen
                               /\ \A i \in Items : pass[p].shown[i] # 0
                                                     => pass[p].shown[i] \in told[i]

Inv ==
  /\ TypeOK /\ OneRunner /\ untold <= skips
  /\ \A i \in Items : ItemOK(i)
  /\ \A p \in Passes : FreshOK(p) /\ ShownOK(p)

-----------------------------------------------------------------------------
LEMMA IdleType == Idle \in PassType
  BY DailyAssumption DEF Idle, PassType

LEMMA IdleOK == ASSUME NEW p \in Passes, pass[p] = Idle PROVE FreshOK(p) /\ ShownOK(p)
<1>1. pass[p].at = "idle" /\ pass[p].fresh = {}
    BY DEF Idle
<1>2. QED
    BY <1>1 DEF FreshOK, ShownOK

LEMMA InitInv == Init => Inv
<1> SUFFICES ASSUME Init PROVE Inv
    OBVIOUS
<1> USE DailyAssumption
<1>1. TypeOK
    BY IdleType DEF Init, TypeOK, Dates, Of
<1>2. \A p \in Passes : pass[p] = Idle
    BY DEF Init
<1>3. OneRunner
  <2>1. \A p \in Passes : pass[p].at = "idle"
      BY <1>2 DEF Idle
  <2>2. QED
      BY <1>2, <2>1 DEF OneRunner
<1>4. \A i \in Items : ItemOK(i)
    BY DEF Init, ItemOK, Dates
<1>5. \A p \in Passes : FreshOK(p) /\ ShownOK(p)
    BY <1>2, IdleOK
<1>6. QED
    BY <1>1, <1>3, <1>4, <1>5 DEF Inv, Init

\* All passes but a running one are idle.
LEMMA Others ==
  ASSUME OneRunner, NEW p \in Passes, pass[p].at # "idle"
  PROVE  lock = p /\ \A q \in Passes \ {p} : pass[q] = Idle
BY DEF OneRunner

\* What Goes does to the passes.
LEMMA GoesTo ==
  ASSUME TypeOK, OneRunner, NEW p \in Passes, pass[p].at # "idle", NEW r \in PassType, Goes(p, r)
  PROVE  /\ pass' \in [Passes -> PassType] /\ pass'[p] = r
         /\ \A q \in Passes \ {p} : pass'[q] = Idle
<1>1. pass' = [pass EXCEPT ![p] = r] /\ pass \in [Passes -> PassType]
    BY DEF Goes, TypeOK
<1>2. QED
    BY <1>1, Others

\* The others stay idle, so the runner is all there is to look at.
LEMMA RunnerIsAll ==
  ASSUME NEW p \in Passes, lock' = p, pass'[p].at # "idle",
         \A q \in Passes \ {p} : pass'[q] = Idle,
         FreshOK(p)', ShownOK(p)'
  PROVE  OneRunner' /\ \A q \in Passes : FreshOK(q)' /\ ShownOK(q)'
<1>1. ASSUME NEW q \in Passes, q # p PROVE pass'[q].at = "idle" /\ FreshOK(q)' /\ ShownOK(q)'
  <2>1. pass'[q] = Idle
      BY <1>1
  <2>2. pass'[q].at = "idle" /\ pass'[q].fresh = {}
      BY <2>1 DEF Idle
  <2>3. QED
      BY <2>2 DEF FreshOK, ShownOK
<1>2. OneRunner'
    BY <1>1 DEF OneRunner
<1>3. QED
    BY <1>1, <1>2

\* A step of the runner before the digest that only goes on, with what it has.
LEMMA QuietStep ==
  ASSUME Inv, NEW p \in Passes, pass[p].at \notin {"idle", "send", "stamp"}, NEW r \in PassType,
         Goes(p, r), r.at \notin {"idle", "send", "stamp"},
         r.fresh = pass[p].fresh, r.dry = pass[p].dry, r.at \in Early => r.fresh = {},
         UNCHANGED <<lock, date, stamp, skips, moves, faults, history>>,
         row' \in [Items -> {"none", "found", "open", "off"}]
  PROVE  Inv'
<1>0. TypeOK /\ OneRunner /\ FreshOK(p)
    BY DEF Inv
<1>1. /\ pass' \in [Passes -> PassType] /\ pass'[p] = r
      /\ \A q \in Passes \ {p} : pass'[q] = Idle
    BY <1>0, GoesTo
<1>2. lock = p /\ \A q \in Passes \ {p} : pass[q] = Idle
    BY <1>0, Others
<1>3. TypeOK'
    BY <1>0, <1>1 DEF TypeOK, history
<1>4. FreshOK(p)'
    BY <1>0, <1>1 DEF FreshOK, history
<1>5. ShownOK(p)'
    BY <1>1 DEF ShownOK
<1>6. \A i \in Items : ItemOK(i)'
  <2> SUFFICES ASSUME NEW i \in Items PROVE ItemOK(i)'
      OBVIOUS
  <2>1. ItemOK(i)
      BY DEF Inv
  <2>2. InHand(i) => InHand(i)'
      BY <1>1, <1>2 DEF InHand
  <2>3. ~BeingStamped(i)
      BY <1>2 DEF BeingStamped, Idle
  <2>4. QED
      BY <2>1, <2>2, <2>3 DEF ItemOK, history
<1>7. OneRunner' /\ \A q \in Passes : FreshOK(q)' /\ ShownOK(q)'
    BY <1>1, <1>2, <1>4, <1>5, RunnerIsAll
<1>8. (untold <= skips)'
    BY DEF Inv, history
<1>9. QED
    BY <1>3, <1>6, <1>7, <1>8 DEF Inv

\* The steps that only find and save rows.
LEMMA GatedOK ==
  ASSUME Inv, NEW p \in Passes, NEW next, next \in {"scoring", "over", "closure", "announce"},
         pass[p].at \in {"discovery", "scoring", "targets"},
         next \in Early => pass[p].at \in Early,
         NEW cut \in BOOLEAN, Goes(p, [pass[p] EXCEPT !.at = next, !.cut = cut]),
         UNCHANGED <<lock, date, stamp, skips, moves, faults, history>>,
         row' \in [Items -> {"none", "found", "open", "off"}]
  PROVE  Inv'
<1> DEFINE r == [pass[p] EXCEPT !.at = next, !.cut = cut]
<1>1. pass[p] \in PassType /\ FreshOK(p)
    BY DEF Inv, TypeOK
<1>2. /\ r \in PassType /\ r.at = next /\ r.fresh = pass[p].fresh /\ r.dry = pass[p].dry
    BY <1>1 DEF PassType
<1>3. r.at \in Early => r.fresh = {}
    BY <1>1, <1>2 DEF FreshOK
<1>4. r.at \notin {"idle", "send", "stamp"} /\ pass[p].at \notin {"idle", "send", "stamp"}
    BY <1>2
<1> HIDE DEF r
<1>5. Goes(p, r)
    BY DEF r
<1>6. QED
    BY <1>2, <1>3, <1>4, <1>5, QuietStep

LEMMA DiscoveryInv == ASSUME Inv, NEW p \in Passes, Discovery(p) PROVE Inv'
<1>1. row' \in [Items -> {"none", "found", "open", "off"}]
    BY DEF Inv, TypeOK, Discovery, Gated
<1>2. PICK cut \in BOOLEAN : Goes(p, [pass[p] EXCEPT !.at = "scoring", !.cut = cut])
    BY DEF Discovery, Gated
<1>3. pass[p].at = "discovery" /\ UNCHANGED <<lock, date, stamp, skips, moves, faults, history>>
    BY DEF Discovery
<1>4. QED
    BY <1>1, <1>2, <1>3, GatedOK DEF Early

LEMMA ScoringInv == ASSUME Inv, NEW p \in Passes, Scoring(p) PROVE Inv'
<1> DEFINE next == IF p \in Cockpit THEN "over" ELSE "closure"
<1>1. row' \in [Items -> {"none", "found", "open", "off"}]
    BY DEF Inv, TypeOK, Scoring, Gated, Opens
<1>2. PICK cut \in BOOLEAN : Goes(p, [pass[p] EXCEPT !.at = next, !.cut = cut])
    BY DEF Scoring, Gated
<1>3. pass[p].at = "scoring" /\ UNCHANGED <<lock, date, stamp, skips, moves, faults, history>>
    BY DEF Scoring
<1>4. next \in {"over", "closure"}
    OBVIOUS
<1> HIDE DEF next
<1>5. QED
    BY <1>1, <1>2, <1>3, <1>4, GatedOK DEF Early

LEMMA TargetsInv == ASSUME Inv, NEW p \in Passes, Targets(p) PROVE Inv'
<1>1. row' \in [Items -> {"none", "found", "open", "off"}]
    BY DEF Inv, TypeOK, Targets, Gated, Opens
<1>2. PICK cut \in BOOLEAN : Goes(p, [pass[p] EXCEPT !.at = "announce", !.cut = cut])
    BY DEF Targets, Gated
<1>3. pass[p].at = "targets" /\ UNCHANGED <<lock, date, stamp, skips, moves, faults, history>>
    BY DEF Targets
<1>4. QED
    BY <1>1, <1>2, <1>3, GatedOK DEF Early

LEMMA LabelInv == ASSUME Inv, NEW p \in Passes, Label(p) PROVE Inv'
<1> DEFINE r == [pass[p] EXCEPT !.at = "targets"]
<1>1. pass[p] \in PassType /\ pass[p].at = "label"
    BY DEF Inv, TypeOK, Label
<1>2. /\ r \in PassType /\ r.at = "targets" /\ r.fresh = pass[p].fresh /\ r.dry = pass[p].dry
    BY <1>1 DEF PassType
<1>3. row' \in [Items -> {"none", "found", "open", "off"}]
    BY DEF Inv, TypeOK, Label, Opens
<1>4. Goes(p, r) /\ UNCHANGED <<lock, date, stamp, skips, moves, faults, history>>
    BY DEF Label
<1> HIDE DEF r
<1>5. QED
    BY <1>1, <1>2, <1>3, <1>4, QuietStep DEF Early

\* The steps that record what they found before the digest tells it.
LEMMA RecordStep ==
  ASSUME Inv, NEW p \in Passes, pass[p].at \in {"closure", "replies"}, NEW r \in PassType,
         Goes(p, r), r.at \in {"replies", "label"}, r.dry = pass[p].dry,
         NEW new \in SUBSET {i \in Of(Recorded) : stamp[i] = 0}, NEW some \in SUBSET new,
         pass[p].fresh \subseteq r.fresh, r.fresh \subseteq pass[p].fresh \cup new,
         Stamped(some),
         lost \subseteq lost', some \subseteq lost' \cup r.fresh, lost' \subseteq Items,
         ~pass[p].dry => new \subseteq some,
         pass[p].dry => \A i \in some : Kind[i] # "reply",
         faults' \in Nat, UNCHANGED <<lock, row, date, skips, moves, told, again, untold>>
  PROVE  Inv'
<1>0. TypeOK /\ OneRunner /\ FreshOK(p) /\ \A i \in Items : ItemOK(i)
    BY DEF Inv
<1>1. /\ pass' \in [Passes -> PassType] /\ pass'[p] = r
      /\ \A q \in Passes \ {p} : pass'[q] = Idle
    BY <1>0, GoesTo
<1>2. lock = p /\ \A q \in Passes \ {p} : pass[q] = Idle
    BY <1>0, Others
<1>3. new \subseteq Items /\ \A i \in new : Kind[i] \in Recorded /\ stamp[i] = 0
    BY DEF Of
<1>4. \A i \in Items : /\ i \in some => stamp'[i] = date[i]
                       /\ i \notin some => stamp'[i] = stamp[i]
    BY DEF Stamped
<1>5. \A i \in Items : date[i] \in Nat /\ date[i] # 0 /\ date[i] \in Dates
    BY <1>0, DailyAssumption DEF TypeOK, Dates
<1>6. TypeOK'
  <2>1. stamp' \in [Items -> 0 .. MaxDate]
      BY <1>0, DailyAssumption DEF Stamped, TypeOK, Dates
  <2>2. QED
      BY <1>0, <1>1, <2>1 DEF TypeOK
<1>7. FreshOK(p)'
  <2>1. \A i \in r.fresh : i \in Items /\ Kind[i] \in Recorded /\ told[i] = {}
    <3>1. \A i \in new : told[i] = {}
        BY <1>0, <1>3 DEF ItemOK
    <3>2. \A i \in pass[p].fresh : i \in Items /\ Kind[i] \in Recorded /\ told[i] = {}
        BY <1>0 DEF FreshOK, TypeOK, PassType
    <3>3. QED
        BY <3>1, <3>2, <1>3
  <2>2. ASSUME NEW i \in r.fresh, ~r.dry PROVE stamp'[i] # 0
      BY <2>1, <2>2, <1>0, <1>4, <1>5 DEF FreshOK
  <2>3. ASSUME NEW i \in r.fresh, r.dry, Kind[i] = "reply" PROVE stamp'[i] = 0
      BY <2>1, <2>3, <1>0, <1>3, <1>4 DEF FreshOK
  <2>4. QED
      BY <1>1, <2>1, <2>2, <2>3 DEF FreshOK, Early
<1>8. ShownOK(p)'
    BY <1>1 DEF ShownOK
<1>9. ASSUME NEW i \in Items PROVE ItemOK(i)'
  <2>1. ItemOK(i)
      BY <1>0
  <2>2. ~BeingStamped(i)
      BY <1>2 DEF BeingStamped, Idle
  <2>3. InHand(i) => InHand(i)'
    <3>1. InHand(i) => i \in pass[p].fresh
        BY <1>2 DEF InHand, Idle
    <3>2. QED
        BY <3>1, <1>1 DEF InHand
  <2>4. CASE i \in some
    <3>1. /\ Kind[i] \in Recorded /\ stamp'[i] # 0 /\ stamp'[i] = date[i]
          /\ i \in lost' \/ InHand(i)'
        BY <2>4, <1>1, <1>3, <1>4, <1>5 DEF InHand
    <3>2. QED
        BY <3>1, <2>1 DEF ItemOK
  <2>5. CASE i \notin some
      BY <2>1, <2>2, <2>3, <2>5, <1>4 DEF ItemOK
  <2>6. QED
      BY <2>4, <2>5
<1>10. OneRunner' /\ \A q \in Passes : FreshOK(q)' /\ ShownOK(q)'
    BY <1>1, <1>2, <1>7, <1>8, RunnerIsAll
<1>11. (untold <= skips)'
    BY DEF Inv
<1>12. QED
    BY <1>6, <1>9, <1>10, <1>11 DEF Inv

LEMMA RepliesInv == ASSUME Inv, NEW p \in Passes, Replies(p) PROVE Inv'
<1>1. PICK new \in SUBSET {i \in Of({"reply"}) : stamp[i] = 0} :
         /\ Stamped(IF pass[p].dry THEN {} ELSE new)
         /\ Goes(p, [pass[p] EXCEPT !.at = "label", !.fresh = @ \cup new])
    BY DEF Replies
<1> DEFINE r == [pass[p] EXCEPT !.at = "label", !.fresh = @ \cup new]
           some == IF pass[p].dry THEN {} ELSE new
<1>2. pass[p] \in PassType /\ pass[p].at = "replies"
    BY DEF Inv, TypeOK, Replies
<1>3. new \in SUBSET {i \in Of(Recorded) : stamp[i] = 0} /\ new \subseteq Items
    BY DEF Of, Recorded
<1>4. /\ r \in PassType /\ r.at = "label" /\ r.fresh = pass[p].fresh \cup new
      /\ r.dry = pass[p].dry
    BY <1>2, <1>3 DEF PassType
<1>5. /\ some \subseteq new /\ (~pass[p].dry => new \subseteq some)
      /\ pass[p].dry => some = {}
    OBVIOUS
<1>6. /\ UNCHANGED <<lock, row, date, skips, moves, faults, told, again, lost, untold>>
      /\ faults \in Nat /\ lost \subseteq Items
    BY DEF Replies, history, Inv, TypeOK
<1> HIDE DEF r, some
<1>7. Goes(p, r) /\ Stamped(some)
    BY <1>1 DEF r, some
<1>8. QED
    BY <1>2, <1>3, <1>4, <1>5, <1>6, <1>7, RecordStep

LEMMA ClosureInv == ASSUME Inv, NEW p \in Passes, Closure(p) PROVE Inv'
<1>1. /\ pass[p] \in PassType /\ pass[p].at = "closure" /\ pass[p].fresh = {}
      /\ faults \in Nat /\ lost \subseteq Items
      /\ row \in [Items -> {"none", "found", "open", "off"}]
    BY DEF Inv, TypeOK, Closure, FreshOK, Early
<1>2. UNCHANGED <<lock, row, date, skips, moves, told, again, untold>>
    BY DEF Closure
<1>3. ASSUME NEW new \in SUBSET {i \in Of({"closed"}) : stamp[i] = 0}, Closes(p, new)
      PROVE  Inv'
  <2> DEFINE some == Seen(p, new)
  <2>1. new \in SUBSET {i \in Of(Recorded) : stamp[i] = 0} /\ new \subseteq Items
      BY DEF Of, Recorded
  <2>2. /\ some \subseteq new /\ (~pass[p].dry => new \subseteq some)
        /\ \A i \in some : Kind[i] # "reply"
      BY DEF Seen, Of
  <2>3. Stamped(some)
      BY <1>3 DEF Closes
  <2> HIDE DEF some
  <2>4. ASSUME NEW cut \in BOOLEAN, UNCHANGED <<faults, lost>>,
               Goes(p, [pass[p] EXCEPT !.at = "replies", !.cut = cut, !.fresh = new])
        PROVE  Inv'
    <3> DEFINE r == [pass[p] EXCEPT !.at = "replies", !.cut = cut, !.fresh = new]
    <3>1. r \in PassType /\ r.at = "replies" /\ r.fresh = new /\ r.dry = pass[p].dry
        BY <1>1, <2>1 DEF PassType
    <3>2. Goes(p, r)
        BY <2>4
    <3> HIDE DEF r
    <3>3. QED
        BY <1>1, <1>2, <2>1, <2>2, <2>3, <2>4, <3>1, <3>2, RecordStep
  <2>5. ASSUME faults' = faults + 1, Goes(p, [pass[p] EXCEPT !.at = "replies"]),
               lost' = lost \cup some
        PROVE  Inv'
    <3> DEFINE r == [pass[p] EXCEPT !.at = "replies"]
    <3>1. r \in PassType /\ r.at = "replies" /\ r.fresh = pass[p].fresh /\ r.dry = pass[p].dry
        BY <1>1 DEF PassType
    <3>2. Goes(p, r)
        BY <2>5
    <3>3. faults' \in Nat
        BY <1>1, <2>5
    <3> HIDE DEF r
    <3>4. QED
        BY <1>1, <1>2, <2>1, <2>2, <2>3, <2>5, <3>1, <3>2, <3>3, RecordStep
  <2>6. QED
      BY <1>3, <2>4, <2>5 DEF Closes, some
<1>4. ASSUME Goes(p, [pass[p] EXCEPT !.at = "replies", !.cut = TRUE]),
             UNCHANGED <<stamp, faults, lost>>
      PROVE  Inv'
  <2> DEFINE r == [pass[p] EXCEPT !.at = "replies", !.cut = TRUE]
  <2>1. r \in PassType /\ r.at = "replies" /\ r.fresh = pass[p].fresh /\ r.dry = pass[p].dry
      BY <1>1 DEF PassType
  <2>2. Goes(p, r)
      BY <1>4
  <2>3. UNCHANGED <<lock, date, stamp, skips, moves, faults, history>>
      BY <1>2, <1>4 DEF history
  <2> HIDE DEF r
  <2>4. row' \in [Items -> {"none", "found", "open", "off"}]
      BY <1>1, <1>2
  <2>5. QED
      BY <1>1, <2>1, <2>2, <2>3, <2>4, QuietStep DEF Early
<1>5. QED
    BY <1>3, <1>4 DEF Closure

-----------------------------------------------------------------------------
\* The lock is taken when all passes are idle.
LEMMA TakesInv == ASSUME Inv, NEW p \in Passes, NEW dry \in BOOLEAN, Takes(p, dry) PROVE Inv'
<1> DEFINE r == [Idle EXCEPT !.at = "discovery", !.dry = dry]
<1>0. TypeOK /\ OneRunner /\ \A i \in Items : ItemOK(i)
    BY DEF Inv
<1>1. /\ r \in PassType /\ r.at = "discovery" /\ r.fresh = {}
    BY IdleType DEF Idle, PassType
<1>2. \A q \in Passes : pass[q] = Idle
    BY <1>0, DailyAssumption DEF Takes, OneRunner
<1> HIDE DEF r
<1>3. pass' = [pass EXCEPT ![p] = r] /\ lock' = p
    BY DEF Takes, Goes, r
<1>4. /\ pass' \in [Passes -> PassType] /\ pass'[p] = r
      /\ \A q \in Passes \ {p} : pass'[q] = Idle
    BY <1>0, <1>1, <1>2, <1>3 DEF TypeOK
<1>5. UNCHANGED <<row, date, stamp, skips, moves, faults, told, again, lost, untold>>
    BY DEF Takes, history
<1>6. TypeOK'
    BY <1>0, <1>3, <1>4, <1>5 DEF TypeOK
<1>7. FreshOK(p)' /\ ShownOK(p)'
    BY <1>1, <1>4 DEF FreshOK, ShownOK
<1>8. OneRunner' /\ \A q \in Passes : FreshOK(q)' /\ ShownOK(q)'
    BY <1>1, <1>3, <1>4, <1>7, RunnerIsAll
<1>9. \A i \in Items : ~InHand(i) /\ ~BeingStamped(i)
    BY <1>2 DEF InHand, BeingStamped, Idle
<1>10. \A i \in Items : ItemOK(i)'
    BY <1>0, <1>5, <1>9 DEF ItemOK
<1>11. (untold <= skips)'
    BY <1>5 DEF Inv
<1>12. QED
    BY <1>6, <1>8, <1>10, <1>11 DEF Inv

LEMMA RecordSkippedInv == ASSUME Inv, NEW p \in Daily, RecordSkipped(p) PROVE Inv'
<1>0. /\ TypeOK /\ OneRunner /\ untold <= skips /\ \A i \in Items : ItemOK(i)
      /\ \A q \in Passes : FreshOK(q) /\ ShownOK(q)
    BY DEF Inv
<1>1. /\ skips' = skips + 1 /\ untold' = untold + 1
      /\ UNCHANGED <<lock, pass, row, date, stamp, moves, faults, told, again, lost>>
    BY DEF RecordSkipped
<1>2. TypeOK' /\ OneRunner' /\ (untold <= skips)'
    BY <1>0, <1>1 DEF TypeOK, OneRunner
<1>3. \A i \in Items : ItemOK(i)'
    BY <1>0, <1>1 DEF ItemOK, InHand, BeingStamped
<1>4. ASSUME NEW q \in Passes PROVE FreshOK(q)' /\ ShownOK(q)'
  <2>1. pass[q].seen \in Nat /\ skips \in Nat /\ untold \in Nat
      BY <1>0 DEF TypeOK, PassType
  <2>2. FreshOK(q)'
      BY <1>0, <1>1 DEF FreshOK
  <2>3. ShownOK(q)'
      BY <1>0, <1>1, <2>1 DEF ShownOK
  <2>4. QED
      BY <2>2, <2>3
<1>5. QED
    BY <1>2, <1>3, <1>4 DEF Inv

\* A pass that lets go of the lock leaves all passes idle.
LEMMA AllIdle ==
  ASSUME TypeOK, OneRunner, NEW p \in Passes, pass[p].at # "idle", Ends(p)
  PROVE  /\ pass' \in [Passes -> PassType] /\ \A q \in Passes : pass'[q] = Idle
         /\ lock' = Nobody /\ OneRunner' /\ \A q \in Passes : FreshOK(q)' /\ ShownOK(q)'
         /\ \A i \in Items : InHand(i) => i \in pass[p].fresh
         /\ \A i \in Items : BeingStamped(i) =>
              pass[p].at = "stamp" /\ Kind[i] \in pass[p].left /\ pass[p].shown[i] = date[i]
<1>1. pass' = [pass EXCEPT ![p] = Idle] /\ lock' = Nobody /\ pass \in [Passes -> PassType]
    BY DEF Ends, Goes, TypeOK
<1>2. \A q \in Passes \ {p} : pass[q] = Idle
    BY Others
<1>3. pass' \in [Passes -> PassType] /\ \A q \in Passes : pass'[q] = Idle
    BY <1>1, <1>2, IdleType
<1>4. \A q \in Passes : pass'[q].at = "idle" /\ pass'[q].fresh = {}
    BY <1>3 DEF Idle
<1>5. OneRunner' /\ \A q \in Passes : FreshOK(q)' /\ ShownOK(q)'
    BY <1>3, <1>4 DEF OneRunner, FreshOK, ShownOK
<1>6. \A q \in Passes \ {p} : pass[q].at = "idle" /\ pass[q].fresh = {}
    BY <1>2 DEF Idle
<1>7. QED
    BY <1>1, <1>3, <1>5, <1>6 DEF InHand, BeingStamped

\* So it remains to say where the items it had in hand are.
LEMMA EndStep ==
  ASSUME Inv, NEW p \in Passes, pass[p].at # "idle", Ends(p),
         UNCHANGED <<row, date, stamp, moves, told, untold>>,
         skips' \in Nat, faults' \in Nat, untold <= skips',
         again \subseteq again', again' \subseteq Items, lost \subseteq lost', lost' \subseteq Items,
         \A i \in pass[p].fresh : stamp[i] # 0 => stamp[i] \in told[i] \/ i \in lost',
         \A i \in Items : BeingStamped(i) => i \in again'
  PROVE  Inv'
<1>0. TypeOK /\ OneRunner /\ \A i \in Items : ItemOK(i)
    BY DEF Inv
<1>1. /\ pass' \in [Passes -> PassType] /\ lock' = Nobody
      /\ OneRunner' /\ \A q \in Passes : FreshOK(q)' /\ ShownOK(q)'
      /\ \A i \in Items : InHand(i) => i \in pass[p].fresh
    BY <1>0, AllIdle
<1>2. TypeOK'
    BY <1>0, <1>1 DEF TypeOK
<1>3. ASSUME NEW i \in Items PROVE ItemOK(i)'
  <2>1. ItemOK(i) /\ (InHand(i) => i \in pass[p].fresh)
      BY <1>0, <1>1
  <2>2. (stamp[i] # 0 => \/ stamp[i] \in told[i]
                         \/ Kind[i] \in Recorded /\ (i \in lost \/ InHand(i)))'
      BY <2>1 DEF ItemOK
  <2>3. QED
      BY <2>1, <2>2 DEF ItemOK
<1>4. QED
    BY <1>1, <1>2, <1>3 DEF Inv

\* At the stamp, what the runner has in hand has been told.
LEMMA ToldAtStamp ==
  ASSUME Inv, NEW p \in Passes, pass[p].at = "stamp", NEW i \in pass[p].fresh, stamp[i] # 0
  PROVE  stamp[i] \in told[i]
<1>1. /\ i \in Items /\ ItemOK(i) /\ FreshOK(p) /\ ShownOK(p)
      /\ stamp[i] \in Nat /\ date[i] \in Nat
    BY DailyAssumption DEF Inv, TypeOK, PassType, Dates
<1>2. Kind[i] \in Recorded /\ pass[p].shown[i] = date[i]
    BY <1>1 DEF FreshOK, ShownOK
<1>3. Kind[i] \notin Dated
    BY <1>2 DEF Recorded, Dated
<1>4. date[i] = 1 /\ stamp[i] = 1
    BY <1>1, <1>3 DEF ItemOK
<1>5. pass[p].shown[i] = 1 /\ pass[p].shown[i] \in told[i]
    BY <1>1, <1>2, <1>4 DEF ShownOK
<1>6. QED
    BY <1>4, <1>5

LEMMA OverInv == ASSUME Inv, NEW p \in Passes, Over(p) PROVE Inv'
<1>1. /\ pass[p].at = "over" /\ Ends(p)
      /\ UNCHANGED <<row, date, stamp, skips, moves, faults, told, again, lost, untold>>
    BY DEF Over, history
<1>2. /\ TypeOK /\ OneRunner /\ untold <= skips /\ pass[p].fresh = {}
      /\ skips \in Nat /\ faults \in Nat /\ again \subseteq Items /\ lost \subseteq Items
    BY <1>1 DEF Inv, TypeOK, FreshOK, Early
<1>3. \A i \in Items : ~BeingStamped(i)
    BY <1>1, <1>2, AllIdle
<1>4. QED
    BY <1>1, <1>2, <1>3, EndStep

LEMMA SilentInv == ASSUME Inv, NEW p \in Passes, Silent(p) PROVE Inv'
<1>1. /\ pass[p].at = "announce" /\ Ends(p)
      /\ UNCHANGED <<row, date, stamp, skips, moves, faults, told, again, untold>>
      /\ lost' = lost \cup {i \in pass[p].fresh \cap Of({"closed"}) : stamp[i] # 0}
    BY DEF Silent
<1>2. /\ TypeOK /\ OneRunner /\ untold <= skips /\ FreshOK(p) /\ pass[p].fresh \subseteq Items
      /\ skips \in Nat /\ faults \in Nat /\ again \subseteq Items /\ lost \subseteq Items
    BY DEF Inv, TypeOK, PassType
<1>3. \A i \in Items : ~BeingStamped(i)
    BY <1>1, <1>2, AllIdle
<1>4. lost' \subseteq Items
    BY <1>1, <1>2
<1>5. ASSUME NEW i \in pass[p].fresh, stamp[i] # 0 PROVE i \in lost'
  <2>1. i \in Items /\ date[i] # 0 /\ Kind[i] \in Recorded
      BY <1>2, DailyAssumption DEF TypeOK, Dates, FreshOK
  <2>2. Digest(p)[i] = date[i]
      BY <2>1 DEF Digest
  <2>3. pass[p].dry
      BY <2>1, <2>2 DEF Silent
  <2>4. Kind[i] = "closed"
      BY <1>2, <1>5, <2>1, <2>3 DEF FreshOK, Recorded
  <2>5. QED
      BY <1>1, <1>5, <2>1, <2>4 DEF Of
<1>6. QED
    BY <1>1, <1>2, <1>3, <1>4, <1>5, EndStep

LEMMA MarkRunSentInv == ASSUME Inv, NEW p \in Passes, MarkRunSent(p) PROVE Inv'
<1>1. /\ pass[p].at = "stamp" /\ pass[p].left = {} /\ Ends(p) /\ skips' = skips - pass[p].seen
      /\ UNCHANGED <<row, date, stamp, moves, faults, told, again, lost, untold>>
    BY DEF MarkRunSent, SkipsAfter, history
<1>2. /\ TypeOK /\ OneRunner /\ ShownOK(p) /\ pass[p].seen \in Nat
      /\ skips \in Nat /\ faults \in Nat /\ again \subseteq Items /\ lost \subseteq Items
    BY DEF Inv, TypeOK, PassType
<1>3. \A i \in Items : ~BeingStamped(i)
    BY <1>1, <1>2, AllIdle
<1>4. skips' \in Nat /\ untold <= skips'
    BY <1>1, <1>2 DEF ShownOK
<1>5. \A i \in pass[p].fresh : stamp[i] # 0 => stamp[i] \in told[i]
    BY <1>1, ToldAtStamp
<1>6. QED
    BY <1>1, <1>2, <1>3, <1>4, <1>5, EndStep

LEMMA DiesInv == ASSUME Inv, NEW p \in Passes, Dies(p) PROVE Inv'
<1>1. /\ pass[p].at # "idle" /\ Ends(p) /\ faults' = faults + 1
      /\ UNCHANGED <<row, date, stamp, skips, moves, told, untold>>
    BY DEF Dies, LetsGo
<1>2. /\ TypeOK /\ OneRunner /\ untold <= skips /\ pass[p].fresh \subseteq Items
      /\ skips \in Nat /\ faults \in Nat /\ again \subseteq Items /\ lost \subseteq Items
      /\ date \in [Items -> Dates]
    BY DEF Inv, TypeOK, PassType
<1>3. faults' \in Nat
    BY <1>1, <1>2
<1>4. CASE pass[p].at = "stamp"
  <2>1. again' = again \cup Shown(p, pass[p].left) /\ lost' = lost
      BY <1>4 DEF Dies
  <2>2. again \subseteq again' /\ again' \subseteq Items
      BY <1>2, <2>1 DEF Shown, Of
  <2>3. ASSUME NEW i \in Items, BeingStamped(i) PROVE i \in again'
    <3>1. Kind[i] \in pass[p].left /\ pass[p].shown[i] = date[i]
        BY <1>1, <1>2, <2>3, AllIdle
    <3>2. date[i] # 0
        BY <1>2, DailyAssumption DEF Dates
    <3>3. QED
        BY <2>1, <3>1, <3>2 DEF Shown, Of
  <2>4. \A i \in pass[p].fresh : stamp[i] # 0 => stamp[i] \in told[i]
      BY <1>4, ToldAtStamp
  <2>5. QED
      BY <1>1, <1>2, <1>3, <2>1, <2>2, <2>3, <2>4, EndStep
<1>5. CASE pass[p].at # "stamp"
  <2>1. lost' = lost \cup {i \in pass[p].fresh : stamp[i] # 0} /\ again' = again
      BY <1>5 DEF Dies
  <2>2. lost \subseteq lost' /\ lost' \subseteq Items
      BY <1>2, <2>1
  <2>3. \A i \in Items : ~BeingStamped(i)
      BY <1>1, <1>2, <1>5, AllIdle
  <2>4. \A i \in pass[p].fresh : stamp[i] # 0 => i \in lost'
      BY <2>1
  <2>5. QED
      BY <1>1, <1>2, <1>3, <2>1, <2>2, <2>3, <2>4, EndStep
<1>6. QED
    BY <1>4, <1>5

-----------------------------------------------------------------------------
\* The digest is rendered: nothing in it was told, unless it may be again.
LEMMA RecordRunInv == ASSUME Inv, NEW p \in Passes, RecordRun(p) PROVE Inv'
<1> DEFINE r == [pass[p] EXCEPT !.at = "send", !.shown = Digest(p), !.seen = skips]
<1>0. /\ TypeOK /\ OneRunner /\ FreshOK(p) /\ untold <= skips /\ skips \in Nat
      /\ \A i \in Items : ItemOK(i)
      /\ pass[p] \in PassType /\ pass[p].fresh \subseteq Items
    BY DEF Inv, TypeOK, PassType
<1>1. /\ pass[p].at = "announce" /\ ~pass[p].dry /\ Goes(p, r)
      /\ UNCHANGED <<lock, row, date, stamp, skips, moves, faults, told, again, lost, untold>>
    BY DEF RecordRun, history
<1>2. Digest(p) \in [Items -> 0 .. MaxDate]
    BY <1>0, DailyAssumption DEF Digest, TypeOK, Dates
<1>3. /\ r \in PassType /\ r.at = "send" /\ r.shown = Digest(p) /\ r.seen = skips
      /\ r.dry = pass[p].dry /\ r.fresh = pass[p].fresh /\ r.left = pass[p].left
    BY <1>0, <1>2 DEF PassType
<1> HIDE DEF r
<1>4. /\ pass' \in [Passes -> PassType] /\ pass'[p] = r
      /\ \A q \in Passes \ {p} : pass'[q] = Idle
    BY <1>0, <1>1, <1>3, GoesTo
<1>5. lock = p /\ \A q \in Passes \ {p} : pass[q] = Idle
    BY <1>0, <1>1, Others
<1>6. TypeOK'
    BY <1>0, <1>1, <1>4 DEF TypeOK
<1>7. \A i \in Items : /\ ~BeingStamped(i) /\ ~BeingStamped(i)'
                       /\ InHand(i) => InHand(i)'
    BY <1>1, <1>3, <1>4, <1>5 DEF BeingStamped, InHand, Idle
<1>8. \A i \in Items : ItemOK(i)'
    BY <1>0, <1>1, <1>7 DEF ItemOK
<1>9. FreshOK(p)'
    BY <1>0, <1>1, <1>3, <1>4 DEF FreshOK, Early
<1>10. ShownOK(p)'
  <2>1. ASSUME NEW i \in Items, r.shown[i] # 0
        PROVE  /\ r.shown[i] = date[i]
               /\ Kind[i] \notin Dated => r.shown[i] = 1
               /\ Kind[i] \in Recorded => i \in r.fresh
               /\ r.shown[i] \in told[i] => i \in again
    <3>1. r.shown[i] = date[i] /\ (Rendered(i) \/ i \in pass[p].fresh)
        BY <1>3, <2>1 DEF Digest
    <3>2. Rendered(i) => Kind[i] \notin Recorded /\ stamp[i] # date[i]
        BY DEF Rendered, Due
    <3>3. i \in pass[p].fresh => told[i] = {}
        BY <1>0, <1>1 DEF FreshOK
    <3>4. ItemOK(i)
        BY <1>0
    <3>5. QED
        BY <1>3, <1>7, <3>1, <3>2, <3>3, <3>4 DEF ItemOK
  <2>2. \A i \in r.fresh : r.shown[i] = date[i]
      BY <1>0, <1>3 DEF Digest
  <2>3. \A i \in Items : r.shown[i] \in told[i] => i \in again
    <3>1. \A i \in Items : 0 \notin told[i]
        BY <1>0, DailyAssumption DEF TypeOK, Dates
    <3>2. QED
        BY <2>1, <3>1
  <2>4. QED
      BY <1>0, <1>1, <1>3, <1>4, <2>1, <2>2, <2>3 DEF ShownOK
<1>11. OneRunner' /\ \A q \in Passes : FreshOK(q)' /\ ShownOK(q)'
    BY <1>1, <1>3, <1>4, <1>5, <1>9, <1>10, RunnerIsAll
<1>12. QED
    BY <1>0, <1>1, <1>6, <1>8, <1>11 DEF Inv

\* The channel accepted it: all that was shown is told, and waits for its stamp.
LEMMA AcceptedInv == ASSUME Inv, NEW p \in Passes, Accepted(p) PROVE Inv'
<1> DEFINE left == {k \in DOMAIN StampOrder : Shown(p, {k}) # {}}
           r == [pass[p] EXCEPT !.at = "stamp", !.left = left]
<1>0. /\ TypeOK /\ OneRunner /\ FreshOK(p) /\ ShownOK(p) /\ untold <= skips
      /\ skips \in Nat /\ untold \in Nat /\ \A i \in Items : ItemOK(i)
      /\ pass[p] \in PassType /\ pass[p].shown \in [Items -> 0 .. MaxDate]
      /\ pass[p].seen \in Nat /\ pass[p].fresh \subseteq Items
      /\ date \in [Items -> Dates] /\ told \in [Items -> SUBSET Dates]
    BY DEF Inv, TypeOK, PassType
<1>1. /\ pass[p].at = "send" /\ Goes(p, r)
      /\ told' = [i \in Items |-> told[i] \cup ({pass[p].shown[i]} \ {0})]
      /\ again' = {i \in again : pass[p].shown[i] # date[i]}
      /\ untold' = IF untold < skips - pass[p].seen THEN untold ELSE skips - pass[p].seen
      /\ UNCHANGED <<lock, row, date, stamp, skips, moves, faults, lost>>
    BY DEF Accepted
<1>2. DOMAIN StampOrder = {"role", "news", "ask", "touch", "mail"}
    BY DEF StampOrder
<1>3. \A i \in Items : Kind[i] \notin Recorded /\ pass[p].shown[i] # 0 => Kind[i] \in left
    BY <1>2, DailyAssumption DEF Shown, Of, Kinds, Dated, Recorded
<1>4. left \subseteq Kinds
    BY <1>2 DEF Kinds, Dated
<1>5. /\ r \in PassType /\ r.at = "stamp" /\ r.left = left /\ r.shown = pass[p].shown
      /\ r.seen = pass[p].seen /\ r.dry = pass[p].dry /\ r.fresh = pass[p].fresh
    BY <1>0, <1>4 DEF PassType
<1> HIDE DEF left, r
<1>6. /\ pass' \in [Passes -> PassType] /\ pass'[p] = r
      /\ \A q \in Passes \ {p} : pass'[q] = Idle
    BY <1>0, <1>1, <1>5, GoesTo
<1>7. lock = p /\ \A q \in Passes \ {p} : pass[q] = Idle
    BY <1>0, <1>1, Others
<1>8. untold' \in Nat /\ untold' <= skips - pass[p].seen /\ untold' <= skips
    BY <1>0, <1>1 DEF ShownOK
<1>9. TypeOK'
  <2>1. told' \in [Items -> SUBSET Dates]
    <3>1. \A i \in Items : {pass[p].shown[i]} \ {0} \subseteq Dates
        BY <1>0, DailyAssumption DEF Dates
    <3>2. QED
        BY <1>0, <1>1, <3>1
  <2>2. again' \subseteq Items
      BY <1>0, <1>1 DEF TypeOK
  <2>3. QED
      BY <1>0, <1>1, <1>6, <1>8, <2>1, <2>2 DEF TypeOK
<1>10. ASSUME NEW i \in Items PROVE ItemOK(i)'
  <2>1. ItemOK(i) /\ date[i] # 0
      BY <1>0, DailyAssumption DEF Dates
  <2>2. told[i] \subseteq told'[i] /\ \A d \in told'[i] : d \in told[i] \/ d = pass[p].shown[i]
      BY <1>1
  <2>3. (InHand(i) => InHand(i)') /\ ~BeingStamped(i)
      BY <1>1, <1>5, <1>6, <1>7 DEF InHand, BeingStamped, Idle
  <2>4. Kind[i] \notin Dated => date[i] = 1 /\ stamp[i] <= 1
      BY <2>1 DEF ItemOK
  <2>5. stamp[i] # 0 => \/ stamp[i] \in told'[i]
                        \/ Kind[i] \in Recorded /\ (i \in lost \/ InHand(i)')
      BY <2>1, <2>2, <2>3 DEF ItemOK
  <2>6. ASSUME Kind[i] \in Recorded, told'[i] # {} PROVE stamp[i] # 0
    <3>1. CASE told[i] # {}
        BY <2>1, <2>6, <3>1 DEF ItemOK
    <3>2. CASE told[i] = {}
      <4>1. pass[p].shown[i] # 0
          BY <1>1, <2>6, <3>2
      <4>2. i \in pass[p].fresh
          BY <1>0, <1>1, <2>6, <4>1 DEF ShownOK
      <4>3. QED
          BY <1>0, <1>1, <4>2 DEF FreshOK, ShownOK
    <3>3. QED
        BY <3>1, <3>2
  <2>7. ASSUME Kind[i] \notin Recorded, date[i] \in told'[i], i \notin again'
        PROVE  stamp[i] = date[i] \/ BeingStamped(i)'
    <3>1. CASE pass[p].shown[i] = date[i]
      <4>1. Kind[i] \in left
          BY <1>3, <2>1, <2>7, <3>1
      <4>2. QED
          BY <1>1, <1>5, <1>6, <3>1, <4>1 DEF BeingStamped
    <3>2. CASE pass[p].shown[i] # date[i]
        BY <1>1, <2>1, <2>2, <2>3, <2>7, <3>2 DEF ItemOK
    <3>3. QED
        BY <3>1, <3>2
  <2>8. QED
      BY <1>1, <2>4, <2>5, <2>6, <2>7 DEF ItemOK
<1>11. FreshOK(p)'
    BY <1>0, <1>1, <1>5, <1>6 DEF FreshOK, Early
<1>12. ShownOK(p)'
  <2>1. \A i \in Items : pass[p].shown[i] # 0 => pass[p].shown[i] \in told'[i]
      BY <1>1
  <2>2. QED
      BY <1>0, <1>1, <1>5, <1>6, <1>8, <2>1 DEF ShownOK
<1>13. OneRunner' /\ \A q \in Passes : FreshOK(q)' /\ ShownOK(q)'
    BY <1>1, <1>5, <1>6, <1>7, <1>11, <1>12, RunnerIsAll
<1>14. QED
    BY <1>1, <1>8, <1>9, <1>10, <1>13 DEF Inv

\* One kind is stamped: what moved meanwhile is told again, the rest is not.
LEMMA StampsInv == ASSUME Inv, NEW p \in Passes, Stamps(p) PROVE Inv'
<1>0. /\ TypeOK /\ OneRunner /\ FreshOK(p) /\ ShownOK(p) /\ untold <= skips
      /\ \A i \in Items : ItemOK(i)
      /\ pass[p] \in PassType /\ pass[p].shown \in [Items -> 0 .. MaxDate]
      /\ pass[p].left \subseteq Kinds /\ pass[p].fresh \subseteq Items
      /\ date \in [Items -> Dates] /\ stamp \in [Items -> 0 .. MaxDate]
    BY DEF Inv, TypeOK, PassType
<1>1. PICK k \in pass[p].left :
         /\ stamp' = [i \in Items |-> IF i \in Shown(p, {k}) THEN NewStamp(p, i) ELSE stamp[i]]
         /\ Goes(p, [pass[p] EXCEPT !.left = @ \ {k}])
    BY DEF Stamps
<1> DEFINE r == [pass[p] EXCEPT !.left = @ \ {k}]
<1>2. /\ pass[p].at = "stamp"
      /\ UNCHANGED <<lock, row, date, skips, moves, faults, told, again, lost, untold>>
    BY DEF Stamps, history
<1>3. /\ r \in PassType /\ r.at = "stamp" /\ r.left = pass[p].left \ {k}
      /\ r.shown = pass[p].shown /\ r.seen = pass[p].seen /\ r.dry = pass[p].dry
      /\ r.fresh = pass[p].fresh
    BY <1>0, <1>2 DEF PassType
<1>4. Goes(p, r)
    BY <1>1
<1> HIDE DEF r
<1>5. /\ pass' \in [Passes -> PassType] /\ pass'[p] = r
      /\ \A q \in Passes \ {p} : pass'[q] = Idle
    BY <1>0, <1>2, <1>3, <1>4, GoesTo
<1>6. lock = p /\ \A q \in Passes \ {p} : pass[q] = Idle
    BY <1>0, <1>2, Others
<1>7. ASSUME NEW i \in Items
      PROVE  /\ NewStamp(p, i) \in 0 .. MaxDate
             /\ Kind[i] # "ask" => NewStamp(p, i) = pass[p].shown[i]
             /\ pass[p].shown[i] = date[i] => NewStamp(p, i) = date[i]
             /\ NewStamp(p, i) = stamp[i] \/ NewStamp(p, i) = pass[p].shown[i]
             /\ i \in Shown(p, {k}) <=> Kind[i] = k /\ pass[p].shown[i] # 0
  <2>1. i \in Shown(p, {k}) <=> Kind[i] = k /\ pass[p].shown[i] # 0
      BY DEF Shown, Of
  <2>2. CASE Kind[i] = "ask"
      BY <1>0, <2>1, <2>2, DailyAssumption DEF NewStamp, Dates
  <2>3. CASE Kind[i] # "ask"
      BY <1>0, <2>1, <2>3 DEF NewStamp
  <2>4. QED
      BY <2>2, <2>3
<1>8. stamp' \in [Items -> 0 .. MaxDate]
    BY <1>0, <1>1, <1>7
<1>9. ASSUME NEW i \in Items PROVE ItemOK(i)'
  <2>1. /\ ItemOK(i) /\ date[i] # 0
        /\ stamp'[i] = IF i \in Shown(p, {k}) THEN NewStamp(p, i) ELSE stamp[i]
      BY <1>0, <1>1, DailyAssumption DEF Dates
  <2>2. InHand(i) => InHand(i)'
      BY <1>3, <1>5, <1>6 DEF InHand, Idle
  <2>3. BeingStamped(i) => Kind[i] \in pass[p].left /\ pass[p].shown[i] = date[i]
      BY <1>6 DEF BeingStamped, Idle
  <2>4. /\ pass[p].shown[i] # 0 => pass[p].shown[i] \in told[i]
        /\ pass[p].shown[i] # 0 /\ pass[p].shown[i] # date[i] => i \in again
        /\ pass[p].shown[i] # 0 /\ Kind[i] \notin Dated => pass[p].shown[i] = 1
      BY <1>0, <1>2 DEF ShownOK
  <2>5. CASE i \in Shown(p, {k})
    <3>1. /\ NewStamp(p, i) = stamp[i] \/ NewStamp(p, i) = pass[p].shown[i]
          /\ Kind[i] # "ask" => NewStamp(p, i) = pass[p].shown[i]
          /\ pass[p].shown[i] = date[i] => NewStamp(p, i) = date[i]
          /\ pass[p].shown[i] # 0 /\ stamp'[i] = NewStamp(p, i)
        BY <1>7, <2>1, <2>5
    <3>2. Kind[i] \in Recorded => Kind[i] # "ask"
        BY DEF Recorded
    <3>3. Kind[i] \notin Dated => date[i] = 1 /\ stamp'[i] <= 1
        BY <2>1, <2>4, <3>1 DEF ItemOK
    <3>4. stamp'[i] # 0 => \/ stamp'[i] \in told[i]
                           \/ Kind[i] \in Recorded /\ (i \in lost \/ InHand(i)')
        BY <2>1, <2>2, <2>4, <3>1 DEF ItemOK
    <3>5. Kind[i] \in Recorded => stamp'[i] # 0
        BY <3>1, <3>2
    <3>6. i \notin again => stamp'[i] = date[i]
        BY <2>4, <3>1
    <3>7. QED
        BY <1>2, <3>3, <3>4, <3>5, <3>6 DEF ItemOK
  <2>6. CASE i \notin Shown(p, {k})
    <3>1. stamp'[i] = stamp[i] /\ (pass[p].shown[i] # 0 => Kind[i] # k)
        BY <1>7, <2>1, <2>6
    <3>2. BeingStamped(i) => BeingStamped(i)'
        BY <1>2, <1>3, <1>5, <2>1, <2>3, <3>1 DEF BeingStamped
    <3>3. QED
        BY <1>2, <2>1, <2>2, <3>1, <3>2 DEF ItemOK
  <2>7. QED
      BY <2>5, <2>6
<1>10. FreshOK(p)'
  <2>1. ASSUME NEW i \in pass[p].fresh PROVE stamp'[i] # 0
    <3>1. i \in Items /\ Kind[i] \in Recorded /\ stamp[i] # 0
        BY <1>0, <1>2, <2>1 DEF FreshOK, ShownOK
    <3>2. i \in Shown(p, {k}) => NewStamp(p, i) # 0
        BY <1>7, <3>1 DEF Recorded
    <3>3. QED
        BY <1>1, <3>1, <3>2
  <2>2. QED
      BY <1>0, <1>2, <1>3, <1>5, <2>1 DEF FreshOK, ShownOK, Early
<1>11. ShownOK(p)'
    BY <1>0, <1>2, <1>3, <1>5 DEF ShownOK
<1>12. OneRunner' /\ \A q \in Passes : FreshOK(q)' /\ ShownOK(q)'
    BY <1>2, <1>3, <1>5, <1>6, <1>10, <1>11, RunnerIsAll
<1>13. TypeOK'
    BY <1>0, <1>2, <1>5, <1>8 DEF TypeOK
<1>14. QED
    BY <1>0, <1>2, <1>9, <1>12, <1>13 DEF Inv

-----------------------------------------------------------------------------
\* What the invariant says of an item's row is its type only.
LEMMA RowStep ==
  ASSUME Inv, row' \in [Items -> {"none", "found", "open", "off"}], moves' \in Nat,
         UNCHANGED <<lock, pass, date, stamp, skips, faults, history>>
  PROVE  Inv'
<1>1. TypeOK' /\ OneRunner' /\ (untold <= skips)'
    BY DEF Inv, TypeOK, OneRunner, history
<1>2. \A i \in Items : ItemOK(i)'
    BY DEF Inv, ItemOK, InHand, BeingStamped, history
<1>3. \A p \in Passes : FreshOK(p)'
    BY DEF Inv, FreshOK, history
<1>4. \A p \in Passes : ShownOK(p)'
    BY DEF Inv, ShownOK, history
<1>5. QED
    BY <1>1, <1>2, <1>3, <1>4 DEF Inv

LEMMA DecidesInv == ASSUME Inv, NEW i \in Items, Decides(i) PROVE Inv'
BY RowStep DEF Inv, TypeOK, Decides

LEMMA ScoresNamedInv == ASSUME Inv, NEW i \in Items, ScoresNamed(i) PROVE Inv'
BY RowStep DEF Inv, TypeOK, ScoresNamed

LEMMA MovesDateInv == ASSUME Inv, NEW i \in Items, NEW d \in Dates, MovesDate(i, d) PROVE Inv'
<1>0. /\ TypeOK /\ OneRunner /\ untold <= skips /\ \A j \in Items : ItemOK(j)
      /\ \A p \in Passes : FreshOK(p) /\ ShownOK(p) /\ pass[p].fresh \subseteq Items
      /\ date \in [Items -> Dates]
    BY DEF Inv, TypeOK, PassType
<1>1. /\ Kind[i] \in Dated /\ date' = [date EXCEPT ![i] = d] /\ again' = again \cup {i}
      /\ moves' = moves + 1
      /\ UNCHANGED <<lock, pass, row, stamp, skips, faults, told, lost, untold>>
    BY DEF MovesDate
<1>2. TypeOK' /\ OneRunner' /\ (untold <= skips)'
    BY <1>0, <1>1 DEF TypeOK, OneRunner
<1>3. /\ \A j \in Items : j # i => date'[j] = date[j]
      /\ Kind[i] \notin Recorded
    BY <1>0, <1>1 DEF Dated, Recorded
<1>4. ASSUME NEW j \in Items PROVE ItemOK(j)'
  <2>1. ItemOK(j)
      BY <1>0
  <2>2. CASE j = i
      BY <1>1, <1>3, <2>1, <2>2 DEF ItemOK
  <2>3. CASE j # i
      BY <1>1, <1>3, <2>1, <2>3 DEF ItemOK, InHand, BeingStamped
  <2>4. QED
      BY <2>2, <2>3
<1>5. ASSUME NEW p \in Passes PROVE FreshOK(p)' /\ ShownOK(p)'
  <2>1. FreshOK(p)'
      BY <1>0, <1>1 DEF FreshOK
  <2>2. i \notin pass[p].fresh
      BY <1>0, <1>3 DEF FreshOK
  <2>3. ShownOK(p)'
      BY <1>0, <1>1, <1>3, <2>2 DEF ShownOK
  <2>4. QED
      BY <2>1, <2>3
<1>6. QED
    BY <1>2, <1>4, <1>5 DEF Inv

-----------------------------------------------------------------------------
LEMMA NextInv == Inv /\ [Next]_vars => Inv'
<1> SUFFICES ASSUME Inv, [Next]_vars PROVE Inv'
    OBVIOUS
<1>1. ASSUME NEW p \in Passes, Advances(p) PROVE Inv'
    BY <1>1, DiscoveryInv, ScoringInv, OverInv, ClosureInv, RepliesInv, LabelInv, TargetsInv,
       SilentInv, RecordRunInv, AcceptedInv, StampsInv, MarkRunSentInv DEF Advances
<1>2. ASSUME NEW p \in Passes, Dies(p) PROVE Inv'
    BY <1>2, DiesInv
<1>3. ASSUME NEW p \in Passes, NEW dry \in BOOLEAN, Takes(p, dry) PROVE Inv'
    BY <1>3, TakesInv
<1>4. ASSUME NEW p \in Daily, RecordSkipped(p) PROVE Inv'
    BY <1>4, RecordSkippedInv
<1>5. ASSUME NEW i \in Items, Decides(i) \/ ScoresNamed(i) \/ \E d \in Dates : MovesDate(i, d)
      PROVE  Inv'
    BY <1>5, DecidesInv, ScoresNamedInv, MovesDateInv
<1>6. CASE UNCHANGED vars
  <2>1. row' \in [Items -> {"none", "found", "open", "off"}] /\ moves' \in Nat
      BY <1>6 DEF vars, Inv, TypeOK
  <2>2. QED
      BY <1>6, <2>1, RowStep DEF vars
<1>7. ByHand \subseteq Passes
    BY DEF Passes, Daily
<1>8. QED
    BY <1>1, <1>2, <1>3, <1>4, <1>5, <1>6, <1>7 DEF Next

\* The invariant on which the theorems rest.
THEOREM DailyInvariant == Spec => []Inv
<1>1. QED
    BY InitInv, NextInv, PTL DEF Spec

\* The declared types, and what an idle pass has in hand, for any items and passes.
THEOREM TypesHold == Spec => []TypeOK
<1>1. Inv => TypeOK
    BY DEF Inv
<1>2. QED
    BY <1>1, DailyInvariant, PTL

\* What is stamped was told by an accepted digest with that date, whatever dies,
\* fails or moves meanwhile; a reply or a closure may have been dropped (daily.py:439).
THEOREM NothingBuriedHolds == Spec => []NothingBuried
<1>1. Inv => NothingBuried
    BY DEF Inv, NothingBuried, ItemOK, InHand
<1>2. QED
    BY <1>1, DailyInvariant, PTL

\* The next footer counts every skipped run that no digest has told (daily.py:349).
THEOREM SkipsAreToldHolds == Spec => []SkipsAreTold
<1>1. Inv => SkipsAreTold
    BY DEF Inv, SkipsAreTold
<1>2. QED
    BY <1>1, DailyInvariant, PTL

\* Nothing is told twice unless its date moved or a pass died before its stamp:
\* the lock keeps the selection, the send and the stamps together (daily.py:330).
THEOREM AnnouncedOnceHolds == Spec => AnnouncedOnce
<1>1. Inv => \A p \in Daily : Accepted(p) =>
               \A i \in Items : pass[p].shown[i] \in told[i] => i \in again
    BY DEF Inv, ShownOK, Accepted, Passes
<1>2. QED
    BY <1>1, DailyInvariant, PTL DEF AnnouncedOnce
-----------------------------------------------------------------------------
(* The scores the daily run gives (Matching).  What a pass has been told is *)
(* tied to what it read, and to the scores of the table that it replays.    *)

\* A score that a later pass may replay and that must agree with its twins.
Counts(score) == score # NoScore /\ ~score.redone /\ ~score.misplaced

TwinsIn(s, j) == {j} \cup {k \in DOMAIN s.seen : SameKey(j, s.seen[j], k, s.seen[k])}
Redo(s) == s.kind \notin {"daily", "changed", "adopted"}

\* What a pass has been told: true to what it read, and each key was replayed for all of its
\* postings or is asked about for the first of them only.
GotOK(s) ==
  /\ DOMAIN s.got \subseteq DOMAIN s.seen /\ s.left \subseteq DOMAIN s.seen \ DOMAIN s.got
  /\ \A j \in s.left : j = Least(TwinsIn(s, j))
  /\ \A j \in DOMAIN s.got :
       /\ s.got[j].under = s.got[j].version /\ s.got[j].version = s.version
       /\ ~s.got[j].misplaced => s.got[j].of = s.seen[j]
       /\ Redo(s) => s.got[j].redone
       /\ \/ j = Least(TwinsIn(s, j))
          \/ \A k \in TwinsIn(s, j) : k \in DOMAIN s.got /\ s.got[k] = s.got[j]

\* A score of the table that counts has been replayed for its twins in the pass.
StoredOK(s, table) ==
  ~Redo(s) =>
    \A j \in DOMAIN s.seen, k \in Jobs :
      /\ Counts(table[k].score) /\ table[k].score.version = s.version
      /\ SameKey(j, s.seen[j], k, table[k].text)
      => j \in DOMAIN s.got /\ (Counts(s.got[j]) => s.got[j].value = table[k].score.value)

PassesOK ==
  /\ \A c \in Clickers : scorer[c] # NoPass => Redo(scorer[c])
  /\ \A p \in Scorers : scorer[p].at = "scoring" => GotOK(scorer[p]) /\ StoredOK(scorer[p], job)

AbsentIsBlank == \A j \in Jobs : job[j].review = "absent" => job[j].score = NoScore

MatchInv == MatchTypeOK /\ AbsentIsBlank /\ PassesOK /\ ScoreIsTrue /\ TwinsAgree

-----------------------------------------------------------------------------
\* The first of a set of rows is one of them.
LEMMA LeastIsFirst ==
  ASSUME NEW S, S \subseteq Nat, S # {}
  PROVE  Least(S) \in S /\ \A k \in S : Least(S) <= k
<1>1. PICK m \in S : \A k \in S : ~ (<<k, m>> \in OpToRel(<, Nat))
    BY NatLessThanWellFounded, WFMin
<1>2. \A k \in S : ~ (k < m)
    BY <1>1 DEF OpToRel
<1>3. \A k \in S : m <= k
    BY <1>2
<1>4. \E j \in S : \A k \in S : j <= k
    BY <1>3
<1>5. QED
    BY <1>4 DEF Least

\* _batches: the first n are n at most.
LEMMA FirstAreFew ==
  ASSUME NEW S, S \subseteq Nat, IsFiniteSet(S), NEW n \in Nat
  PROVE  /\ FirstOf(n, S) \subseteq S /\ IsFiniteSet(FirstOf(n, S))
         /\ Cardinality(FirstOf(n, S)) \in 0..n
<1> DEFINE F == FirstOf(n, S)
           Before(j) == {k \in S : k < j}
           Place(j) == Cardinality(Before(j))
<1>1. F \subseteq S /\ \A j \in F : Place(j) < n
    BY DEF FirstOf
<1>2. IsFiniteSet(F) /\ Cardinality(F) \in Nat
    BY <1>1, FS_Subset, FS_CardinalityType
<1>3. ASSUME NEW j \in S PROVE IsFiniteSet(Before(j)) /\ Place(j) \in Nat
  <2>1. Before(j) \in SUBSET S
      OBVIOUS
  <2>2. QED
      BY <2>1, FS_Subset, FS_CardinalityType
<1>4. ASSUME NEW j \in F, NEW k \in F, j < k PROVE Place(j) < Place(k)
  <2>1. j \in S /\ k \in S /\ j \in Nat /\ k \in Nat
      BY <1>1
  <2>2. \A i \in S : i \in Nat /\ (i < j => i < k)
      BY <2>1, <1>4
  <2>7. Before(j) \cup {j} \in SUBSET Before(k)
      BY <2>1, <2>2, <1>4
  <2>8. ~(j < j)
      BY <2>1
  <2>9. j \notin Before(j)
      BY <2>8
  <2>3. Cardinality(Before(j) \cup {j}) = Place(j) + 1
      BY <2>1, <2>9, <1>3, FS_AddElement
  <2>4. Cardinality(Before(j) \cup {j}) <= Place(k)
      BY <2>1, <2>7, <1>3, FS_Subset
  <2>5. Place(j) \in Nat /\ Place(k) \in Nat
      BY <2>1, <1>3
  <2> HIDE DEF Place, Before
  <2>6. QED
      BY <2>3, <2>4, <2>5
<1>5. CASE F = {}
    BY <1>1, <1>5, FS_EmptySet
<1>6. CASE F # {}
  <2> DEFINE G == {n - Place(k) : k \in F}
  <2> HIDE DEF F, Place
  <2>1. G \subseteq Nat /\ G # {}
    <3>1. \A k \in F : Place(k) \in Nat /\ Place(k) < n
        BY <1>1, <1>3
    <3>2. \A k \in F : n - Place(k) \in Nat
        BY <3>1
    <3>3. QED
        BY <3>2, <1>6
  <2>2. Least(G) \in G /\ \A g \in G : Least(G) <= g
      BY <2>1, LeastIsFirst
  <2>3. PICK j \in F : \A k \in F : n - Place(j) <= n - Place(k)
      BY <2>2
  <2>4. \A k \in F : k <= j
    <3>1. ASSUME NEW k \in F, ~(k <= j) PROVE FALSE
      <4>1. k \in Nat /\ j \in Nat /\ Place(j) \in Nat /\ Place(k) \in Nat
          BY <1>1, <1>3
      <4>2. j < k
          BY <3>1, <4>1
      <4>3. Place(j) < Place(k)
          BY <4>2, <1>4
      <4>4. n - Place(j) <= n - Place(k)
          BY <2>3
      <4>5. QED
          BY <4>1, <4>3, <4>4
    <3>2. QED
        BY <3>1
  <2>5. F \ {j} \in SUBSET Before(j)
    <3>1. ASSUME NEW k \in F \ {j} PROVE k \in S /\ k < j
      <4>1. k \in F /\ k # j /\ k <= j /\ k \in S /\ j \in S
          BY <2>4, <1>1
      <4>2. QED
          BY <4>1
    <3>2. QED
        BY <3>1
  <2>6. j \in S /\ IsFiniteSet(Before(j)) /\ Place(j) \in Nat /\ Place(j) < n
      BY <1>1, <1>3
  <2>7. Cardinality(F \ {j}) <= Place(j)
      BY <2>5, <2>6, FS_Subset DEF Place
  <2>8. Cardinality(F \ {j}) = Cardinality(F) - 1
      BY <1>2, FS_RemoveElement
  <2>9. Cardinality(F) \in 0..n
      BY <1>2, <2>6, <2>7, <2>8
  <2>10. QED
      BY <1>1, <1>2, <2>9 DEF F
<1>7. QED
    BY <1>5, <1>6

\* One key's candidates have one first among them.
LEMMA TwinsAlike ==
  ASSUME NEW s, DOMAIN s.seen \subseteq Jobs, NEW j \in DOMAIN s.seen
  PROVE  /\ TwinsIn(s, j) \subseteq DOMAIN s.seen
         /\ Least(TwinsIn(s, j)) \in TwinsIn(s, j)
         /\ \A k \in TwinsIn(s, j) : /\ TwinsIn(s, k) = TwinsIn(s, j)
                                     /\ s.seen[k] = s.seen[j]
<1>1. TwinsIn(s, j) \subseteq DOMAIN s.seen /\ j \in TwinsIn(s, j)
    BY DEF TwinsIn
<1>2. TwinsIn(s, j) \subseteq Nat
    BY <1>1, MatchingAssumption
<1>3. Least(TwinsIn(s, j)) \in TwinsIn(s, j)
    BY <1>1, <1>2, LeastIsFirst
<1>4. \A k \in TwinsIn(s, j) : TwinsIn(s, k) = TwinsIn(s, j) /\ s.seen[k] = s.seen[j]
    BY DEF TwinsIn, SameKey
<1>5. QED
    BY <1>1, <1>3, <1>4

\* What the model's operators say of a pass is said of what the pass holds.
LEMMA OfThePass ==
  ASSUME NEW p
  PROVE  /\ Redoes(p) <=> Redo(scorer[p])
         /\ \A j : Twins(p, j) = TwinsIn(scorer[p], j)
BY DEF Redoes, Redo, Twins, TwinsIn

\* The fields of a pass, and of what it has seen and been told.
LEMMA OfSeen == ASSUME NEW t \in TextsOf PROVE DOMAIN t \subseteq Jobs /\ t \in [DOMAIN t -> Texts]
BY DEF TextsOf

IsScoring(s) == \E S \in SUBSET Jobs : s \in ScoringPass(S)

LEMMA OfScoring ==
  ASSUME NEW s, IsScoring(s)
  PROVE  /\ s.at = "scoring" /\ s.kind \in PassKinds /\ s.whole \in BOOLEAN
         /\ s.version \in 0..MaxActs /\ s.seen \in TextsOf
         /\ DOMAIN s.seen \subseteq Jobs /\ s.seen \in [DOMAIN s.seen -> Texts]
         /\ s.got \in [DOMAIN s.got -> Judged] /\ DOMAIN s.got \subseteq Jobs
         /\ s.left \subseteq Jobs /\ s.budget \in 0..FallbackJobBudget
<1>1. PICK S \in SUBSET Jobs : s \in ScoringPass(S)
    BY DEF IsScoring
<1>2. /\ s.at = "scoring" /\ s.kind \in PassKinds /\ s.whole \in BOOLEAN
      /\ s.version \in 0..MaxActs /\ s.seen \in TextsOf /\ s.got \in [S -> Judged]
      /\ s.left \subseteq Jobs /\ s.budget \in 0..FallbackJobBudget
    BY <1>1 DEF ScoringPass
<1>3. QED
    BY <1>2, OfSeen

LEMMA OfPlanning ==
  ASSUME NEW s \in PlanningPass
  PROVE  /\ s.at = "planning" /\ s.kind \in PassKinds /\ s.whole \in BOOLEAN
         /\ s.version \in 0..MaxActs /\ s.seen \in TextsOf
         /\ DOMAIN s.seen \subseteq Jobs /\ s.seen \in [DOMAIN s.seen -> Texts]
BY OfSeen DEF PlanningPass

LEMMA OfScorer ==
  ASSUME MatchTypeOK, NEW p \in Scorers
  PROVE  /\ scorer[p].at = "scoring" => IsScoring(scorer[p])
         /\ scorer[p].at = "planning" => scorer[p] \in PlanningPass
<1>1. scorer[p] = NoPass \/ scorer[p] \in PlanningPass \/ IsScoring(scorer[p])
    BY DEF MatchTypeOK, IsPass, IsScoring
<1>2. NoPass.at = "idle"
    BY DEF NoPass
<1>3. QED
    BY <1>1, <1>2, OfScoring, OfPlanning

LEMMA ScoredIsJudged == \A x \in Scores : x # NoScore <=> x \in Judged
<1>1. \A x \in Judged : x.value \in Values
    BY DEF Judged
<1>2. NoScore.value \notin Values
    BY DEF NoScore, Values
<1>3. QED
    BY <1>1, <1>2 DEF Scores

\* What a pass writes: true to what it read, and one for all of a key.
LEMMA ResultsAre ==
  ASSUME MatchTypeOK, NEW p \in Scorers, scorer[p].at = "scoring", GotOK(scorer[p])
  PROVE  /\ DOMAIN Results(p) \subseteq DOMAIN scorer[p].seen
         /\ \A j \in DOMAIN Results(p) :
              /\ Results(p)[j] \in Judged
              /\ Results(p)[j].under = Results(p)[j].version
              /\ Results(p)[j].version = scorer[p].version
              /\ ~Results(p)[j].misplaced => Results(p)[j].of = scorer[p].seen[j]
              /\ Redo(scorer[p]) => Results(p)[j].redone
              /\ \A k \in DOMAIN Results(p) \cap TwinsIn(scorer[p], j) : Results(p)[k] = Results(p)[j]
         /\ \A j \in DOMAIN scorer[p].got : j \in DOMAIN Results(p) /\ Results(p)[j] = scorer[p].got[j]
<1> DEFINE s == scorer[p]
           First(j) == Least(TwinsIn(s, j))
           R == Results(p)
<1>1. IsScoring(s) /\ DOMAIN s.got \subseteq DOMAIN s.seen
    BY OfScorer DEF GotOK
<1>2. DOMAIN s.seen \subseteq Jobs /\ s.got \in [DOMAIN s.got -> Judged]
    BY <1>1, OfScoring
<1>3. \A j : Twins(p, j) = TwinsIn(s, j)
    BY OfThePass
<1>4. /\ DOMAIN R = DOMAIN s.got \cup {j \in DOMAIN s.seen : First(j) \in DOMAIN s.got}
      /\ \A j \in DOMAIN R : R[j] = IF j \in DOMAIN s.got THEN s.got[j] ELSE s.got[First(j)]
    BY <1>3 DEF Results
<1>5. ASSUME NEW j \in DOMAIN s.seen
      PROVE  /\ First(j) \in TwinsIn(s, j) /\ First(j) \in DOMAIN s.seen
             /\ \A k \in TwinsIn(s, j) : First(k) = First(j) /\ s.seen[k] = s.seen[j]
    BY <1>2, TwinsAlike
<1>6. \A j \in DOMAIN s.got :
        /\ s.got[j].under = s.got[j].version /\ s.got[j].version = s.version
        /\ ~s.got[j].misplaced => s.got[j].of = s.seen[j]
        /\ Redo(s) => s.got[j].redone
        /\ \/ j = First(j)
           \/ \A k \in TwinsIn(s, j) : k \in DOMAIN s.got /\ s.got[k] = s.got[j]
    BY DEF GotOK
<1> HIDE DEF s, First, R
<1>7. DOMAIN R \subseteq DOMAIN s.seen
    BY <1>1, <1>4
<1>8. ASSUME NEW j \in DOMAIN R
      PROVE  \E i \in DOMAIN s.got : R[j] = s.got[i] /\ i \in TwinsIn(s, j) /\ s.seen[i] = s.seen[j]
  <2>1. j \in DOMAIN s.seen /\ j \in TwinsIn(s, j)
      BY <1>7 DEF TwinsIn
  <2>2. QED
      BY <2>1, <1>4, <1>5
<1>9. ASSUME NEW j \in DOMAIN R, NEW k \in DOMAIN R, k \in TwinsIn(s, j) PROVE R[k] = R[j]
  <2>1. j \in DOMAIN s.seen /\ k \in DOMAIN s.seen /\ First(k) = First(j) /\ j \in TwinsIn(s, k)
    <3>1. j \in DOMAIN s.seen /\ k \in DOMAIN s.seen /\ First(k) = First(j)
        BY <1>5, <1>7, <1>9
    <3>2. TwinsIn(s, k) = TwinsIn(s, j)
        BY <1>2, <1>9, <3>1, TwinsAlike
    <3>4. j \in TwinsIn(s, j)
        BY DEF TwinsIn
    <3>3. QED
        BY <3>1, <3>2, <3>4
  <2>2. CASE j \in DOMAIN s.got
      BY <2>1, <2>2, <1>4, <1>6, <1>9
  <2>3. CASE k \in DOMAIN s.got
      BY <2>1, <2>3, <1>4, <1>6, <1>9
  <2>4. CASE j \notin DOMAIN s.got /\ k \notin DOMAIN s.got
      BY <2>1, <2>4, <1>4
  <2>5. QED
      BY <2>2, <2>3, <2>4
<1>10. ASSUME NEW j \in DOMAIN R
       PROVE  /\ R[j] \in Judged /\ R[j].under = R[j].version /\ R[j].version = s.version
              /\ ~R[j].misplaced => R[j].of = s.seen[j]
              /\ Redo(s) => R[j].redone
  <2>1. PICK i \in DOMAIN s.got : R[j] = s.got[i] /\ s.seen[i] = s.seen[j]
      BY <1>8
  <2>2. s.got[i] \in Judged
      BY <1>2
  <2>3. QED
      BY <2>1, <2>2, <1>6
<1>11. \A j \in DOMAIN s.got : j \in DOMAIN R /\ R[j] = s.got[j]
    BY <1>4
<1>12. QED
    BY <1>7, <1>9, <1>10, <1>11 DEF s, R

LEMMA OfRow ==
  ASSUME NEW r \in Row
  PROVE  /\ r.review \in MachineStates \cup {"kept", "archived", "absent"} /\ r.text \in Texts
         /\ r.score \in Scores /\ r.far \in BOOLEAN
         /\ r.score # NoScore => r.score \in Judged
BY ScoredIsJudged DEF Row

-----------------------------------------------------------------------------
\* No score that counts is given, nor put beside another text.
NoneCounted ==
  \A j \in Jobs : Counts(job'[j].score) => /\ job'[j].score = job[j].score
                                           /\ job'[j].text = job[j].text

\* A step of one pass, or of none, that gives no score that counts.
LEMMA OneMoves ==
  ASSUME MatchInv, MatchTypeOK', AbsentIsBlank', ScoreIsTrue', NoneCounted, NEW p \in Scorers,
         \A q \in Scorers \ {p} : scorer'[q] = scorer[q],
         p \in Clickers => scorer'[p] = NoPass \/ Redo(scorer'[p]),
         scorer'[p].at = "scoring" => GotOK(scorer'[p]) /\ StoredOK(scorer'[p], job')
  PROVE  MatchInv'
<1>1. ASSUME NEW q \in Scorers, scorer'[q].at = "scoring"
      PROVE  GotOK(scorer'[q]) /\ StoredOK(scorer'[q], job')
  <2>1. CASE q = p
      BY <1>1, <2>1
  <2>2. CASE q # p
    <3>1. scorer'[q] = scorer[q] /\ GotOK(scorer[q]) /\ StoredOK(scorer[q], job)
        BY <1>1, <2>2 DEF MatchInv, PassesOK
    <3>2. StoredOK(scorer[q], job')
        BY <3>1 DEF StoredOK, NoneCounted
    <3>3. QED
        BY <3>1, <3>2
  <2>3. QED
      BY <2>1, <2>2
<1>2. \A c \in Clickers : scorer'[c] # NoPass => Redo(scorer'[c])
    BY DEF MatchInv, PassesOK, Scorers
<1>3. PassesOK'
    BY <1>1, <1>2 DEF PassesOK
<1>4. TwinsAgree'
    BY DEF MatchInv, TwinsAgree, Twinned, NoneCounted, Counts, Scored
<1>5. QED
    BY <1>3, <1>4 DEF MatchInv

\* A step that leaves the table alone.
LEMMA TableStays ==
  ASSUME MatchInv, MatchTypeOK', job' = job, NEW p \in Scorers,
         \A q \in Scorers \ {p} : scorer'[q] = scorer[q],
         p \in Clickers => scorer'[p] = NoPass \/ Redo(scorer'[p]),
         scorer'[p].at = "scoring" => GotOK(scorer'[p]) /\ StoredOK(scorer'[p], job)
  PROVE  MatchInv'
<1>1. AbsentIsBlank' /\ ScoreIsTrue' /\ NoneCounted
    BY DEF MatchInv, AbsentIsBlank, ScoreIsTrue, NoneCounted, Scored
<1>2. QED
    BY <1>1, OneMoves

\* A step that leaves the passes alone.
LEMMA PassesStay ==
  ASSUME MatchInv, MatchTypeOK', AbsentIsBlank', ScoreIsTrue', NoneCounted, scorer' = scorer
  PROVE  MatchInv'
<1>1. "locked" \in Scorers /\ "locked" \notin Clickers
    BY MatchingAssumption DEF Scorers
<1>2. scorer["locked"].at = "scoring" => GotOK(scorer["locked"]) /\ StoredOK(scorer["locked"], job')
    BY <1>1 DEF MatchInv, PassesOK, StoredOK, NoneCounted
<1>3. QED
    BY <1>1, <1>2, OneMoves

\* The table keeps its scores and texts.
LEMMA ScoresStay ==
  ASSUME MatchInv, MatchTypeOK',
         \A j \in Jobs : /\ job'[j].score = job[j].score /\ job'[j].text = job[j].text
                         /\ job'[j].review = "absent" => job[j].review = "absent"
  PROVE  AbsentIsBlank' /\ ScoreIsTrue' /\ NoneCounted
BY DEF MatchInv, AbsentIsBlank, ScoreIsTrue, NoneCounted, Scored

-----------------------------------------------------------------------------
LEMMA MatchInitInv == MatchInit => MatchInv
<1> SUFFICES ASSUME MatchInit PROVE MatchInv
    OBVIOUS
<1>1. (CHOOSE t \in Texts : TRUE) \in Texts
    BY MatchingAssumption
<1>2. MatchTypeOK
  <2>1. \A j \in Jobs : job[j] \in Row
      BY <1>1 DEF MatchInit, Row, Scores
  <2>2. job \in [Jobs -> Row] /\ \A p \in Scorers : scorer[p] = NoPass
      BY <2>1 DEF MatchInit
  <2>3. QED
      BY <2>2, MatchingAssumption DEF MatchTypeOK, IsPass, MatchInit
<1>3. \A j \in Jobs : job[j].score = NoScore
    BY DEF MatchInit
<1>4. \A p \in Scorers : scorer[p] = NoPass /\ scorer[p].at # "scoring"
    BY DEF MatchInit, NoPass
<1>5. QED
    BY <1>2, <1>3, <1>4 DEF MatchInv, AbsentIsBlank, PassesOK, Scorers, ScoreIsTrue, TwinsAgree,
                            Twinned, Scored

-----------------------------------------------------------------------------
(* A pass *)

LEMMA PassPut ==
  ASSUME MatchTypeOK, NEW p \in Scorers, NEW s, scorer' = [scorer EXCEPT ![p] = s]
  PROVE  /\ scorer'[p] = s /\ \A q \in Scorers \ {p} : scorer'[q] = scorer[q]
         /\ IsPass(s) => /\ scorer' = [q \in Scorers |-> scorer'[q]]
                         /\ \A q \in Scorers : IsPass(scorer'[q])
<1>1. DOMAIN scorer = Scorers
    BY DEF MatchTypeOK
<1>2. scorer'[p] = s /\ \A q \in Scorers \ {p} : scorer'[q] = scorer[q]
    BY <1>1
<1>3. scorer' = [q \in Scorers |-> scorer'[q]]
    BY <1>1
<1>4. QED
    BY <1>2, <1>3 DEF MatchTypeOK

LEMMA BeginKeeps ==
  ASSUME MatchInv, NEW p \in Scorers, NEW kind \in PassKinds, NEW only, only \subseteq Jobs,
         NEW whole \in BOOLEAN, Begin(p, kind, only, whole), acts' \in acts..MaxActs,
         p \in Clickers => kind = "scoped"
  PROVE  MatchInv'
<1> DEFINE cs == Candidates(kind, only)
           seen == [j \in {c \in cs : ~Rejected(c)} |-> job[j].text]
           s == [at |-> "planning", kind |-> kind, whole |-> whole, version |-> inputs, seen |-> seen]
<1>1. MatchTypeOK /\ cs \subseteq Jobs
    BY DEF MatchInv, Candidates
<1>2. /\ scorer' = [scorer EXCEPT ![p] = s] /\ dream' = dream /\ inputs' = inputs
      /\ job' = [j \in Jobs |->
                   IF j \notin cs THEN job[j]
                   ELSE [job[j] EXCEPT !.far = j \in Far /\ j \in dream,
                                       !.review = IF Rejected(j) THEN "new" ELSE @]]
    BY DEF Begin
<1>3. \A j \in Jobs : job[j] \in Row
    BY <1>1 DEF MatchTypeOK
<1>4. seen \in TextsOf
  <2>1. \A j \in DOMAIN seen : seen[j] \in Texts
      BY <1>1, <1>3, OfRow
  <2>2. DOMAIN seen \in SUBSET Jobs /\ seen \in [DOMAIN seen -> Texts]
      BY <1>1, <2>1
  <2>3. QED
      BY <2>2 DEF TextsOf
<1>5. IsPass(s)
  <2>1. inputs \in 0..MaxActs
      BY <1>1, MatchingAssumption DEF MatchTypeOK
  <2>2. s \in PlanningPass
      BY <2>1, <1>4 DEF PlanningPass
  <2>3. QED
      BY <2>2 DEF IsPass
<1> HIDE DEF cs, seen
<1>6. \A j \in Jobs : /\ job'[j] \in Row /\ job'[j].score = job[j].score /\ job'[j].text = job[j].text
                      /\ job'[j].review = "absent" => job[j].review = "absent"
  <2>1. \A j \in Jobs : job[j] \in Row /\ job[j].far \in BOOLEAN
      BY <1>3, OfRow
  <2>2. ASSUME NEW j \in Jobs, j \notin cs
        PROVE  /\ job'[j] \in Row /\ job'[j].score = job[j].score /\ job'[j].text = job[j].text
               /\ job'[j].review = "absent" => job[j].review = "absent"
      BY <2>1, <2>2, <1>2
  <2>3. ASSUME NEW j \in Jobs, j \in cs
        PROVE  /\ job'[j] \in Row /\ job'[j].score = job[j].score /\ job'[j].text = job[j].text
               /\ job'[j].review = "absent" => job[j].review = "absent"
    <3>1. job'[j] = [job[j] EXCEPT !.far = j \in Far /\ j \in dream,
                                   !.review = IF Rejected(j) THEN "new" ELSE @]
        BY <1>2, <2>3
    <3>2. (j \in Far /\ j \in dream) \in BOOLEAN
        OBVIOUS
    <3>3. QED
        BY <3>1, <3>2, <2>1 DEF Row, MachineStates
  <2>4. QED
      BY <2>2, <2>3
<1>7. MatchTypeOK'
  <2>1. job' \in [Jobs -> Row]
      BY <1>2, <1>6
  <2>2. /\ scorer' = [q \in Scorers |-> scorer'[q]]
        /\ \A q \in Scorers : IsPass(scorer'[q])
      BY <1>1, <1>2, <1>5, PassPut
  <2>3. dream' \subseteq Jobs
      BY <1>1, <1>2 DEF MatchTypeOK
  <2>5. acts' \in 0..MaxActs /\ inputs' \in 0..acts'
    <3>1. acts \in Nat /\ inputs \in Nat /\ inputs <= acts /\ MaxActs \in Nat
        BY <1>1, MatchingAssumption DEF MatchTypeOK
    <3>2. inputs' = inputs /\ acts' \in acts..MaxActs
        BY <1>2
    <3>3. QED
        BY <3>1, <3>2
  <2>4. QED
      BY <2>1, <2>2, <2>3, <2>5 DEF MatchTypeOK
<1>8. scorer'[p] = s /\ \A q \in Scorers \ {p} : scorer'[q] = scorer[q]
    BY <1>1, <1>2, PassPut
<1>9. scorer'[p].at # "scoring" /\ (p \in Clickers => Redo(scorer'[p]))
    BY <1>8 DEF Redo
<1>10. AbsentIsBlank' /\ ScoreIsTrue' /\ NoneCounted
    BY <1>6, <1>7, ScoresStay
<1>11. QED
    BY <1>7, <1>8, <1>9, <1>10, OneMoves

\* The passes' own steps leave this alone.
LEMMA PassTyped ==
  ASSUME MatchTypeOK, NEW p \in Scorers, NEW s, scorer' = [scorer EXCEPT ![p] = s], IsPass(s),
         job' \in [Jobs -> Row], UNCHANGED <<dream, inputs, acts>>
  PROVE  MatchTypeOK'
<1>1. scorer' = [q \in Scorers |-> scorer'[q]] /\ \A q \in Scorers : IsPass(scorer'[q])
    BY PassPut
<1>2. dream' \subseteq Jobs /\ acts' \in 0..MaxActs /\ inputs' \in 0..acts'
    BY DEF MatchTypeOK
<1>3. QED
    BY <1>1, <1>2 DEF MatchTypeOK

LEMMA BeginKeptKeeps ==
  ASSUME MatchInv, NEW c \in Clickers, NEW j \in Jobs, BeginKept(c, j), acts' \in acts..MaxActs
  PROVE  MatchInv'
<1> DEFINE seen == [k \in {j} |-> job[k].text]
           s == [at |-> "planning", kind |-> "kept", whole |-> FALSE, version |-> inputs, seen |-> seen]
<1>1. MatchTypeOK /\ c \in Scorers
    BY DEF MatchInv, Scorers
<1>2. scorer' = [scorer EXCEPT ![c] = s] /\ UNCHANGED <<job, dream, inputs>>
    BY DEF BeginKept
<1>3. IsPass(s)
  <2>1. job[j].text \in Texts
      BY <1>1, OfRow DEF MatchTypeOK
  <2>2. {j} \in SUBSET Jobs /\ seen \in [{j} -> Texts]
      BY <2>1
  <2>3. seen \in TextsOf
      BY <2>2 DEF TextsOf
  <2>4. inputs \in 0..MaxActs
      BY <1>1, MatchingAssumption DEF MatchTypeOK
  <2>5. s \in PlanningPass
      BY <2>3, <2>4 DEF PlanningPass, PassKinds
  <2>6. QED
      BY <2>5 DEF IsPass
<1> HIDE DEF seen
<1>4. MatchTypeOK'
  <2>1. acts \in Nat /\ inputs \in Nat /\ inputs <= acts /\ MaxActs \in Nat
      BY <1>1, MatchingAssumption DEF MatchTypeOK
  <2>2. acts' \in 0..MaxActs /\ inputs' \in 0..acts'
      BY <2>1, <1>2
  <2>3. scorer' = [q \in Scorers |-> scorer'[q]] /\ \A q \in Scorers : IsPass(scorer'[q])
      BY <1>1, <1>2, <1>3, PassPut
  <2>4. QED
      BY <1>1, <1>2, <2>2, <2>3 DEF MatchTypeOK
<1>5. /\ scorer'[c] = s
      /\ \A q \in Scorers \ {c} : scorer'[q] = scorer[q]
    BY <1>1, <1>2, PassPut
<1>6. scorer'[c].at # "scoring" /\ Redo(scorer'[c])
    BY <1>5 DEF Redo
<1>7. QED
    BY <1>1, <1>2, <1>4, <1>5, <1>6, TableStays

\* Two postings of one key find the same earlier scores.
LEMMA PriorsAlike ==
  ASSUME NEW p, NEW j, NEW k \in TwinsIn(scorer[p], j)
  PROVE  Priors(p, k) = Priors(p, j)
BY DEF TwinsIn, Priors, SameKey

LEMMA PlanKeeps ==
  ASSUME MatchInv, NEW p \in Scorers, Plan(p)
  PROVE  MatchInv'
<1> DEFINE s == scorer[p]
           seen == s.seen
           replayed == {j \in DOMAIN seen : Priors(p, j) # {}}
           got == [j \in replayed |-> Replay(p, Least(Priors(p, j)))]
           left == {j \in DOMAIN seen \ replayed : j = Least(Twins(p, j))}
           new == [at |-> "scoring", kind |-> s.kind, whole |-> s.whole, version |-> s.version,
                   seen |-> seen, got |-> got, left |-> left, budget |-> FallbackJobBudget]
<1>1. MatchTypeOK /\ ScoreIsTrue /\ TwinsAgree /\ s \in PlanningPass
    BY OfScorer DEF MatchInv, Plan
<1>2. /\ s.kind \in PassKinds /\ s.whole \in BOOLEAN
      /\ s.version \in 0..MaxActs /\ seen \in TextsOf /\ DOMAIN seen \subseteq Jobs
    BY <1>1, OfPlanning
<1>3. scorer' = [scorer EXCEPT ![p] = new] /\ UNCHANGED <<job, dream, inputs, acts>>
    BY DEF Plan
<1>4. \A j : Twins(p, j) = TwinsIn(s, j)
    BY OfThePass
<1>5. \A k \in Jobs : job[k].score # NoScore => job[k].score \in Judged
    BY <1>1, OfRow DEF MatchTypeOK
<1>6. ASSUME NEW j \in replayed
      PROVE  \E m \in Priors(p, j) :
               /\ m = Least(Priors(p, j)) /\ m \in Jobs
               /\ Scored(m) /\ job[m].score \in Judged /\ job[m].score.version = s.version
               /\ s.kind \notin {"all", "kept"}
               /\ SameKey(j, seen[j], m, job[m].text) /\ seen[j] = job[m].text
               /\ got[j] \in Judged
               /\ got[j] = [job[m].score EXCEPT !.version = s.version, !.redone = @ \/ Redoes(p)]
  <2>1. Priors(p, j) \subseteq Jobs /\ Priors(p, j) # {} /\ Jobs \subseteq Nat
      BY MatchingAssumption DEF Priors
  <2> DEFINE m == Least(Priors(p, j))
  <2>2. m \in Priors(p, j) /\ m \in Jobs
      BY <2>1, LeastIsFirst
  <2>3. /\ Scored(m) /\ job[m].score.version = s.version /\ s.kind \notin {"all", "kept"}
        /\ SameKey(j, seen[j], m, job[m].text) /\ seen[j] = job[m].text
      BY <2>2 DEF Priors, SameKey
  <2>4. job[m].score \in Judged
      BY <2>2, <2>3, <1>5 DEF Scored
  <2>5. got[j] = [job[m].score EXCEPT !.version = s.version, !.redone = @ \/ Redoes(p)]
      BY DEF Replay
  <2> HIDE DEF m, got
  <2>6. got[j] \in Judged
    <3>1. job[m].score.redone \in BOOLEAN
        BY <2>4 DEF Judged
    <3>2. (job[m].score.redone \/ Redoes(p)) \in BOOLEAN
        OBVIOUS
    <3>3. QED
        BY <2>4, <2>5, <3>1, <3>2, <1>2 DEF Judged
  <2>7. QED
      BY <2>2, <2>3, <2>4, <2>5, <2>6 DEF m
<1>7. got \in [replayed -> Judged]
    BY <1>6
<1>8. IsPass(new)
  <2>1. replayed \in SUBSET Jobs /\ left \in SUBSET Jobs
      BY <1>2
  <2>2. FallbackJobBudget \in 0..FallbackJobBudget
      BY MatchingAssumption
  <2> HIDE DEF replayed, got, left
  <2>3. new \in ScoringPass(replayed)
      BY <1>2, <1>7, <2>1, <2>2 DEF ScoringPass
  <2>4. QED
      BY <2>1, <2>3 DEF IsPass
<1>9. MatchTypeOK'
  <2>1. job' \in [Jobs -> Row]
      BY <1>1, <1>3 DEF MatchTypeOK
  <2> HIDE DEF new
  <2>2. QED
      BY <1>1, <1>3, <1>8, <2>1, PassTyped
<1>10. \A j \in DOMAIN seen : TwinsIn(new, j) = TwinsIn(s, j)
    BY DEF TwinsIn
<1>11. GotOK(new)
  <2>1. replayed \subseteq DOMAIN seen /\ left \subseteq DOMAIN seen \ replayed
      OBVIOUS
  <2>2. \A j \in left : j = Least(TwinsIn(new, j))
      BY <1>4, <1>10
  <2>3. ASSUME NEW j \in replayed
        PROVE  /\ got[j].under = got[j].version /\ got[j].version = s.version
               /\ ~got[j].misplaced => got[j].of = seen[j]
               /\ Redo(s) => got[j].redone
    <3>1. PICK m \in Jobs :
               /\ Scored(m) /\ job[m].score \in Judged /\ job[m].score.version = s.version
               /\ seen[j] = job[m].text
               /\ got[j] = [job[m].score EXCEPT !.version = s.version, !.redone = @ \/ Redoes(p)]
        BY <1>6
    <3>2. /\ job[m].score.under = s.version
          /\ ~job[m].score.misplaced => job[m].score.of = job[m].text
        BY <1>1, <3>1 DEF ScoreIsTrue
    <3> HIDE DEF got, seen, s
    <3>3. /\ got[j].under = job[m].score.under /\ got[j].of = job[m].score.of
          /\ got[j].misplaced = job[m].score.misplaced /\ got[j].version = s.version
          /\ got[j].redone = (job[m].score.redone \/ Redoes(p))
        BY <3>1 DEF Judged
    <3>4. Redoes(p) <=> Redo(s)
        BY OfThePass DEF s
    <3>5. QED
        BY <3>1, <3>2, <3>3, <3>4
  <2>4. ASSUME NEW j \in replayed, NEW k \in TwinsIn(new, j) PROVE k \in replayed /\ got[k] = got[j]
    <3>1. k \in TwinsIn(s, j) /\ k \in DOMAIN seen
        BY <1>2, <1>10, <2>4, TwinsAlike
    <3>2. Priors(p, k) = Priors(p, j)
        BY <3>1, PriorsAlike
    <3>3. QED
        BY <3>1, <3>2
  <2> HIDE DEF replayed, got, left
  <2>5. new.got = got /\ DOMAIN new.got = replayed /\ new.left = left /\ new.seen = seen
        /\ new.version = s.version /\ new.kind = s.kind
      BY <1>7
  <2>6. Redo(new) = Redo(s)
      BY <2>5 DEF Redo
  <2> HIDE DEF new, seen, s
  <2>7. QED
      BY <2>1, <2>2, <2>3, <2>4, <2>5, <2>6 DEF GotOK
<1>12. StoredOK(new, job)
  <2>1. ASSUME ~Redo(new), NEW j \in DOMAIN seen, NEW k \in Jobs, Counts(job[k].score),
               job[k].score.version = s.version, SameKey(j, seen[j], k, job[k].text)
        PROVE  j \in replayed /\ (Counts(got[j]) => got[j].value = job[k].score.value)
    <3>1. k \in Priors(p, j)
      <4>1. s.kind \notin {"all", "kept"}
          BY <2>1 DEF Redo
      <4>2. QED
          BY <2>1, <4>1 DEF Priors, Scored, Counts
    <3>2. j \in replayed
        BY <3>1
    <3>3. PICK m \in Jobs :
               /\ Scored(m) /\ job[m].score \in Judged /\ job[m].score.version = s.version
               /\ SameKey(j, seen[j], m, job[m].text) /\ seen[j] = job[m].text
               /\ got[j] = [job[m].score EXCEPT !.version = s.version, !.redone = @ \/ Redoes(p)]
        BY <1>6, <3>2
    <3> HIDE DEF got, seen, s, new, replayed
    <3>4. /\ got[j].value = job[m].score.value /\ got[j].misplaced = job[m].score.misplaced
          /\ got[j].redone = (job[m].score.redone \/ Redoes(p))
        BY <3>3 DEF Judged
    <3>5. ASSUME Counts(got[j]) PROVE Twinned(m, k)
      <4>1. ~job[m].score.redone /\ ~job[m].score.misplaced
          BY <3>4, <3>5 DEF Counts
      <4>2. SameKey(m, job[m].text, k, job[k].text)
          BY <2>1, <3>3 DEF SameKey
      <4>3. QED
          BY <2>1, <3>3, <4>1, <4>2 DEF Twinned, Counts, Scored
    <3>6. QED
        BY <1>1, <3>2, <3>4, <3>5 DEF TwinsAgree
  <2>2. DOMAIN got = replayed
      OBVIOUS
  <2> HIDE DEF replayed, got, left
  <2>3. new.got = got /\ new.seen = seen /\ new.version = s.version
      OBVIOUS
  <2> HIDE DEF new, seen, s
  <2>4. QED
      BY <2>1, <2>2, <2>3 DEF StoredOK
<1> HIDE DEF new
<1>13. scorer'[p] = new /\ \A q \in Scorers \ {p} : scorer'[q] = scorer[q]
    BY <1>1, <1>3, PassPut
<1>14. p \in Clickers => Redo(new)
  <2>1. p \in Clickers => Redo(s)
    <3>1. s.at = "planning"
        BY DEF Plan
    <3>2. s # NoPass
        BY <3>1 DEF NoPass
    <3>3. QED
        BY <3>2 DEF MatchInv, PassesOK
  <2>2. QED
      BY <2>1 DEF Redo, new
<1>15. QED
    BY <1>3, <1>9, <1>11, <1>12, <1>13, <1>14, TableStays

\* The fallback never tries more than its budget.
LEMMA RetriedAreFew ==
  ASSUME NEW p, scorer[p].budget \in Nat, NEW batch, batch \subseteq Jobs, NEW parsed
  PROVE  /\ Retried(p, batch, parsed) \subseteq batch
         /\ Cardinality(Retried(p, batch, parsed)) \in 0..scorer[p].budget
<1> DEFINE rest == batch \ parsed
<1>1. rest \subseteq Nat /\ IsFiniteSet(rest)
  <2>1. rest \in SUBSET Jobs
      OBVIOUS
  <2>2. QED
      BY <2>1, MatchingAssumption, FS_Subset
<1> HIDE DEF rest
<1>2. /\ FirstOf(scorer[p].budget, rest) \subseteq rest
      /\ Cardinality(FirstOf(scorer[p].budget, rest)) \in 0..scorer[p].budget
    BY <1>1, FirstAreFew
<1>3. Cardinality({}) = 0
    BY FS_EmptySet
<1>4. CASE Cardinality(batch) = 1
  <2>1. Retried(p, batch, parsed) = {}
      BY <1>4 DEF Retried
  <2>2. QED
      BY <2>1, <1>3
<1>5. CASE Cardinality(batch) # 1
  <2>1. Retried(p, batch, parsed) = FirstOf(scorer[p].budget, rest)
      BY <1>5 DEF Retried, rest
  <2>2. rest \subseteq batch
      BY DEF rest
  <2>3. QED
      BY <2>1, <2>2, <1>2
<1>6. QED
    BY <1>4, <1>5

LEMMA Answering ==
  ASSUME NEW S, NEW s \in ScoringPass(S), NEW g, NEW l, NEW b
  PROVE  [s EXCEPT !.got = g, !.left = l, !.budget = b]
           = [at |-> "scoring", kind |-> s.kind, whole |-> s.whole, version |-> s.version,
              seen |-> s.seen, got |-> g, left |-> l, budget |-> b]
<1> DEFINE r == [s EXCEPT !.got = g, !.left = l, !.budget = b]
<1>1. /\ r \in [at : {"scoring"}, kind : {s.kind}, whole : {s.whole}, version : {s.version},
                seen : {s.seen}, got : {g}, left : {l}, budget : {b}]
    BY DEF ScoringPass
<1> HIDE DEF r
<1>2. r = [at |-> r.at, kind |-> r.kind, whole |-> r.whole, version |-> r.version,
           seen |-> r.seen, got |-> r.got, left |-> r.left, budget |-> r.budget]
    BY <1>1
<1>3. QED
    BY <1>1, <1>2 DEF r

LEMMA AsksKeeps ==
  ASSUME MatchInv, NEW p \in Scorers, Asks(p)
  PROVE  MatchInv'
<1> DEFINE s == scorer[p]
           batch == FirstOf(BatchSize, s.left)
<1>1. MatchTypeOK /\ s.at = "scoring" /\ IsScoring(s) /\ GotOK(s) /\ StoredOK(s, job)
    BY OfScorer DEF MatchInv, PassesOK, Asks
<1>2. /\ s.kind \in PassKinds /\ s.whole \in BOOLEAN /\ s.version \in 0..MaxActs
      /\ s.seen \in TextsOf /\ DOMAIN s.seen \subseteq Jobs /\ s.seen \in [DOMAIN s.seen -> Texts]
      /\ s.got \in [DOMAIN s.got -> Judged] /\ DOMAIN s.got \subseteq Jobs
      /\ s.left \subseteq Jobs /\ s.budget \in 0..FallbackJobBudget
    BY <1>1, OfScoring
<1>3. batch \subseteq s.left
    BY DEF FirstOf
<1>4. PICK parsed \in Answered(p, batch) :
           LET tries == Retried(p, batch, parsed)
           IN  \E recovered \in Recovered(p, tries) :
                 \E value \in [parsed \cup recovered -> Answers] :
                   scorer' = [scorer EXCEPT
                     ![p].got = [j \in DOMAIN @ \cup DOMAIN value |->
                                   IF j \in DOMAIN value THEN NewScore(p, j, value[j]) ELSE @[j]],
                     ![p].left = @ \ batch,
                     ![p].budget = IF tries # {} /\ recovered = {} THEN 0
                                   ELSE @ - Cardinality(tries)]
    BY DEF Asks
<1> DEFINE tries == Retried(p, batch, parsed)
<1>4a. PICK recovered \in Recovered(p, tries) :
             \E value \in [parsed \cup recovered -> Answers] :
                   scorer' = [scorer EXCEPT
                     ![p].got = [j \in DOMAIN @ \cup DOMAIN value |->
                                   IF j \in DOMAIN value THEN NewScore(p, j, value[j]) ELSE @[j]],
                     ![p].left = @ \ batch,
                     ![p].budget = IF tries # {} /\ recovered = {} THEN 0
                                   ELSE @ - Cardinality(tries)]
    BY <1>4
<1>5. PICK value \in [parsed \cup recovered -> Answers] :
                   scorer' = [scorer EXCEPT
                     ![p].got = [j \in DOMAIN @ \cup DOMAIN value |->
                                   IF j \in DOMAIN value THEN NewScore(p, j, value[j]) ELSE @[j]],
                     ![p].left = @ \ batch,
                     ![p].budget = IF tries # {} /\ recovered = {} THEN 0
                                   ELSE @ - Cardinality(tries)]
    BY <1>4a
<1> DEFINE got == [j \in DOMAIN s.got \cup DOMAIN value |->
                     IF j \in DOMAIN value THEN NewScore(p, j, value[j]) ELSE s.got[j]]
           budget == IF tries # {} /\ recovered = {} THEN 0 ELSE s.budget - Cardinality(tries)
           new == [at |-> "scoring", kind |-> s.kind, whole |-> s.whole, version |-> s.version,
                   seen |-> s.seen, got |-> got, left |-> s.left \ batch, budget |-> budget]
<1>6. DOMAIN value \subseteq batch /\ \A j \in DOMAIN value : value[j] \in Values
  <2>1. parsed \subseteq batch
      BY <1>4 DEF Answered
  <2>2. tries \subseteq batch
      BY <1>2, <1>3, RetriedAreFew
  <2> HIDE DEF batch, tries
  <2>3. recovered \subseteq tries
      BY <1>4a DEF Recovered
  <2>4. QED
      BY <2>1, <2>2, <2>3, MatchingAssumption
<1>7. budget \in 0..FallbackJobBudget
  <2>1. s.budget \in Nat /\ s.budget <= FallbackJobBudget /\ FallbackJobBudget \in Nat
      BY <1>2, MatchingAssumption
  <2>2. Cardinality(tries) \in 0..s.budget
      BY <1>2, <1>3, <2>1, RetriedAreFew
  <2> HIDE DEF tries, s
  <2>3. QED
      BY <2>1, <2>2
<1> HIDE DEF batch, tries
<1>8. \A j \in DOMAIN value :
        /\ NewScore(p, j, value[j]) \in Judged
        /\ NewScore(p, j, value[j]).under = s.version
        /\ NewScore(p, j, value[j]).version = s.version
        /\ NewScore(p, j, value[j]).of = s.seen[j]
        /\ NewScore(p, j, value[j]).redone <=> Redo(s)
  <2>1. \A j \in DOMAIN value : j \in DOMAIN s.seen /\ s.seen[j] \in Texts
      BY <1>1, <1>2, <1>3, <1>6 DEF GotOK
  <2>2. Redoes(p) \in BOOLEAN /\ (Redoes(p) <=> Redo(s))
      BY OfThePass DEF Redoes
  <2>3. QED
      BY <2>1, <2>2, <1>2, <1>6 DEF NewScore, Judged
<1>9. got \in [DOMAIN s.got \cup DOMAIN value -> Judged]
    BY <1>2, <1>8
<1>10. IsPass(new)
  <2>1. DOMAIN s.got \cup DOMAIN value \in SUBSET Jobs /\ s.left \ batch \in SUBSET Jobs
      BY <1>2, <1>3, <1>6
  <2> HIDE DEF got, budget
  <2>2. new \in ScoringPass(DOMAIN s.got \cup DOMAIN value)
      BY <1>2, <1>7, <1>9, <2>1 DEF ScoringPass
  <2>3. QED
      BY <2>1, <2>2 DEF IsPass
<1>11. scorer' = [scorer EXCEPT ![p] = new]
  <2>1. PICK S \in SUBSET Jobs : s \in ScoringPass(S)
      BY <1>1 DEF IsScoring
  <2>3. scorer' = [scorer EXCEPT ![p] = [s EXCEPT !.got = got, !.left = s.left \ batch, !.budget = budget]]
      BY <1>5 DEF MatchTypeOK
  <2>2. [s EXCEPT !.got = got, !.left = s.left \ batch, !.budget = budget] = new
      BY <2>1, Answering
  <2>4. QED
      BY <2>2, <2>3
<1>12. UNCHANGED <<job, dream, inputs, acts>>
    BY DEF Asks
<1>13. MatchTypeOK'
  <2>1. job' \in [Jobs -> Row]
      BY <1>1, <1>12 DEF MatchTypeOK
  <2> HIDE DEF new
  <2>2. QED
      BY <1>1, <1>10, <1>11, <1>12, <2>1, PassTyped
<1>14. GotOK(new)
  <2>1. \A j : TwinsIn(new, j) = TwinsIn(s, j)
      BY DEF TwinsIn
  <2>2. DOMAIN got = DOMAIN s.got \cup DOMAIN value
      OBVIOUS
  <2>3. /\ DOMAIN got \subseteq DOMAIN s.seen
        /\ s.left \ batch \subseteq DOMAIN s.seen \ DOMAIN got
    <3>1. ASSUME NEW j \in s.left \ batch PROVE j \notin DOMAIN got
        BY <1>1, <1>6, <2>2 DEF GotOK
    <3>2. QED
        BY <1>1, <1>3, <1>6, <2>2, <3>1 DEF GotOK
  <2>4. \A j \in s.left \ batch : j = Least(TwinsIn(new, j))
      BY <1>1, <2>1 DEF GotOK
  <2>5. ASSUME NEW j \in DOMAIN got
        PROVE  /\ got[j].under = got[j].version /\ got[j].version = s.version
               /\ ~got[j].misplaced => got[j].of = s.seen[j]
               /\ Redo(s) => got[j].redone
               /\ \/ j = Least(TwinsIn(new, j))
                  \/ \A k \in TwinsIn(new, j) : k \in DOMAIN got /\ got[k] = got[j]
    <3>1. CASE j \in DOMAIN value
      <4>1. got[j] = NewScore(p, j, value[j])
          BY <3>1
      <4>2. j = Least(TwinsIn(s, j))
          BY <3>1, <1>1, <1>3, <1>6 DEF GotOK
      <4> HIDE DEF got
      <4>3. QED
          BY <3>1, <4>1, <4>2, <1>8, <2>1
    <3>2. CASE j \notin DOMAIN value
      <4>1. j \in DOMAIN s.got /\ got[j] = s.got[j]
          BY <3>2, <2>2
      <4>2. ASSUME NEW k \in DOMAIN s.got PROVE k \in DOMAIN got /\ got[k] = s.got[k]
        <5>1. k \notin DOMAIN value
            BY <1>1, <1>3, <1>6 DEF GotOK
        <5>2. QED
            BY <5>1, <2>2
      <4> HIDE DEF got
      <4>3. QED
          BY <4>1, <4>2, <1>1, <2>1 DEF GotOK
    <3>3. QED
        BY <3>1, <3>2
  <2> HIDE DEF got, budget
  <2>6. new.got = got /\ new.left = s.left \ batch /\ new.seen = s.seen
        /\ new.version = s.version /\ new.kind = s.kind
      OBVIOUS
  <2>7. Redo(new) = Redo(s)
      BY <2>6 DEF Redo
  <2> HIDE DEF new, s
  <2>8. QED
      BY <2>3, <2>4, <2>5, <2>6, <2>7 DEF GotOK
<1>15. StoredOK(new, job)
  <2>1. ASSUME NEW j \in DOMAIN s.got PROVE j \in DOMAIN got /\ got[j] = s.got[j]
    <3>1. j \notin DOMAIN value
        BY <1>1, <1>3, <1>6 DEF GotOK
    <3>2. QED
        BY <3>1
  <2> HIDE DEF got, budget
  <2>2. new.got = got /\ new.seen = s.seen /\ new.version = s.version /\ new.kind = s.kind
      OBVIOUS
  <2>3. Redo(new) = Redo(s)
      BY <2>2 DEF Redo
  <2> HIDE DEF new, s
  <2>4. QED
      BY <2>1, <2>2, <2>3, <1>1 DEF StoredOK
<1>16. p \in Clickers => Redo(new)
  <2>1. s # NoPass
      BY <1>1 DEF NoPass
  <2>2. p \in Clickers => Redo(s)
      BY <2>1 DEF MatchInv, PassesOK
  <2>3. QED
      BY <2>2 DEF Redo
<1> HIDE DEF new
<1>17. scorer'[p] = new /\ \A q \in Scorers \ {p} : scorer'[q] = scorer[q]
    BY <1>1, <1>11, PassPut
<1>18. QED
    BY <1>12, <1>13, <1>14, <1>15, <1>16, <1>17, TableStays

LEMMA CutOffKeeps ==
  ASSUME MatchInv, NEW p \in Scorers, CutOff(p)
  PROVE  MatchInv'
<1> DEFINE s == scorer[p]
           new == [s EXCEPT !.left = {}]
<1>1. MatchTypeOK /\ s.at = "scoring" /\ IsScoring(s) /\ GotOK(s) /\ StoredOK(s, job)
    BY OfScorer DEF MatchInv, PassesOK, CutOff
<1>2. scorer' = [scorer EXCEPT ![p] = new] /\ UNCHANGED <<job, dream, inputs, acts>>
    BY DEF CutOff
<1>3. PICK S \in SUBSET Jobs : s \in ScoringPass(S)
    BY <1>1 DEF IsScoring
<1>4. /\ new \in ScoringPass(S) /\ new.got = s.got /\ new.left = {} /\ new.seen = s.seen
      /\ new.version = s.version /\ new.kind = s.kind
    BY <1>3 DEF ScoringPass
<1> HIDE DEF new
<1>5. MatchTypeOK'
  <2>1. IsPass(new)
      BY <1>4 DEF IsPass
  <2>2. job' \in [Jobs -> Row]
      BY <1>1, <1>2 DEF MatchTypeOK
  <2>3. QED
      BY <1>1, <1>2, <2>1, <2>2, PassTyped
<1>6. Redo(new) = Redo(s) /\ \A j : TwinsIn(new, j) = TwinsIn(s, j)
    BY <1>4 DEF Redo, TwinsIn
<1>7. GotOK(new) /\ StoredOK(new, job)
  <2> HIDE DEF s
  <2>1. GotOK(new)
      BY <1>1, <1>4, <1>6 DEF GotOK
  <2>2. StoredOK(new, job)
      BY <1>1, <1>4, <1>6 DEF StoredOK
  <2>3. QED
      BY <2>1, <2>2
<1>8. p \in Clickers => Redo(new)
  <2>1. s # NoPass
      BY <1>1 DEF NoPass
  <2>2. QED
      BY <2>1, <1>6 DEF MatchInv, PassesOK
<1>9. scorer'[p] = new /\ \A q \in Scorers \ {p} : scorer'[q] = scorer[q]
    BY <1>1, <1>2, PassPut
<1>10. QED
    BY <1>2, <1>5, <1>7, <1>8, <1>9, TableStays

\* A pass that is over has nothing left to be right about.
LEMMA EndIs ==
  ASSUME MatchTypeOK, NEW p \in Scorers, scorer' = [scorer EXCEPT ![p] = NoPass]
  PROVE  /\ IsPass(NoPass) /\ scorer'[p] = NoPass /\ scorer'[p].at # "scoring"
         /\ \A q \in Scorers \ {p} : scorer'[q] = scorer[q]
<1>1. IsPass(NoPass) /\ NoPass.at # "scoring"
    BY DEF IsPass, NoPass
<1>2. QED
    BY <1>1, PassPut

LEMMA FailsKeeps ==
  ASSUME MatchInv, NEW p \in Scorers, Fails(p)
  PROVE  MatchInv'
<1>1. MatchTypeOK /\ scorer' = [scorer EXCEPT ![p] = NoPass] /\ UNCHANGED <<job, dream, inputs, acts>>
    BY DEF MatchInv, Fails
<1>2. job' \in [Jobs -> Row]
    BY <1>1 DEF MatchTypeOK
<1>3. MatchTypeOK'
    BY <1>1, <1>2, EndIs, PassTyped
<1>4. QED
    BY <1>1, <1>3, EndIs, TableStays

-----------------------------------------------------------------------------
(* What a pass writes *)

\* The rows after a pass' end; each is as it was, or has a true score of the pass.
LEMMA WriteIs ==
  ASSUME MatchInv, NEW p \in Scorers, Write(p)
  PROVE  /\ MatchTypeOK' /\ AbsentIsBlank' /\ ScoreIsTrue'
         /\ scorer[p].at = "scoring" /\ GotOK(scorer[p]) /\ StoredOK(scorer[p], job)
         /\ \A j \in Jobs :
              \/ job'[j] = job[j]
              \/ /\ j \in DOMAIN Results(p) /\ job'[j].score = Results(p)[j]
                 /\ job'[j].text = scorer[p].seen[j] /\ job[j].text = scorer[p].seen[j]
<1> DEFINE s == scorer[p]
           R == Results(p)
<1>1. MatchTypeOK /\ s.at = "scoring" /\ GotOK(s) /\ StoredOK(s, job)
    BY DEF MatchInv, PassesOK, Write
<1>2. /\ DOMAIN R \subseteq DOMAIN s.seen
      /\ \A j \in DOMAIN R : /\ R[j] \in Judged /\ R[j].under = R[j].version
                             /\ ~R[j].misplaced => R[j].of = s.seen[j]
    BY <1>1, ResultsAre
<1>3. \A j \in Jobs : job'[j] = IF j \in DOMAIN R /\ Lands(p, j)
                                THEN [job[j] EXCEPT !.score = R[j], !.review = Disposition(j, R[j].value)]
                                ELSE job[j]
    BY DEF Write
<1>4. \A j \in Jobs : job[j] \in Row
    BY <1>1 DEF MatchTypeOK
<1> HIDE DEF R
<1>5. ASSUME NEW j \in Jobs, j \in DOMAIN R, Lands(p, j)
      PROVE  /\ job'[j] \in Row /\ job'[j].review # "absent" /\ job'[j].score = R[j]
             /\ job'[j].text = job[j].text /\ job[j].text = s.seen[j]
  <2>1. job'[j] = [job[j] EXCEPT !.score = R[j], !.review = Disposition(j, R[j].value)]
      BY <1>3, <1>5
  <2>2. R[j].value \in Values /\ R[j] \in Scores
      BY <1>2, <1>5 DEF Judged, Scores
  <2>3. Disposition(j, R[j].value) \in MachineStates
      BY <2>2 DEF Disposition, Band, MachineStates, Values
  <2>4. job[j].text = s.seen[j] /\ job[j] \in Row
      BY <1>4, <1>5 DEF Lands
  <2>5. QED
      BY <2>1, <2>2, <2>3, <2>4 DEF Row, MachineStates
<1>6. \A j \in Jobs : (j \in DOMAIN R /\ Lands(p, j)) \/ job'[j] = job[j]
    BY <1>3
<1>7. MatchTypeOK'
  <2>1. job' \in [Jobs -> Row]
    <3>1. \A j \in Jobs : job'[j] \in Row
        BY <1>4, <1>5, <1>6
    <3>2. job' = [j \in Jobs |-> job'[j]]
        BY DEF Write
    <3>3. QED
        BY <3>1, <3>2
  <2>2. scorer' = [scorer EXCEPT ![p] = NoPass] /\ UNCHANGED <<dream, inputs, acts>>
      BY DEF Write
  <2>3. QED
      BY <1>1, <2>1, <2>2, EndIs, PassTyped
<1>8. AbsentIsBlank'
    BY <1>5, <1>6 DEF MatchInv, AbsentIsBlank
<1>9. ScoreIsTrue'
  <2>1. ASSUME NEW j \in Jobs, Scored(j)'
        PROVE  /\ job'[j].score.under = job'[j].score.version
               /\ ~job'[j].score.misplaced => job'[j].score.of = job'[j].text
    <3>1. CASE job'[j] = job[j]
        BY <2>1, <3>1 DEF MatchInv, ScoreIsTrue, Scored
    <3>2. CASE j \in DOMAIN R /\ Lands(p, j)
        BY <3>2, <1>2, <1>5
    <3>3. QED
        BY <3>1, <3>2, <1>6
  <2>2. QED
      BY <2>1 DEF ScoreIsTrue
<1>10. QED
    BY <1>1, <1>5, <1>6, <1>7, <1>8, <1>9 DEF R

LEMMA WriteKeeps ==
  ASSUME MatchInv, NEW p \in Scorers, Write(p)
  PROVE  MatchInv'
<1> DEFINE s == scorer[p]
           R == Results(p)
<1>1. /\ MatchTypeOK' /\ AbsentIsBlank' /\ ScoreIsTrue'
      /\ s.at = "scoring" /\ GotOK(s) /\ StoredOK(s, job)
    BY WriteIs
<1>2. ASSUME NEW j \in Jobs, job'[j] # job[j]
      PROVE  /\ j \in DOMAIN R /\ job'[j].score = R[j]
             /\ job'[j].text = s.seen[j] /\ job[j].text = s.seen[j]
    BY <1>2, WriteIs
<1>3. MatchTypeOK /\ scorer' = [scorer EXCEPT ![p] = NoPass]
    BY DEF MatchInv, Write
<1>4. /\ scorer'[p] = NoPass /\ scorer'[p].at # "scoring"
      /\ \A q \in Scorers \ {p} : scorer'[q] = scorer[q]
    BY <1>3, EndIs
<1>5. /\ DOMAIN R \subseteq DOMAIN s.seen
      /\ \A j \in DOMAIN R :
           /\ R[j].version = s.version
           /\ Redo(s) => R[j].redone
           /\ \A k \in DOMAIN R \cap TwinsIn(s, j) : R[k] = R[j]
      /\ \A j \in DOMAIN s.got : j \in DOMAIN R /\ R[j] = s.got[j]
    BY <1>1, <1>3, ResultsAre
<1> HIDE DEF R, s
<1>6. CASE Redo(s)
  <2>1. NoneCounted
      BY <1>2, <1>5, <1>6 DEF NoneCounted, Counts
  <2>2. QED
      BY <1>1, <1>4, <2>1, OneMoves
<1>7. CASE ~Redo(s)
  <2>1. p = "locked"
    <3>1. s # NoPass
        BY <1>1 DEF NoPass
    <3>2. QED
        BY <1>7, <3>1 DEF MatchInv, PassesOK, Scorers, s
  <2>2. PassesOK'
    <3>1. ASSUME NEW c \in Clickers
          PROVE  /\ scorer'[c] = scorer[c] /\ c \in Scorers
                 /\ scorer[c] # NoPass => Redo(scorer[c])
        BY <1>4, <2>1, MatchingAssumption DEF Scorers, MatchInv, PassesOK
    <3>2. ASSUME NEW c \in Clickers, scorer[c].at = "scoring"
          PROVE  GotOK(scorer[c]) /\ StoredOK(scorer[c], job')
        BY <3>1, <3>2 DEF MatchInv, PassesOK, NoPass, StoredOK
    <3>3. \A q \in Scorers : q = "locked" \/ q \in Clickers
        BY DEF Scorers
    <3>4. QED
        BY <3>1, <3>2, <3>3, <1>4, <2>1 DEF PassesOK
  \* One that is written beside one that stays: the pass had replayed it.
  <2>3. ASSUME NEW j \in Jobs, NEW k \in Jobs, Twinned(j, k)', job'[j] # job[j], job'[k] = job[k]
        PROVE  job'[j].score.value = job'[k].score.value
    <3>1. j \in DOMAIN R /\ job'[j].score = R[j] /\ job'[j].text = s.seen[j]
        BY <1>2, <2>3
    <3>2. /\ Counts(R[j]) /\ Counts(job[k].score) /\ job[k].score.version = s.version
          /\ SameKey(j, s.seen[j], k, job[k].text)
        BY <2>3, <3>1, <1>5 DEF Twinned, Counts, Scored
    <3>3. j \in DOMAIN s.got /\ (Counts(s.got[j]) => s.got[j].value = job[k].score.value)
        BY <1>1, <1>5, <1>7, <3>1, <3>2 DEF StoredOK
    <3>4. QED
        BY <3>1, <3>2, <3>3, <1>5, <2>3
  \* Two that are written: one key has one result.
  <2>4. ASSUME NEW j \in Jobs, NEW k \in Jobs, Twinned(j, k)', job'[j] # job[j], job'[k] # job[k]
        PROVE  job'[j].score.value = job'[k].score.value
    <3>1. /\ j \in DOMAIN R /\ job'[j].score = R[j] /\ job'[j].text = s.seen[j]
          /\ k \in DOMAIN R /\ job'[k].score = R[k] /\ job'[k].text = s.seen[k]
        BY <1>2, <2>4
    <3>2. k \in TwinsIn(s, j)
        BY <2>4, <3>1, <1>5 DEF Twinned, TwinsIn
    <3>3. QED
        BY <3>1, <3>2, <1>5
  <2>5. ASSUME NEW j \in Jobs, NEW k \in Jobs, Twinned(j, k)', job'[j] = job[j], job'[k] = job[k]
        PROVE  job'[j].score.value = job'[k].score.value
    <3>1. Twinned(j, k)
        BY <2>5 DEF Twinned, Scored
    <3>2. QED
        BY <2>5, <3>1 DEF MatchInv, TwinsAgree
  <2>6. \A j, k \in Jobs : Twinned(j, k)' => Twinned(k, j)'
      BY DEF Twinned, SameKey
  <2>7. TwinsAgree'
      BY <2>3, <2>4, <2>5, <2>6 DEF TwinsAgree
  <2>8. QED
      BY <1>1, <2>2, <2>7 DEF MatchInv
<1>8. QED
    BY <1>6, <1>7

LEMMA WriteKeptKeeps ==
  ASSUME MatchInv, NEW p \in Scorers, WriteKept(p)
  PROVE  MatchInv'
<1> DEFINE s == scorer[p]
<1>1. MatchTypeOK /\ s.at = "scoring" /\ GotOK(s) /\ IsScoring(s) /\ s.kind = "kept"
    BY OfScorer DEF MatchInv, PassesOK, WriteKept
<1>2. s.got \in [DOMAIN s.got -> Judged] /\ Redo(s)
    BY <1>1, OfScoring DEF Redo
<1>3. \A j \in DOMAIN s.got : /\ s.got[j] \in Judged /\ s.got[j].under = s.got[j].version
                              /\ ~s.got[j].misplaced => s.got[j].of = s.seen[j]
                              /\ s.got[j].redone
  <2> HIDE DEF s
  <2>1. QED
      BY <1>1, <1>2 DEF GotOK
<1>4. \A j \in Jobs : job'[j] = IF /\ j \in DOMAIN s.got /\ job[j].review = "kept"
                                   /\ job[j].text = s.seen[j]
                                THEN [job[j] EXCEPT !.score = s.got[j]] ELSE job[j]
    BY DEF WriteKept
<1>5. \A j \in Jobs : job[j] \in Row
    BY <1>1 DEF MatchTypeOK
<1>6. scorer' = [scorer EXCEPT ![p] = NoPass] /\ UNCHANGED <<dream, inputs, acts>>
    BY DEF WriteKept
<1>7. job' = [j \in Jobs |-> job'[j]]
    BY DEF WriteKept
<1> HIDE DEF s
<1>8. ASSUME NEW j \in Jobs
      PROVE  /\ job'[j] \in Row
             /\ \/ job'[j] = job[j]
                \/ /\ j \in DOMAIN s.got /\ job'[j].score = s.got[j] /\ job'[j].review = "kept"
                   /\ job'[j].text = s.seen[j]
  <2>1. CASE j \in DOMAIN s.got /\ job[j].review = "kept" /\ job[j].text = s.seen[j]
    <3>1. job'[j] = [job[j] EXCEPT !.score = s.got[j]] /\ job[j] \in Row
        BY <2>1, <1>4, <1>5
    <3>2. s.got[j] \in Scores
        BY <2>1, <1>3 DEF Scores
    <3>3. QED
        BY <2>1, <3>1, <3>2 DEF Row
  <2>2. CASE ~(j \in DOMAIN s.got /\ job[j].review = "kept" /\ job[j].text = s.seen[j])
      BY <2>2, <1>4, <1>5
  <2>3. QED
      BY <2>1, <2>2
<1>9. MatchTypeOK'
  <2>1. job' \in [Jobs -> Row]
      BY <1>7, <1>8
  <2>2. QED
      BY <1>1, <1>6, <2>1, EndIs, PassTyped
<1>10. AbsentIsBlank' /\ ScoreIsTrue' /\ NoneCounted
  <2>1. AbsentIsBlank'
      BY <1>8 DEF MatchInv, AbsentIsBlank
  <2>2. ScoreIsTrue'
      BY <1>3, <1>8 DEF MatchInv, ScoreIsTrue, Scored
  <2>3. NoneCounted
      BY <1>3, <1>8 DEF NoneCounted, Counts
  <2>4. QED
      BY <2>1, <2>2, <2>3
<1>11. QED
    BY <1>1, <1>6, <1>9, <1>10, EndIs, OneMoves

-----------------------------------------------------------------------------
(* Discovery and the user *)

LEMMA ActTyped ==
  ASSUME MatchTypeOK, Act, job' \in [Jobs -> Row], dream' \subseteq Jobs, inputs' \in inputs..(inputs + 1)
  PROVE  MatchTypeOK'
<1>1. acts \in Nat /\ inputs \in Nat /\ inputs <= acts /\ acts < MaxActs /\ acts' = acts + 1
    BY MatchingAssumption DEF MatchTypeOK, Act
<1>2. MaxActs \in Nat
    BY MatchingAssumption
<1>3. acts' \in 0..MaxActs /\ inputs' \in 0..acts'
    BY <1>1, <1>2
<1>4. scorer' = scorer
    BY DEF Act
<1>5. QED
    BY <1>3, <1>4 DEF MatchTypeOK

LEMMA ArrivesKeeps ==
  ASSUME MatchInv, NEW j \in Jobs, NEW text \in Texts, Arrives(j, text)
  PROVE  MatchInv'
<1>1. /\ MatchTypeOK /\ job[j].review = "absent" /\ job[j].score = NoScore
      /\ job' = [job EXCEPT ![j].review = "new", ![j].text = text]
      /\ UNCHANGED <<dream, inputs, scorer, acts>>
    BY DEF MatchInv, AbsentIsBlank, Arrives
<1>2. job \in [Jobs -> Row] /\ job[j] \in Row
    BY <1>1 DEF MatchTypeOK
<1>3. job'[j] \in Row /\ job'[j].review = "new" /\ job'[j].score = NoScore
  <2>1. job'[j] = [job[j] EXCEPT !.review = "new", !.text = text]
      BY <1>1, <1>2
  <2>2. QED
      BY <1>1, <1>2, <2>1 DEF Row, MachineStates
<1>4. \A k \in Jobs \ {j} : job'[k] = job[k]
    BY <1>1, <1>2
<1>5. job' \in [Jobs -> Row]
  <2>1. DOMAIN job' = Jobs /\ \A k \in Jobs : job'[k] \in Row
      BY <1>1, <1>2, <1>3, <1>4
  <2>2. job' = [k \in Jobs |-> job'[k]]
      BY <1>1, <1>2
  <2>3. QED
      BY <2>1, <2>2
<1>6. MatchTypeOK'
    BY <1>1, <1>5 DEF MatchTypeOK
<1>7. AbsentIsBlank' /\ ScoreIsTrue' /\ NoneCounted
    BY <1>3, <1>4 DEF MatchInv, AbsentIsBlank, ScoreIsTrue, NoneCounted, Scored, Counts
<1>8. QED
    BY <1>1, <1>6, <1>7, PassesStay

LEMMA TextChangesKeeps ==
  ASSUME MatchInv, NEW j \in Jobs, NEW text \in Texts, TextChanges(j, text)
  PROVE  MatchInv'
<1> DEFINE score == IF job[j].score = NoScore \/ Undecided(j) THEN NoScore
                    ELSE [job[j].score EXCEPT !.misplaced = TRUE]
<1>1. /\ MatchTypeOK /\ job[j].review # "absent" /\ Act /\ UNCHANGED <<dream, inputs>>
      /\ job' = [job EXCEPT ![j].text = text,
                            ![j].score = IF @ = NoScore \/ Undecided(j) THEN NoScore
                                         ELSE [@ EXCEPT !.misplaced = TRUE]]
    BY DEF MatchInv, TextChanges
<1>2. job \in [Jobs -> Row] /\ job[j] \in Row
    BY <1>1 DEF MatchTypeOK
<1>3. score = NoScore \/ /\ score \in Judged /\ score.misplaced
                         /\ job[j].score # NoScore
                         /\ score.under = job[j].score.under /\ score.version = job[j].score.version
    BY <1>2, OfRow DEF Judged
<1>4. job'[j] = [job[j] EXCEPT !.text = text, !.score = score]
    BY <1>1, <1>2
<1> HIDE DEF score
<1>5. job'[j] \in Row /\ job'[j].review = job[j].review /\ job'[j].score = score
    BY <1>2, <1>3, <1>4 DEF Row, Scores
<1>6. \A k \in Jobs \ {j} : job'[k] = job[k]
    BY <1>1, <1>2
<1>7. job' \in [Jobs -> Row]
  <2>1. job' = [k \in Jobs |-> job'[k]]
      BY <1>1, <1>2
  <2>2. QED
      BY <1>2, <1>5, <1>6, <2>1
<1>8. MatchTypeOK'
  <2>1. inputs' \in inputs..(inputs + 1) /\ dream' \subseteq Jobs
      BY <1>1, MatchingAssumption DEF MatchTypeOK
  <2>2. QED
      BY <1>1, <1>7, <2>1, ActTyped
<1>9. AbsentIsBlank'
    BY <1>1, <1>5, <1>6 DEF MatchInv, AbsentIsBlank
<1>10. ScoreIsTrue'
  <2>1. job[j].score # NoScore => job[j].score.under = job[j].score.version
      BY DEF MatchInv, ScoreIsTrue, Scored
  <2>2. QED
      BY <1>3, <1>5, <1>6, <2>1 DEF MatchInv, ScoreIsTrue, Scored
<1>11. NoneCounted
    BY <1>3, <1>5, <1>6 DEF NoneCounted, Counts
<1>12. scorer' = scorer
    BY <1>1 DEF Act
<1>13. QED
    BY <1>8, <1>9, <1>10, <1>11, <1>12, PassesStay

LEMMA DecideKeeps ==
  ASSUME MatchInv, NEW j \in Jobs, NEW from, NEW to \in MachineStates \cup {"kept", "archived"},
         Decide(j, from, to)
  PROVE  MatchInv'
<1>1. /\ MatchTypeOK /\ Act /\ UNCHANGED <<dream, inputs>>
      /\ job' = [job EXCEPT ![j].review = to]
    BY DEF MatchInv, Decide
<1>2. job \in [Jobs -> Row] /\ job[j] \in Row
    BY <1>1 DEF MatchTypeOK
<1>3. /\ job'[j] \in Row /\ job'[j].score = job[j].score /\ job'[j].text = job[j].text
      /\ job'[j].review # "absent"
  <2>1. job'[j] = [job[j] EXCEPT !.review = to]
      BY <1>1, <1>2
  <2>2. QED
      BY <1>2, <2>1 DEF Row, MachineStates
<1>4. \A k \in Jobs \ {j} : job'[k] = job[k]
    BY <1>1, <1>2
<1>5. job' \in [Jobs -> Row]
  <2>1. job' = [k \in Jobs |-> job'[k]]
      BY <1>1, <1>2
  <2>2. QED
      BY <1>2, <1>3, <1>4, <2>1
<1>6. MatchTypeOK'
  <2>1. inputs' \in inputs..(inputs + 1) /\ dream' \subseteq Jobs
      BY <1>1, MatchingAssumption DEF MatchTypeOK
  <2>2. QED
      BY <1>1, <1>5, <2>1, ActTyped
<1>7. AbsentIsBlank' /\ ScoreIsTrue' /\ NoneCounted
    BY <1>3, <1>4, <1>6, ScoresStay
<1>8. scorer' = scorer
    BY <1>1 DEF Act
<1>9. QED
    BY <1>6, <1>7, <1>8, PassesStay

LEMMA UnkeepKeeps ==
  ASSUME MatchInv, NEW j \in Jobs, Unkeep(j)
  PROVE  MatchInv'
<1> DEFINE to == IF ~Scored(j) THEN "queued" ELSE Band(job[j].score.value)
<1>1. job[j] \in Row
    BY DEF MatchInv, MatchTypeOK
<1>2. Scored(j) => job[j].score.value \in Values
    BY <1>1, OfRow DEF Scored, Judged
<1>3. to \in MachineStates
    BY <1>2 DEF Band, Values, MachineStates
<1>4. Decide(j, {"kept"}, to)
    BY DEF Unkeep
<1> HIDE DEF to
<1>5. QED
    BY <1>3, <1>4, DecideKeeps

LEMMA MatchNextInv == MatchInv /\ [MatchNext]_matchVars => MatchInv'
<1> SUFFICES ASSUME MatchInv, [MatchNext]_matchVars PROVE MatchInv'
    OBVIOUS
<1>1. /\ acts \in 0..MaxActs /\ acts \in acts..MaxActs /\ acts + 1 \in Nat /\ inputs \in Nat
      /\ acts < MaxActs => acts + 1 \in acts..MaxActs
    BY MatchingAssumption DEF MatchInv, MatchTypeOK
<1>2. /\ "locked" \in Scorers /\ "locked" \notin Clickers /\ Clickers \subseteq Scorers
      /\ {"scoped", "adopted"} \subseteq PassKinds /\ \A kind \in Whole : kind \in PassKinds
    BY MatchingAssumption DEF Scorers, PassKinds
<1>3. ASSUME NEW kind \in Whole, NEW whole \in BOOLEAN, Locked(kind, whole) PROVE MatchInv'
  <2>1. acts' \in acts..MaxActs /\ Begin("locked", kind, Jobs, whole)
      BY <1>1, <1>3 DEF Locked
  <2>2. QED
      BY <1>2, <2>1, BeginKeeps
<1>4. CASE DailyWhole
    BY <1>3, <1>4 DEF DailyWhole, Whole
<1>5. ASSUME Click,
             \/ \E rows \in SUBSET Jobs : Begin("locked", "adopted", rows, FALSE)
             \/ \E c \in Clickers, rows \in SUBSET Jobs : Begin(c, "scoped", rows, FALSE)
             \/ \E c \in Clickers, j \in Jobs : BeginKept(c, j)
      PROVE  MatchInv'
  <2>1. acts' \in acts..MaxActs
      BY <1>1, <1>5 DEF Click
  <2>2. ASSUME NEW rows \in SUBSET Jobs, Begin("locked", "adopted", rows, FALSE) PROVE MatchInv'
      BY <1>2, <2>1, <2>2, BeginKeeps
  <2>3. ASSUME NEW c \in Clickers, NEW rows \in SUBSET Jobs, Begin(c, "scoped", rows, FALSE)
        PROVE  MatchInv'
      BY <1>2, <2>1, <2>3, BeginKeeps
  <2>4. ASSUME NEW c \in Clickers, NEW j \in Jobs, BeginKept(c, j) PROVE MatchInv'
      BY <2>1, <2>4, BeginKeptKeeps
  <2>5. QED
      BY <1>5, <2>2, <2>3, <2>4
<1>6. ASSUME NEW p \in Scorers, Step(p) PROVE MatchInv'
    BY <1>6, FailsKeeps, WriteKeeps, WriteKeptKeeps, PlanKeeps, CutOffKeeps, AsksKeeps DEF Step
<1>7. ASSUME NEW j \in Jobs, NEW text \in Texts, Arrives(j, text) \/ TextChanges(j, text) PROVE MatchInv'
    BY <1>7, ArrivesKeeps, TextChangesKeeps
<1>8. ASSUME NEW j \in Jobs, Keep(j) \/ Archive(j) \/ Unarchive(j) PROVE MatchInv'
  <2>1. "surfaced" \in MachineStates
      BY DEF MachineStates
  <2>2. QED
      BY <1>8, <2>1, DecideKeeps DEF Keep, Archive, Unarchive
<1>9. ASSUME NEW j \in Jobs, Unkeep(j) PROVE MatchInv'
    BY <1>9, UnkeepKeeps
\* New inputs, or another dream list: no row changes.
<1>10. ASSUME job' = job, Act, dream' \subseteq Jobs, inputs' \in inputs..(inputs + 1) PROVE MatchInv'
  <2>1. MatchTypeOK'
      BY <1>10, ActTyped DEF MatchInv, MatchTypeOK
  <2>2. AbsentIsBlank' /\ ScoreIsTrue' /\ NoneCounted
      BY <1>10, <2>1, ScoresStay
  <2>3. scorer' = scorer
      BY <1>10 DEF Act
  <2>4. QED
      BY <2>1, <2>2, <2>3, PassesStay
<1>11. CASE EditsInputs
  <2>1. job' = job /\ Act /\ dream' \subseteq Jobs /\ inputs' \in inputs..(inputs + 1)
      BY <1>1, <1>11 DEF EditsInputs, MatchInv, MatchTypeOK
  <2>2. QED
      BY <1>10, <2>1
<1>12. ASSUME NEW j \in Far, EditsDream(j) PROVE MatchInv'
  <2>1. j \in Jobs /\ dream \subseteq Jobs
      BY MatchingAssumption DEF MatchInv, MatchTypeOK
  <2>2. job' = job /\ Act /\ dream' \subseteq Jobs /\ inputs' \in inputs..(inputs + 1)
      BY <1>1, <1>12, <2>1 DEF EditsDream
  <2>3. QED
      BY <1>10, <2>2
<1>13. CASE UNCHANGED matchVars
  <2>1. job' = job /\ scorer' = scorer /\ MatchTypeOK'
      BY <1>13 DEF matchVars, MatchInv, MatchTypeOK
  <2>2. AbsentIsBlank' /\ ScoreIsTrue' /\ NoneCounted
      BY <2>1, ScoresStay
  <2>3. QED
      BY <2>1, <2>2, PassesStay
<1>14. ASSUME NEW rows \in Named, NEW c \in Clickers, Clicked(c, rows) PROVE MatchInv'
  <2>1. rows \in SUBSET Jobs
      BY MatchingAssumption
  <2>2. QED
      BY <1>2, <1>5, <1>14, <2>1 DEF Clicked
<1>15. ASSUME NEW rows \in Named, Rescored(rows) PROVE MatchInv'
  <2>1. rows \in SUBSET Jobs
      BY MatchingAssumption
  <2>2. QED
      BY <1>2, <1>5, <1>15, <2>1 DEF Rescored
<1>16. ASSUME NEW c \in Clickers, NEW j \in Jobs, ClickedKept(c, j) PROVE MatchInv'
    BY <1>5, <1>16 DEF ClickedKept
<1>17. QED
    BY <1>3, <1>4, <1>6, <1>7, <1>8, <1>9, <1>11, <1>12, <1>13, <1>14, <1>15, <1>16 DEF MatchNext

\* The declared types of the passes that score, and the invariant the two theorems rest on.
THEOREM MatchInvariant == MatchSpec => []MatchInv
<1>1. QED
    BY MatchInitInv, MatchNextInv, PTL DEF MatchSpec

\* A score is of the text beside it and of the inputs its stamp names (fingerprint.py), for
\* any postings and passes.
THEOREM ScoresAreTrue == MatchSpec => []ScoreIsTrue
<1>1. MatchInv => ScoreIsTrue
    BY DEF MatchInv
<1>2. QED
    BY <1>1, MatchInvariant, PTL

\* Two postings of one role and text hold one value (load_prior_scores, scorer.py:263),
\* whatever fails, arrives or is edited between the passes: unless a click or a Re-score
\* all gave one of the two (`redone`), or one is a score of another text, left on or copied
\* from a row that was decided when its text changed (`misplaced`).
THEOREM ARepostIsNotJudgedAgain == MatchSpec => []TwinsAgree
<1>1. MatchInv => TwinsAgree
    BY DEF MatchInv
<1>2. QED
    BY <1>1, MatchInvariant, PTL
=============================================================================
