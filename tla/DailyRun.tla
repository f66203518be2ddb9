------------------------------ MODULE DailyRun ------------------------------
(***************************************************************************)
(* The daily run and its digest (daily.py, daily_steps.py): one pass at a  *)
(* time holds the run lock, finds and scores roles, checks postings, scans *)
(* the mail and the targets, and sends one digest of what none has told    *)
(* yet.  What the digest showed is stamped only after the channel accepted *)
(* it, kind by kind, while the user goes on deciding in the cockpit.       *)
(* Clicked passes take the same lock.  What a step finds, and whether the  *)
(* deadline or the call budget stops the run, are choices.                 *)
(*                                                                         *)
(* Left out: the steps that tell nothing (backup, copies, filing, lookup), *)
(* and what a digest says without stamping it (follow-ups due, errors,     *)
(* notes, heartbeat), whose part is the choice to send it anyway.          *)
(***************************************************************************)
EXTENDS Naturals, FiniteSets

CONSTANTS
  Timer,      \* the runs of blastjob-daily that the timer starts
  ByHand,     \* those started by hand, which may be dry
  Cockpit,    \* the clicked passes, Find and score
  Items,      \* all that a digest can tell
  Kind,       \* the kind of each item
  Rank,       \* its place among those of its kind
  MaxShown,   \* how many of a kind a digest shows (MAX_DIGEST_JOBS and the like)
  Movable,    \* closed postings that automation moves: closure_auto, not applied to
  MaxDate,    \* bound: the dates of an ask or of a last touch
  MaxMoves,   \* bound: what the user moves or decides
  MaxFaults,  \* bound: deaths and failed sends
  MaxSkips,   \* bound: skipped runs on record
  Nobody

Daily == Timer \cup ByHand
Passes == Daily \cup Cockpit
Dated == {"ask", "touch"}       \* told again when the date moves
Recorded == {"reply", "closed"} \* recorded by their own step, before the digest
Kinds == {"role", "news", "mail"} \cup Dated \cup Recorded
Dates == 1 .. MaxDate
Of(kinds) == {i \in Items : Kind[i] \in kinds}

ASSUME DailyAssumption ==
  /\ Daily \cap Cockpit = {} /\ Nobody \notin Passes
  /\ Kind \in [Items -> Kinds] /\ Rank \in [Items -> Nat]
  /\ MaxShown \in Nat \ {0} /\ MaxDate \in Nat \ {0}
  /\ MaxMoves \in Nat /\ MaxFaults \in Nat /\ MaxSkips \in Nat

VARIABLES
  lock,    \* who holds run.lock
  pass,    \* what each pass has in hand
  row,     \* none, found (saved, not scored), open (waits to be told), off (decided)
  date,    \* the date to be told; 1 for what has no date
  stamp,   \* the date it is stamped with, 0 if it is not
  skips,   \* lock_held rows newer than the newest sent run
  moves, faults,
  told,    \* history: the dates that accepted digests told
  again,   \* history: items that may be told once more
  lost,    \* history: replies and closures recorded and then dropped
  untold   \* history: skipped runs that no accepted digest told

history == <<told, again, lost, untold>>
vars == <<lock, pass, row, date, stamp, skips, moves, faults, history>>

Idle == [at |-> "idle", dry |-> FALSE, cut |-> FALSE, fresh |-> {},
         shown |-> [i \in Items |-> 0], seen |-> 0, left |-> {}]

Init ==
  /\ lock = Nobody /\ pass = [p \in Passes |-> Idle]
  /\ row = [i \in Items |-> IF Kind[i] \in Dated THEN "open" ELSE "none"]
  /\ date = [i \in Items |-> 1] /\ stamp = [i \in Items |-> 0]
  /\ skips = 0 /\ moves = 0 /\ faults = 0
  /\ told = [i \in Items |-> {}] /\ again = {} /\ lost = {} /\ untold = 0

Goes(p, r) == pass' = [pass EXCEPT ![p] = r]
Opens(some) == row' = [i \in Items |-> IF i \in some THEN "open" ELSE row[i]]
Ends(p) == lock' = Nobody /\ Goes(p, Idle)

-----------------------------------------------------------------------------
(* The lock *)

Takes(p, dry) ==
  /\ lock = Nobody /\ pass[p].at = "idle"
  /\ lock' = p
  /\ Goes(p, [Idle EXCEPT !.at = "discovery", !.dry = dry])
  /\ UNCHANGED <<row, date, stamp, skips, moves, faults, history>>

\* A run that finds the lock held records that, and does nothing else.
RecordSkipped(p) ==
  /\ lock # Nobody /\ pass[p].at = "idle" /\ skips < MaxSkips
  /\ skips' = skips + 1 /\ untold' = untold + 1
  /\ UNCHANGED <<lock, pass, row, date, stamp, moves, faults, told, again, lost>>

-----------------------------------------------------------------------------
(* The steps.  A step that fails has saved some of what it found.            *)

\* A gated step may meet the limit in a call of its own; once a call was
\* refused, or time is up, no gated step starts.
Gated(p, next, Work) ==
  \/ /\ ~pass[p].cut /\ Work
     /\ \E cut \in BOOLEAN : Goes(p, [pass[p] EXCEPT !.at = next, !.cut = cut])
  \/ /\ Goes(p, [pass[p] EXCEPT !.at = next, !.cut = TRUE])
     /\ UNCHANGED row

Discovery(p) ==
  /\ pass[p].at = "discovery"
  /\ Gated(p, "scoring",
       \E new \in SUBSET {i \in Of({"role"}) : row[i] = "none"} :
         row' = [i \in Items |-> IF i \in new THEN "found" ELSE row[i]])
  /\ UNCHANGED <<lock, date, stamp, skips, moves, faults, history>>

Scoring(p) ==
  /\ pass[p].at = "scoring"
  /\ Gated(p, IF p \in Cockpit THEN "over" ELSE "closure",
       \E some \in SUBSET {i \in Items : row[i] = "found"} : Opens(some))
  /\ UNCHANGED <<lock, date, stamp, skips, moves, faults, history>>

\* A shadow pass saves the verdict too, so only a posting that a later pass
\* will move is announced by that pass.
Seen(p, new) == {i \in new : Kind[i] = "closed" /\ (pass[p].dry => i \notin Movable)}
Stamped(some) == stamp' = [i \in Items |-> IF i \in some THEN date[i] ELSE stamp[i]]

Closes(p, new) ==
  /\ Stamped(Seen(p, new))
  /\ \/ \E cut \in BOOLEAN :
          Goes(p, [pass[p] EXCEPT !.at = "replies", !.cut = cut, !.fresh = new])
        /\ UNCHANGED <<faults, lost>>
     \/ \* it fails after some verdicts: what it would have told is gone
        /\ faults < MaxFaults /\ faults' = faults + 1
        /\ Goes(p, [pass[p] EXCEPT !.at = "replies"])
        /\ lost' = lost \cup Seen(p, new)

Closure(p) ==
  /\ pass[p].at = "closure"
  /\ \/ /\ ~pass[p].cut
        /\ \E new \in SUBSET {i \in Of({"closed"}) : stamp[i] = 0} : Closes(p, new)
     \/ /\ Goes(p, [pass[p] EXCEPT !.at = "replies", !.cut = TRUE])
        /\ UNCHANGED <<stamp, faults, lost>>
  /\ UNCHANGED <<lock, row, date, skips, moves, told, again, untold>>

\* The mail is read after the cutoff too.  A dry run records no reply.
Replies(p) ==
  /\ pass[p].at = "replies"
  /\ \E new \in SUBSET {i \in Of({"reply"}) : stamp[i] = 0} :
       /\ Stamped(IF pass[p].dry THEN {} ELSE new)
       /\ Goes(p, [pass[p] EXCEPT !.at = "label", !.fresh = @ \cup new])
  /\ UNCHANGED <<lock, row, date, skips, moves, faults, history>>

Label(p) ==
  /\ pass[p].at = "label"
  /\ \E new \in SUBSET {i \in Of({"mail"}) : row[i] = "none"} :
       Opens(IF pass[p].dry THEN {} ELSE new)
  /\ Goes(p, [pass[p] EXCEPT !.at = "targets"])
  /\ UNCHANGED <<lock, date, stamp, skips, moves, faults, history>>

Targets(p) ==
  /\ pass[p].at = "targets"
  /\ Gated(p, "announce",
       \E new \in SUBSET {i \in Of({"news"}) : row[i] = "none"} :
         Opens(IF pass[p].dry THEN {} ELSE new))
  /\ UNCHANGED <<lock, date, stamp, skips, moves, faults, history>>

-----------------------------------------------------------------------------
(* The digest *)

Due(i) == Kind[i] \notin Recorded /\ row[i] = "open" /\ stamp[i] # date[i]

\* The messages of the recruiter label are counted, the rest has a window.
Rendered(i) ==
  /\ Due(i)
  /\ Kind[i] = "mail" \/ Cardinality({j \in Items : Due(j) /\ Kind[j] = Kind[i]
                                                   /\ Rank[j] < Rank[i]}) < MaxShown

Digest(p) == [i \in Items |-> IF Rendered(i) \/ i \in pass[p].fresh THEN date[i] ELSE 0]

\* A dry run prints it; a run with nothing to say is recorded and ends.
Silent(p) ==
  /\ pass[p].at = "announce"
  /\ pass[p].dry \/ (~pass[p].cut /\ \A i \in Items : Digest(p)[i] = 0)
  /\ Ends(p)
  /\ lost' = lost \cup {i \in pass[p].fresh \cap Of({"closed"}) : stamp[i] # 0}
  /\ UNCHANGED <<row, date, stamp, skips, moves, faults, told, again, untold>>

\* Mutant of RecordRun: the lock is held for the steps, not for the digest.
RecordRunUnlocked(p) ==
  /\ pass[p].at = "announce" /\ ~pass[p].dry
  /\ lock' = Nobody
  /\ Goes(p, [pass[p] EXCEPT !.at = "send", !.shown = Digest(p), !.seen = skips])
  /\ UNCHANGED <<row, date, stamp, skips, moves, faults, history>>

RecordRun(p) ==
  /\ pass[p].at = "announce" /\ ~pass[p].dry
  /\ Goes(p, [pass[p] EXCEPT !.at = "send", !.shown = Digest(p), !.seen = skips])
  /\ UNCHANGED <<lock, row, date, stamp, skips, moves, faults, history>>

StampOrder == [role |-> 1, news |-> 2, ask |-> 3, touch |-> 4, mail |-> 5]
Shown(p, kinds) == {i \in Of(kinds) : pass[p].shown[i] # 0}

Accepted(p) ==
  /\ pass[p].at = "send"
  /\ Goes(p, [pass[p] EXCEPT !.at = "stamp", !.left = {k \in DOMAIN StampOrder : Shown(p, {k}) # {}}])
  /\ told' = [i \in Items |-> told[i] \cup ({pass[p].shown[i]} \ {0})]
  /\ again' = {i \in again : pass[p].shown[i] # date[i]}
  /\ untold' = IF untold < skips - pass[p].seen THEN untold ELSE skips - pass[p].seen
  /\ UNCHANGED <<lock, row, date, stamp, skips, moves, faults, lost>>

\* Mutant of NewStamp: a touch is stamped with its date at the stamp, not the one told.
NewStampNow(p, i) ==
  CASE Kind[i] = "ask"   -> IF date[i] = pass[p].shown[i] THEN date[i] ELSE stamp[i]
    [] Kind[i] = "touch" -> date[i]
    [] OTHER             -> pass[p].shown[i]

\* An ask is stamped if its date is the one told, all others with what was told.
NewStamp(p, i) ==
  CASE Kind[i] = "ask" -> IF date[i] = pass[p].shown[i] THEN date[i] ELSE stamp[i]
    [] OTHER           -> pass[p].shown[i]

Stamps(p) ==
  /\ pass[p].at = "stamp"
  /\ \E k \in pass[p].left :
       /\ \A j \in pass[p].left : StampOrder[k] <= StampOrder[j]
       /\ stamp' = [i \in Items |-> IF i \in Shown(p, {k}) THEN NewStamp(p, i) ELSE stamp[i]]
       /\ Goes(p, [pass[p] EXCEPT !.left = @ \ {k}])
  /\ UNCHANGED <<lock, row, date, skips, moves, faults, history>>

\* The lock_held rows that are newer than the run's own.
SkipsAfter(p) == skips - pass[p].seen

MarkRunSent(p) ==
  /\ pass[p].at = "stamp" /\ pass[p].left = {}
  /\ skips' = SkipsAfter(p)
  /\ Ends(p)
  /\ UNCHANGED <<row, date, stamp, moves, faults, history>>

Over(p) ==
  /\ pass[p].at = "over"
  /\ Ends(p)
  /\ UNCHANGED <<row, date, stamp, skips, moves, faults, history>>

-----------------------------------------------------------------------------
(* Faults and the user *)

\* Mutant of LetsGo: the lock outlives its holder.
KeepsLock(p) == Goes(p, Idle) /\ UNCHANGED lock

\* The kernel drops the lock of a process that dies.
LetsGo(p) == Ends(p)

\* The pass dies, or its send fails after any part of the digest: what it has
\* not stamped is told again, the replies and closures in its hand are not.
Dies(p) ==
  /\ pass[p].at # "idle" /\ faults < MaxFaults
  /\ faults' = faults + 1
  /\ LetsGo(p)
  /\ IF pass[p].at = "stamp"
     THEN again' = again \cup Shown(p, pass[p].left)
          /\ UNCHANGED lost
     ELSE lost' = lost \cup {i \in pass[p].fresh : stamp[i] # 0} /\ UNCHANGED again
  /\ UNCHANGED <<row, date, stamp, skips, moves, told, untold>>

\* A role is kept or given back, an ask answered, a message triaged.
Decides(i) ==
  /\ moves < MaxMoves /\ moves' = moves + 1
  /\ \/ row[i] = "open" /\ Kind[i] \notin Recorded /\ row' = [row EXCEPT ![i] = "off"]
     \/ row[i] = "off" /\ Kind[i] \in Dated \cup {"role"} /\ row' = [row EXCEPT ![i] = "open"]
  /\ UNCHANGED <<lock, pass, date, stamp, skips, faults, history>>

\* A click that scores one job takes no lock: a pasted or manual one surfaces any time.
ScoresNamed(i) ==
  /\ Kind[i] = "role" /\ row[i] \in {"none", "found"} /\ moves < MaxMoves /\ moves' = moves + 1
  /\ row' = [row EXCEPT ![i] = "open"]
  /\ UNCHANGED <<lock, pass, date, stamp, skips, faults, history>>

\* The date of a follow-up is moved, or a touch is logged or deleted.
MovesDate(i, d) ==
  /\ Kind[i] \in Dated /\ d # date[i] /\ moves < MaxMoves /\ moves' = moves + 1
  /\ date' = [date EXCEPT ![i] = d]
  /\ again' = again \cup {i}
  /\ UNCHANGED <<lock, pass, row, stamp, skips, faults, told, lost, untold>>

-----------------------------------------------------------------------------
Advances(p) ==
  \/ Discovery(p) \/ Scoring(p) \/ Over(p)
  \/ Closure(p) \/ Replies(p) \/ Label(p) \/ Targets(p)
  \/ Silent(p) \/ RecordRun(p) \/ Accepted(p) \/ Stamps(p) \/ MarkRunSent(p)

Next ==
  \/ \E p \in Passes : Advances(p) \/ Dies(p)
  \/ \E p \in Passes : Takes(p, FALSE)
  \/ \E p \in ByHand : Takes(p, TRUE)
  \/ \E p \in Daily : RecordSkipped(p)
  \/ \E i \in Items : Decides(i) \/ ScoresNamed(i) \/ \E d \in Dates : MovesDate(i, d)

\* A pass goes on; the timer fires each day, and meets a free lock again and again.
Fairness ==
  /\ WF_vars(\E p \in Passes : Advances(p))
  /\ SF_vars(\E p \in Timer : Takes(p, FALSE))

Spec == Init /\ [][Next]_vars
FairSpec == Spec /\ Fairness

-----------------------------------------------------------------------------
(* Properties *)

\* The declared types; what a pass that does not run has in hand is nothing.
PassType == [at : {"idle", "discovery", "scoring", "over", "closure", "replies", "label",
                   "targets", "announce", "send", "stamp"},
             dry : BOOLEAN, cut : BOOLEAN, fresh : SUBSET Items,
             shown : [Items -> 0 .. MaxDate], seen : Nat, left : SUBSET Kinds]

TypeOK ==
  /\ lock \in Passes \cup {Nobody} /\ pass \in [Passes -> PassType]
  /\ row \in [Items -> {"none", "found", "open", "off"}]
  /\ date \in [Items -> Dates] /\ stamp \in [Items -> 0 .. MaxDate]
  /\ skips \in Nat /\ moves \in Nat /\ faults \in Nat /\ untold \in Nat
  /\ told \in [Items -> SUBSET Dates] /\ again \subseteq Items /\ lost \subseteq Items

\* No item is buried (daily.py:447): what is stamped was told by a digest the
\* channel accepted, with that date, although dates move while the digest is
\* sent.  A reply or a closed posting is recorded first; it was told, is in the
\* hand of the pass, or a fault or a shadow pass dropped it.
NothingBuried ==
  \A i \in Items : stamp[i] # 0 =>
    \/ stamp[i] \in told[i]
    \/ Kind[i] \in Recorded /\ (i \in lost \/ \E p \in Passes : i \in pass[p].fresh)

\* A digest tells nothing that an accepted one has told, unless its date moved
\* or the earlier pass died before it stamped it (daily.py:325, "the digest and
\* its stamps are never interleaved with a cockpit pass").
AnnouncedOnce ==
  [][\A p \in Daily : Accepted(p) =>
       \A i \in Items : pass[p].shown[i] \in told[i] => i \in again]_vars

\* No skipped run goes unmentioned: the rows that the next footer will count
\* include every one that no accepted digest has told (daily.py:349).
SkipsAreTold == untold <= skips

\* What is due is told, or decided, in the end, whatever does not fit today's
\* window, is cut off by the limit, fails or is skipped meanwhile (daily.py:445,
\* "leads the next run's digest instead of being silently buried forever").
DueIsTold == <>[](\A i \in Items : ~Due(i))
=============================================================================
