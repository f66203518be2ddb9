-------------------------- MODULE EmployerJdProofs --------------------------
(***************************************************************************)
(* Proofs about EmployerJd.  The invariant speaks of one row at a time,    *)
(* with its history and its rejected postings: each step writes at most    *)
(* one row, so it is enough that the row it leaves is good.  What a worker *)
(* has read needs no invariant but its type: the compare-and-sets, and     *)
(* `torn` where there is none, say all that is known when it writes.       *)
(***************************************************************************)
EXTENDS EmployerJd, TLAPS

RowOK(r, h, R) ==
  /\ r \in Row /\ h \in History /\ R \in SUBSET Links
  /\ r.src # "none" => ~r.pasted /\ r.prior \in Texts
  /\ r.src \notin R
  /\ ~h.torn =>
       /\ r.src # "none" => r.text \in Says[r.src] /\ r.prior = h.source
       /\ r.pasted => r.text = h.typed
       /\ r.src = "none" /\ ~r.pasted => r.text = h.source

RowsOK ==
  /\ row \in [Jobs -> Row] /\ history \in [Jobs -> History]
  /\ rejected \in [Jobs -> SUBSET Links]
  /\ \A j \in Jobs : RowOK(row[j], history[j], rejected[j])

Inv == RowsOK /\ work \in [Workers -> Work]

\* What a step owes to the score of a row that was r and is s.
ScoreStep(r, s, torn) ==
  r.review = s.review /\ ~torn =>
    /\ r.review = "undecided" /\ ScoreIsTrusted(r) => ScoreIsTrusted(s)
    /\ r.review = "kept" /\ r.score # "none" => s.score # "none"
    /\ r.review = "kept" /\ r.text # s.text /\ {r.src, s.src} # {"none"} /\ ~s.pasted => s.stale

Writes(j, s, h, R) ==
  /\ row' = [row EXCEPT ![j] = s]
  /\ history' = [history EXCEPT ![j] = h]
  /\ rejected' = [rejected EXCEPT ![j] = R]
  /\ RowOK(s, h, R)
  /\ ScoreStep(row[j], s, h.torn)

\* A step that leaves every row good and its score with its text.
Good == RowsOK' /\ \A j \in Jobs : ScoreStep(row[j], row'[j], history'[j].torn)

LEMMA WritesIsGood ==
  ASSUME RowsOK, NEW j \in Jobs, NEW s, NEW h, NEW R, Writes(j, s, h, R)
  PROVE  Good
<1>1. s \in Row /\ h \in History /\ R \in SUBSET Links BY DEF Writes, RowOK
<1>2. /\ row \in [Jobs -> Row] /\ history \in [Jobs -> History]
      /\ rejected \in [Jobs -> SUBSET Links]
      /\ \A k \in Jobs : RowOK(row[k], history[k], rejected[k])
  BY DEF RowsOK
<1>3. row'[j] = s /\ history'[j] = h /\ rejected'[j] = R BY <1>2 DEF Writes
<1>4. \A k \in Jobs \ {j} : row'[k] = row[k] /\ history'[k] = history[k] /\ rejected'[k] = rejected[k]
  BY <1>2 DEF Writes
<1>5. \A k \in Jobs : RowOK(row'[k], history'[k], rejected'[k])
  BY <1>2, <1>3, <1>4 DEF Writes
<1>6. /\ row' \in [Jobs -> Row] /\ history' \in [Jobs -> History]
      /\ rejected' \in [Jobs -> SUBSET Links]
  BY <1>1, <1>2 DEF Writes
<1>7. \A k \in Jobs : ScoreStep(row[k], row'[k], history'[k].torn)
  <2>1. TAKE k \in Jobs
  <2>2. CASE k = j BY <2>2, <1>3 DEF Writes
  <2>3. CASE k # j BY <2>3, <1>4 DEF ScoreStep
  <2> QED BY <2>2, <2>3
<1> QED BY <1>5, <1>6, <1>7 DEF Good, RowsOK

LEMMA IdleIsGood ==
  ASSUME RowsOK, UNCHANGED <<row, rejected, history>>
  PROVE  Good
<1>1. RowsOK' BY DEF RowsOK, RowOK
<1>2. \A j \in Jobs : ScoreStep(row[j], row'[j], history'[j].torn) BY DEF ScoreStep
<1> QED BY <1>1, <1>2 DEF Good

-----------------------------------------------------------------------------
(* What the writes make of a row *)

LEMMA ScoreFollowsFields ==
  ASSUME NEW r \in Row, NEW review \in Review
  PROVE  LET s == ScoreFollows(r, review) IN
         /\ s \in Row
         /\ s.text = r.text /\ s.pasted = r.pasted /\ s.src = r.src /\ s.prior = r.prior
         /\ s.review = r.review /\ s.link = r.link
         /\ review = "undecided" => s.score = "none"
         /\ review # "undecided" => s.score = r.score
         /\ review = "kept" => s.stale
<1>1. CASE review = "undecided"
  <2>1. ScoreFollows(r, review) = [r EXCEPT !.score = "none"] BY <1>1 DEF ScoreFollows
  <2> QED BY <1>1, <2>1 DEF Row
<1>2. CASE review = "kept"
  <2>1. ScoreFollows(r, review) = [r EXCEPT !.stale = TRUE] BY <1>2 DEF ScoreFollows
  <2> QED BY <1>2, <2>1 DEF Row
<1>3. CASE review = "archived"
  <2>1. ScoreFollows(r, review) = r BY <1>3 DEF ScoreFollows
  <2> QED BY <1>3, <2>1 DEF Row
<1> QED BY <1>1, <1>2, <1>3 DEF Review

LEMMA AdoptionIsGood ==
  ASSUME NEW r, NEW h, NEW R, RowOK(r, h, R), ~r.pasted,
         NEW l \in Links \ R, r.src \in {"none", l}, NEW text \in Says[l],
         NEW link \in LinkState
  PROVE  LET s == [WithEmployerJd(r, r.review, text, l) EXCEPT !.link = link]
         IN  RowOK(s, h, R) /\ ScoreStep(r, s, h.torn)
<1> DEFINE f == ScoreFollows(r, r.review)
           s == [WithEmployerJd(r, r.review, text, l) EXCEPT !.link = link]
<1>1. r \in Row /\ r.review \in Review BY DEF RowOK, Row
<1>2. /\ f \in Row /\ f.pasted = r.pasted /\ f.prior = r.prior /\ f.review = r.review
      /\ r.review = "undecided" => f.score = "none"
      /\ r.review # "undecided" => f.score = r.score
      /\ r.review = "kept" => f.stale
  BY <1>1, ScoreFollowsFields
<1>3. s = [f EXCEPT !.text = text, !.src = l,
                    !.prior = IF r.src = "none" THEN r.text ELSE f.prior, !.link = link]
  BY <1>2 DEF WithEmployerJd, Row
<1>4. text \in Texts BY EmployerJdAssumption
<1>5. /\ s \in Row /\ s.text = text /\ s.src = l /\ s.pasted = r.pasted /\ s.review = r.review
      /\ s.prior = (IF r.src = "none" THEN r.text ELSE r.prior)
      /\ s.score = f.score /\ s.stale = f.stale
  BY <1>1, <1>2, <1>3, <1>4 DEF Row
<1>6. s.src # "none" BY <1>5, EmployerJdAssumption
<1>7. s.prior \in Texts BY <1>1, <1>5 DEF RowOK, Row
<1>8. ~h.torn => s.prior = h.source BY <1>5 DEF RowOK
<1>9. RowOK(s, h, R) BY <1>5, <1>6, <1>7, <1>8 DEF RowOK
<1>10. ScoreStep(r, s, h.torn) BY <1>2, <1>5 DEF ScoreStep, ScoreIsTrusted
<1> QED BY <1>9, <1>10

LEMMA UndoIsGood ==
  ASSUME NEW r, NEW h, NEW R, RowOK(r, h, R), r.src # "none",
         NEW review \in Review, NEW g \in History,
         g.source = h.source, g.typed = h.typed, ~g.torn => ~h.torn /\ r.review = review,
         NEW S \in SUBSET Links
  PROVE  LET s == WithoutEmployerJd(r, review)
         IN  RowOK(s, g, S) /\ ScoreStep(r, s, g.torn)
<1> DEFINE f == ScoreFollows(r, review)
           s == WithoutEmployerJd(r, review)
<1>1. r \in Row /\ r.prior \in Texts /\ ~r.pasted BY DEF RowOK
<1>2. /\ f \in Row /\ f.pasted = r.pasted /\ f.review = r.review
      /\ review = "undecided" => f.score = "none"
      /\ review # "undecided" => f.score = r.score
      /\ review = "kept" => f.stale
  BY <1>1, ScoreFollowsFields
<1>3. s = [f EXCEPT !.text = r.prior, !.src = "none", !.prior = "none"]
  BY DEF WithoutEmployerJd
<1>4. /\ s \in Row /\ s.text = r.prior /\ s.src = "none" /\ ~s.pasted /\ s.review = r.review
      /\ s.score = f.score /\ s.stale = f.stale
  BY <1>1, <1>2, <1>3 DEF Row
<1>5. "none" \notin S BY EmployerJdAssumption
<1>6. ~g.torn => r.prior = g.source BY DEF RowOK
<1>7. RowOK(s, g, S) BY <1>4, <1>5, <1>6 DEF RowOK
<1>8. ~g.torn => r.review = review OBVIOUS
<1>9. ScoreStep(r, s, g.torn) BY <1>2, <1>4, <1>8 DEF ScoreStep, ScoreIsTrusted
<1> QED BY <1>7, <1>9

LEMMA RefreshIsGood ==
  ASSUME NEW r, NEW h, NEW R, RowOK(r, h, R), NEW seen \in Existing, NEW text \in Sent,
         NEW g \in History, g.typed = h.typed, ~g.torn => ~h.torn /\ Seen(r) = seen,
         g.source = (IF seen.pasted THEN h.source
                     ELSE IF seen.src # "none" THEN text ELSE Refreshed(r, seen, text).text)
  PROVE  LET s == Refreshed(r, seen, text)
         IN  RowOK(s, g, R) /\ ScoreStep(r, s, g.torn)
<1> DEFINE s == Refreshed(r, seen, text)
<1>1. r \in Row BY DEF RowOK
<1>2. text \in Texts BY EmployerJdAssumption
<1>3. ~g.torn => /\ ~h.torn /\ seen.pasted = r.pasted /\ seen.src = r.src /\ seen.text = r.text
                 /\ seen.review = r.review
  BY DEF Seen
<1>4. CASE s = r /\ (seen.pasted \/ (seen.src = "none" /\ g.source = r.text))
  BY <1>3, <1>4 DEF RowOK, ScoreStep
<1>5. CASE s = [r EXCEPT !.prior = text] /\ ~seen.pasted /\ seen.src # "none"
  <2>1. s \in Row /\ s.prior = text /\ s.text = r.text /\ s.src = r.src /\ s.pasted = r.pasted
        /\ s.review = r.review /\ s.score = r.score /\ s.stale = r.stale
    BY <1>1, <1>2, <1>5 DEF Row
  <2>2. g.source = text BY <1>5
  <2>3. RowOK(s, g, R) BY <1>2, <1>3, <1>5, <2>1, <2>2 DEF RowOK
  <2>4. ScoreStep(r, s, g.torn) BY <2>1 DEF ScoreStep, ScoreIsTrusted
  <2> QED BY <2>3, <2>4
<1>6. CASE /\ s = [r EXCEPT !.text = text,
                            !.score = IF seen.review = "undecided" THEN "none" ELSE @]
           /\ ~seen.pasted /\ seen.src = "none"
  <2>1. /\ s \in Row /\ s.text = text /\ s.prior = r.prior /\ s.src = r.src
        /\ s.pasted = r.pasted /\ s.review = r.review /\ s.stale = r.stale
        /\ s.score = (IF seen.review = "undecided" THEN "none" ELSE r.score)
    BY <1>1, <1>2, <1>6 DEF Row
  <2>2. g.source = s.text BY <1>6
  <2>3. RowOK(s, g, R) BY <1>3, <1>6, <2>1, <2>2 DEF RowOK
  <2>4. ScoreStep(r, s, g.torn) BY <1>3, <1>6, <2>1 DEF ScoreStep, ScoreIsTrusted
  <2> QED BY <2>3, <2>4
<1>7. CASE seen.pasted
  BY <1>4, <1>7 DEF Refreshed
<1>8. CASE ~seen.pasted /\ seen.src # "none"
  BY <1>5, <1>8 DEF Refreshed
<1>9. CASE ~seen.pasted /\ seen.src = "none"
  <2>1. CASE text = seen.text \/ (text \in Short /\ seen.text \notin Short)
    <3>1. s = r BY <1>9, <2>1 DEF Refreshed
    <3>2. g.source = r.text BY <1>9, <3>1
    <3> QED BY <1>4, <1>9, <3>1, <3>2
  <2>2. CASE ~(text = seen.text \/ (text \in Short /\ seen.text \notin Short))
    BY <1>6, <1>9, <2>2 DEF Refreshed
  <2> QED BY <2>1, <2>2
<1> QED BY <1>7, <1>8, <1>9

LEMMA PasteIsGood ==
  ASSUME NEW r, NEW h, NEW R, RowOK(r, h, R), NEW seen \in Existing, NEW text \in Typed,
         NEW g \in History, g.source = h.source, g.typed = text,
         ~g.torn => ~h.torn /\ r.text = seen.text /\ r.review = seen.review
  PROVE  LET s == WithPaste(r, seen, text)
         IN  RowOK(s, g, R) /\ ScoreStep(r, s, g.torn)
<1> DEFINE s == WithPaste(r, seen, text)
           t == [r EXCEPT !.pasted = TRUE, !.src = "none", !.prior = "none"]
<1>1. r \in Row BY DEF RowOK
<1>2. text \in Texts BY EmployerJdAssumption
<1>3. t \in Row /\ t.text = r.text /\ t.score = r.score /\ t.stale = r.stale
      /\ t.review = r.review /\ t.pasted /\ t.src = "none"
  BY <1>1 DEF Row
<1>4. s = IF text = seen.text THEN t
          ELSE [t EXCEPT !.text = text,
                         !.score = IF seen.review = "undecided" THEN "none" ELSE t.score]
  BY DEF WithPaste
<1>5. /\ s \in Row /\ s.pasted /\ s.src = "none" /\ s.review = r.review /\ s.stale = r.stale
      /\ s.text = (IF text = seen.text THEN r.text ELSE text)
      /\ s.score = (IF text # seen.text /\ seen.review = "undecided" THEN "none" ELSE r.score)
  BY <1>2, <1>3, <1>4 DEF Row
<1>6. "none" \notin R BY EmployerJdAssumption DEF RowOK
<1>7. ~g.torn => s.text = text BY <1>5
<1>8. RowOK(s, g, R) BY <1>5, <1>6, <1>7 DEF RowOK
<1>9. ScoreStep(r, s, g.torn) BY <1>5 DEF ScoreStep, ScoreIsTrusted
<1> QED BY <1>8, <1>9

LEMMA RowWriteIsGood ==
  ASSUME RowsOK, NEW j \in Jobs, NEW s,
         row' = [row EXCEPT ![j] = s], UNCHANGED <<rejected, history>>,
         RowOK(s, history[j], rejected[j]), ScoreStep(row[j], s, history[j].torn)
  PROVE  Good
<1>1. history' = [history EXCEPT ![j] = history[j]] BY DEF RowsOK
<1>2. rejected' = [rejected EXCEPT ![j] = rejected[j]] BY DEF RowsOK
<1>3. Writes(j, s, history[j], rejected[j]) BY <1>1, <1>2 DEF Writes
<1> QED BY <1>3, WritesIsGood

\* Writes that leave a description and its provenance as they are.
LEMMA SameTextIsOK ==
  ASSUME NEW r, NEW h, NEW R, RowOK(r, h, R), NEW s \in Row, NEW g \in History,
         s.text = r.text, s.pasted = r.pasted, s.src = r.src, s.prior = r.prior,
         g.source = h.source, g.typed = h.typed, ~g.torn => ~h.torn
  PROVE  RowOK(s, g, R)
BY DEF RowOK

-----------------------------------------------------------------------------
(* What a worker has read *)

LEMMA WorkShapes ==
  ASSUME NEW x \in Work
  PROVE  /\ x.pc = "listed" => x.job \in Jobs /\ x.link \in LinkState
         /\ x.pc = "adopted" => x.job \in Jobs /\ x.src \in Links /\ x.text \in Texts
         /\ x.pc = "asking" => /\ x.job \in Jobs /\ x.from \in Links \cup {"none"}
                               /\ x.save \in BOOLEAN /\ x.snap \in JdSnapshot
         /\ x.pc = "reverting" => x.job \in Jobs /\ x.src \in Links /\ x.review \in Review
         /\ x.pc = "dropping" => x.job \in Jobs /\ x.link \in Links
         /\ x.pc = "refreshing" => x.job \in Jobs /\ x.text \in Sent /\ x.seen \in Existing
         /\ x.pc = "pasting" => x.job \in Jobs /\ x.text \in Typed /\ x.seen \in Existing
         /\ x.pc = "scoring" => x.job \in Jobs /\ x.text \in Texts
BY DEF Work, Idle, LinkState

LEMMA GoesIsTyped ==
  ASSUME work \in [Workers -> Work], NEW w \in Workers, NEW to \in Work, Goes(w, to)
  PROVE  work' \in [Workers -> Work]
BY DEF Goes

LEMMA IdleIsWork == Idle \in Work
BY DEF Work

LEMMA RowReads ==
  ASSUME RowsOK, NEW j \in Jobs
  PROVE  /\ row[j] \in Row /\ RowOK(row[j], history[j], rejected[j])
         /\ Snapshot(row[j]) \in JdSnapshot
         /\ Seen(row[j]) \in Existing
         /\ row[j].review \in Review /\ row[j].text \in Texts
         /\ row[j].link \in LinkState /\ row[j].src \in Links \cup {"none"}
<1>1. row[j] \in Row /\ RowOK(row[j], history[j], rejected[j]) BY DEF RowsOK
<1>2. /\ row[j].review \in Review /\ row[j].text \in Texts
      /\ row[j].link \in LinkState /\ row[j].src \in Links \cup {"none"}
      /\ row[j].pasted \in BOOLEAN
  BY <1>1 DEF Row
<1>3. Snapshot(row[j]) \in JdSnapshot BY <1>2 DEF Snapshot, JdSnapshot
<1>4. Seen(row[j]) \in Existing BY <1>2 DEF Seen, Existing
<1> QED BY <1>1, <1>2, <1>3, <1>4

-----------------------------------------------------------------------------
(* The actions *)

Kept == Good /\ work' \in [Workers -> Work]

LEMMA ReadsAreKept ==
  ASSUME Inv, NEW w \in Workers, NEW to \in Work, Goes(w, to),
         UNCHANGED <<row, rejected, history>>
  PROVE  Kept
BY IdleIsGood, GoesIsTyped DEF Inv, Kept

LEMMA RunReads ==
  ASSUME Inv, NEW w \in Workers,
         \/ \E j \in Jobs : ListsCandidate(w, j) \/ ListsAdopted(w, j)
         \/ Copies(w) \/ Searches(w) \/ Revises(w) \/ Reverts(w) \/ Ends(w)
  PROVE  Kept
<1> USE DEF Inv
<1>1. work[w] \in Work OBVIOUS
<1>2. ASSUME NEW j \in Jobs, ListsCandidate(w, j) PROVE Kept
  <2>1. [pc |-> "listed", job |-> j, link |-> row[j].link] \in Work BY RowReads DEF Work
  <2> QED BY <1>2, <2>1, ReadsAreKept DEF ListsCandidate
<1>3. ASSUME NEW j \in Jobs, ListsAdopted(w, j) PROVE Kept
  <2>1. [pc |-> "adopted", job |-> j, src |-> row[j].src, text |-> row[j].text] \in Work
    BY <1>3, RowReads DEF Work, ListsAdopted
  <2> QED BY <1>3, <2>1, ReadsAreKept DEF ListsAdopted
<1>4. ASSUME NEW from \in Links \cup {"none"}, NEW old \in Texts \cup {"none"},
             NEW save \in BOOLEAN, work[w].job \in Jobs, AskFor(w, from, old, save)
      PROVE  Kept
  <2>1. [pc |-> "asking", job |-> work[w].job, from |-> from, old |-> old, save |-> save,
         snap |-> Snapshot(row[work[w].job])] \in Work
    BY <1>4, RowReads DEF Work
  <2> QED BY <1>4, <2>1, ReadsAreKept DEF AskFor
<1>5. CASE Copies(w)
  <2>1. work[w].job \in Jobs /\ work[w].link \in Links \cup {"none"}
    BY <1>1, <1>5, WorkShapes DEF Copies, LinkState
  <2> QED BY <1>4, <1>5, <2>1 DEF Copies
<1>6. CASE Searches(w)
  <2>1. work[w].job \in Jobs /\ work[w].link \in Links \cup {"none"}
    BY <1>1, <1>6, WorkShapes DEF Searches, LinkState
  <2>2. (work[w].link = "none") \in BOOLEAN OBVIOUS
  <2> QED BY <1>4, <1>6, <2>1, <2>2 DEF Searches
<1>7. CASE Revises(w)
  <2>1. work[w].job \in Jobs /\ work[w].src \in Links /\ work[w].text \in Texts
    BY <1>1, <1>7, WorkShapes DEF Revises
  <2> QED BY <1>4, <1>7, <2>1 DEF Revises
<1>8. CASE Reverts(w)
  <2>1. work[w].job \in Jobs /\ work[w].src \in Links
    BY <1>1, <1>8, WorkShapes DEF Reverts
  <2>2. [pc |-> "reverting", job |-> work[w].job, src |-> work[w].src,
         review |-> row[work[w].job].review] \in Work
    BY <2>1, RowReads DEF Work
  <2> QED BY <1>8, <2>2, ReadsAreKept DEF Reverts
<1>9. CASE Ends(w) BY <1>9, IdleIsWork, ReadsAreKept DEF Ends
<1> QED BY <1>2, <1>3, <1>5, <1>6, <1>7, <1>8, <1>9

LEMMA OtherReads ==
  ASSUME Inv, NEW w \in Workers,
         \/ \E j \in Jobs, text \in Sent : Refreshes(w, j, text)
         \/ \E j \in Jobs, text \in Typed : Pastes(w, j, text)
         \/ \E j \in Jobs : Scores(w, j) \/ ClosureDoubts(w, j)
  PROVE  Kept
<1> USE DEF Inv
<1>1. ASSUME NEW j \in Jobs, NEW text \in Sent, Refreshes(w, j, text) PROVE Kept
  <2>1. [pc |-> "refreshing", job |-> j, text |-> text, seen |-> Seen(row[j])] \in Work
    BY RowReads DEF Work
  <2> QED BY <1>1, <2>1, ReadsAreKept DEF Refreshes
<1>2. ASSUME NEW j \in Jobs, NEW text \in Typed, Pastes(w, j, text) PROVE Kept
  <2>1. [pc |-> "pasting", job |-> j, text |-> text, seen |-> Seen(row[j])] \in Work
    BY RowReads DEF Work
  <2> QED BY <1>2, <2>1, ReadsAreKept DEF Pastes
<1>3. ASSUME NEW j \in Jobs, Scores(w, j) PROVE Kept
  <2>1. row[j].review \in {"undecided", "kept"} BY <1>3, RowReads DEF Scores, Review
  <2>2. [pc |-> "scoring", job |-> j, text |-> row[j].text, review |-> row[j].review] \in Work
    BY <2>1, RowReads DEF Work
  <2> QED BY <1>3, <2>2, ReadsAreKept DEF Scores
<1>4. ASSUME NEW j \in Jobs, ClosureDoubts(w, j) PROVE Kept
  <2>1. [pc |-> "dropping", job |-> j, link |-> row[j].link] \in Work
    BY <1>4, RowReads DEF Work, ClosureDoubts
  <2> QED BY <1>4, <2>1, ReadsAreKept DEF ClosureDoubts
<1> QED BY <1>1, <1>2, <1>3, <1>4

LEMMA LandsIsKept ==
  ASSUME Inv, NEW w \in Workers, Lands(w)
  PROVE  Kept
<1> DEFINE j == work[w].job
           r == row[j]
<1>1. j \in Jobs BY WorkShapes DEF Inv, Lands
<1>2. PICK l \in Proven(w) : \E text \in Says[l] \ {work[w].old} :
        /\ Snapshot(r) = work[w].snap
        /\ ~r.pasted /\ r.src \in {"none", l}
        /\ \E link \in IF work[w].save /\ r.link # "manual" THEN {r.link, l} ELSE {r.link} :
             row' = [row EXCEPT ![j] =
                       [WithEmployerJd(r, work[w].snap.review, text, l) EXCEPT !.link = link]]
  BY DEF Lands
<1>3. PICK text \in Says[l] \ {work[w].old} :
        /\ Snapshot(r) = work[w].snap
        /\ ~r.pasted /\ r.src \in {"none", l}
        /\ \E link \in IF work[w].save /\ r.link # "manual" THEN {r.link, l} ELSE {r.link} :
             row' = [row EXCEPT ![j] =
                       [WithEmployerJd(r, work[w].snap.review, text, l) EXCEPT !.link = link]]
  BY <1>2
<1>4. PICK link \in {r.link, l} :
        row' = [row EXCEPT ![j] =
                  [WithEmployerJd(r, work[w].snap.review, text, l) EXCEPT !.link = link]]
  BY <1>3
<1>5. work[w].snap.review = r.review BY <1>3 DEF Snapshot
<1>6. RowOK(r, history[j], rejected[j]) /\ r.link \in LinkState BY <1>1, RowReads DEF Inv
<1>7. work[w].from \in Links \cup {"none"} BY WorkShapes DEF Inv, Lands
<1>8. l \in Links \ rejected[j]
  BY <1>7 DEF Proven
<1>9. link \in LinkState BY <1>6, <1>8 DEF LinkState
<1> DEFINE s == [WithEmployerJd(r, r.review, text, l) EXCEPT !.link = link]
<1>10. RowOK(s, history[j], rejected[j]) /\ ScoreStep(r, s, history[j].torn)
  BY <1>3, <1>6, <1>8, <1>9, AdoptionIsGood
<1>11. row' = [row EXCEPT ![j] = s] /\ UNCHANGED <<rejected, history>>
  BY <1>4, <1>5 DEF Lands
<1>12. Good
  <2> HIDE DEF s
  <2> QED BY <1>1, <1>10, <1>11, RowWriteIsGood DEF Inv
<1> QED BY <1>12, IdleIsWork, GoesIsTyped DEF Kept, Inv, Lands

LEMMA KeepsLinkIsKept ==
  ASSUME Inv, NEW w \in Workers, KeepsLink(w)
  PROVE  Kept
<1> DEFINE j == work[w].job
           r == row[j]
<1>1. j \in Jobs /\ work[w].from \in Links \cup {"none"} BY WorkShapes DEF Inv, KeepsLink
<1>2. PICK l \in Proven(w) : row' = [row EXCEPT ![j].link = l] BY DEF KeepsLink
<1>3. l \in LinkState BY <1>1 DEF Proven, LinkState
<1> DEFINE s == [r EXCEPT !.link = l]
<1>4. r \in Row /\ RowOK(r, history[j], rejected[j]) BY <1>1, RowReads DEF Inv
<1>5. /\ s \in Row /\ s.text = r.text /\ s.pasted = r.pasted /\ s.src = r.src
      /\ s.prior = r.prior /\ s.score = r.score /\ s.stale = r.stale /\ s.review = r.review
  BY <1>3, <1>4 DEF Row
<1>6. history[j] \in History BY <1>4 DEF RowOK
<1>7. RowOK(s, history[j], rejected[j]) BY <1>4, <1>5, <1>6, SameTextIsOK
<1>8. ScoreStep(r, s, history[j].torn) BY <1>5 DEF ScoreStep, ScoreIsTrusted
<1>9. row' = [row EXCEPT ![j] = s] BY <1>2
<1>10. Good
  <2> HIDE DEF s
  <2> QED BY <1>1, <1>7, <1>8, <1>9, RowWriteIsGood DEF Inv, KeepsLink
<1> QED BY <1>10, IdleIsWork, GoesIsTyped DEF Kept, Inv, KeepsLink

LEMMA RevertLandsIsKept ==
  ASSUME Inv, NEW w \in Workers, RevertLands(w)
  PROVE  Kept
<1> DEFINE j == work[w].job
           r == row[j]
<1>1. j \in Jobs /\ work[w].src \in Links /\ work[w].review \in Review
  BY WorkShapes DEF Inv, RevertLands
<1>2. RowOK(r, history[j], rejected[j]) BY <1>1, RowReads DEF Inv
<1>3. CASE r.src = work[w].src /\ ~r.pasted
  <2> DEFINE s == WithoutEmployerJd(r, work[w].review)
             g == [history[j] EXCEPT !.torn = @ \/ r.review # work[w].review]
  <2>1. row' = [row EXCEPT ![j] = s] /\ history' = [history EXCEPT ![j] = g]
    BY <1>3 DEF RevertLands
  <2>2. history[j] \in History BY <1>2 DEF RowOK
  <2>3. /\ g \in History /\ g.source = history[j].source /\ g.typed = history[j].typed
        /\ ~g.torn => ~history[j].torn /\ r.review = work[w].review
    BY <2>2 DEF History
  <2>4. r.src # "none" BY <1>1, <1>3, EmployerJdAssumption
  <2>5. rejected[j] \in SUBSET Links BY <1>2 DEF RowOK
  <2> HIDE DEF g
  <2>6. RowOK(s, g, rejected[j]) /\ ScoreStep(r, s, g.torn)
    BY <1>1, <1>2, <2>3, <2>4, <2>5, UndoIsGood
  <2>7. rejected' = [rejected EXCEPT ![j] = rejected[j]] BY DEF RevertLands, Inv, RowsOK
  <2> HIDE DEF s
  <2>8. Good BY <1>1, <2>1, <2>6, <2>7, WritesIsGood DEF Inv, Writes
  <2> QED BY <2>8, IdleIsWork, GoesIsTyped DEF Kept, Inv, RevertLands
<1>4. CASE ~(r.src = work[w].src /\ ~r.pasted)
  <2>1. UNCHANGED <<row, rejected, history>> BY <1>4 DEF RevertLands
  <2> QED BY <2>1, IdleIsWork, ReadsAreKept DEF Inv, RevertLands
<1> QED BY <1>3, <1>4

LEMMA RefreshLandsIsKept ==
  ASSUME Inv, NEW w \in Workers, RefreshLands(w)
  PROVE  Kept
<1> DEFINE j == work[w].job
           r == row[j]
           seen == work[w].seen
           s == Refreshed(r, seen, work[w].text)
           g == [history[j] EXCEPT
                   !.source = IF seen.pasted THEN @
                              ELSE IF seen.src # "none" THEN work[w].text ELSE s.text,
                   !.torn = @ \/ Seen(r) # seen]
<1>1. j \in Jobs /\ seen \in Existing /\ work[w].text \in Sent
  BY WorkShapes DEF Inv, RefreshLands
<1>2. RowOK(r, history[j], rejected[j]) /\ r \in Row BY <1>1, RowReads DEF Inv
<1>3. row' = [row EXCEPT ![j] = s] BY DEF RefreshLands
<1>4. row'[j] = s BY <1>1, <1>3 DEF Inv, RowsOK
<1>5. history' = [history EXCEPT ![j] = g]
  <2> DEFINE G(t) == [history[j] EXCEPT
                        !.source = IF seen.pasted THEN @
                                   ELSE IF seen.src # "none" THEN work[w].text ELSE t,
                        !.torn = @ \/ Seen(r) # seen]
  <2>1. history' = [history EXCEPT
                      ![j].source = IF seen.pasted THEN @
                                    ELSE IF seen.src # "none" THEN work[w].text ELSE row'[j].text,
                      ![j].torn = @ \/ Seen(row[j]) # seen]
    BY DEF RefreshLands
  <2> HIDE DEF j, r, s, seen
  <2>2. history' = [history EXCEPT ![j] = G(row'[j].text)] BY <2>1 DEF r
  <2>3. G(row'[j].text) = G(s.text) BY <1>4
  <2> QED BY <2>2, <2>3
<1>6. s.text \in Texts
  <2>1. work[w].text \in Texts BY <1>1, EmployerJdAssumption
  <2> QED BY <1>2, <2>1 DEF Refreshed, Row
<1>7. history[j] \in History BY <1>2 DEF RowOK
<1>8. work[w].text \in Texts BY <1>1, EmployerJdAssumption
<1>9. /\ g \in History /\ g.typed = history[j].typed
      /\ ~g.torn => ~history[j].torn /\ Seen(r) = seen
      /\ g.source = (IF seen.pasted THEN history[j].source
                     ELSE IF seen.src # "none" THEN work[w].text ELSE s.text)
  <2> HIDE DEF s
  <2> QED BY <1>6, <1>7, <1>8 DEF History
<1>10. RowOK(s, g, rejected[j]) /\ ScoreStep(r, s, g.torn)
  <2> HIDE DEF g
  <2> QED BY <1>1, <1>2, <1>9, RefreshIsGood
<1>11. rejected' = [rejected EXCEPT ![j] = rejected[j]] BY DEF RefreshLands, Inv, RowsOK
<1>12. Good
  <2> HIDE DEF g, s
  <2> QED BY <1>1, <1>3, <1>5, <1>10, <1>11, WritesIsGood DEF Inv, Writes
<1> QED BY <1>12, IdleIsWork, GoesIsTyped DEF Kept, Inv, RefreshLands

LEMMA PasteLandsIsKept ==
  ASSUME Inv, NEW w \in Workers, PasteLands(w)
  PROVE  Kept
<1> DEFINE j == work[w].job
           r == row[j]
           seen == work[w].seen
           s == WithPaste(r, seen, work[w].text)
           g == [history[j] EXCEPT
                   !.typed = work[w].text,
                   !.torn = @ \/ r.text # seen.text \/ r.review # seen.review]
<1>1. j \in Jobs /\ seen \in Existing /\ work[w].text \in Typed
  BY WorkShapes DEF Inv, PasteLands
<1>2. RowOK(r, history[j], rejected[j]) BY <1>1, RowReads DEF Inv
<1>3. row' = [row EXCEPT ![j] = s] /\ history' = [history EXCEPT ![j] = g] BY DEF PasteLands
<1>4. history[j] \in History BY <1>2 DEF RowOK
<1>5. /\ g \in History /\ g.source = history[j].source /\ g.typed = work[w].text
      /\ ~g.torn => ~history[j].torn /\ r.text = seen.text /\ r.review = seen.review
  BY <1>1, <1>4 DEF History
<1>6. RowOK(s, g, rejected[j]) /\ ScoreStep(r, s, g.torn)
  <2> HIDE DEF g
  <2> QED BY <1>1, <1>2, <1>5, PasteIsGood
<1>7. rejected' = [rejected EXCEPT ![j] = rejected[j]] BY DEF PasteLands, Inv, RowsOK
<1>8. Good
  <2> HIDE DEF g, s
  <2> QED BY <1>1, <1>3, <1>6, <1>7, WritesIsGood DEF Inv, Writes
<1> QED BY <1>8, IdleIsWork, GoesIsTyped DEF Kept, Inv, PasteLands

LEMMA WriteScoreIsKept ==
  ASSUME Inv, NEW w \in Workers, WriteScore(w)
  PROVE  Kept
<1> DEFINE j == work[w].job
           r == row[j]
           s == [r EXCEPT !.score = work[w].text]
<1>1. j \in Jobs /\ work[w].text \in Texts BY WorkShapes DEF Inv, WriteScore
<1>2. r \in Row /\ RowOK(r, history[j], rejected[j]) BY <1>1, RowReads DEF Inv
<1>3. /\ s \in Row /\ s.text = r.text /\ s.pasted = r.pasted /\ s.src = r.src
      /\ s.prior = r.prior /\ s.score = work[w].text /\ s.stale = r.stale /\ s.review = r.review
  BY <1>1, <1>2 DEF Row
<1>4. r.review = "undecided" /\ r.text = work[w].text BY DEF WriteScore
<1>5. row' = [row EXCEPT ![j] = s] BY DEF WriteScore
<1>6. history[j] \in History BY <1>2 DEF RowOK
<1> HIDE DEF s
<1>7. RowOK(s, history[j], rejected[j]) BY <1>2, <1>3, <1>6, SameTextIsOK
<1>8. ScoreStep(r, s, history[j].torn) BY <1>3, <1>4 DEF ScoreStep, ScoreIsTrusted
<1>9. Good BY <1>1, <1>5, <1>7, <1>8, RowWriteIsGood DEF Inv, WriteScore
<1> QED BY <1>9, IdleIsWork, GoesIsTyped DEF Kept, Inv, WriteScore

LEMMA ScoreKeptIsKept ==
  ASSUME Inv, NEW w \in Workers, ScoreKept(w)
  PROVE  Kept
<1> DEFINE j == work[w].job
           r == row[j]
           s == [r EXCEPT !.score = work[w].text, !.stale = FALSE]
<1>1. j \in Jobs /\ work[w].text \in Texts BY WorkShapes DEF Inv, ScoreKept
<1>2. r \in Row /\ RowOK(r, history[j], rejected[j]) BY <1>1, RowReads DEF Inv
<1>3. /\ s \in Row /\ s.text = r.text /\ s.pasted = r.pasted /\ s.src = r.src
      /\ s.prior = r.prior /\ s.score = work[w].text /\ s.review = r.review
  BY <1>1, <1>2 DEF Row
<1>4. r.review = "kept" BY DEF ScoreKept
<1>5. row' = [row EXCEPT ![j] = s]
  <2>1. row \in [Jobs -> Row] BY DEF Inv, RowsOK
  <2> QED BY <1>1, <2>1 DEF ScoreKept
<1>6. history[j] \in History BY <1>2 DEF RowOK
<1>7. work[w].text # "none" BY <1>1, EmployerJdAssumption
<1> HIDE DEF s
<1>8. RowOK(s, history[j], rejected[j]) BY <1>2, <1>3, <1>6, SameTextIsOK
<1>9. ScoreStep(r, s, history[j].torn) BY <1>3, <1>4, <1>7 DEF ScoreStep, ScoreIsTrusted
<1>10. Good BY <1>1, <1>5, <1>8, <1>9, RowWriteIsGood DEF Inv, ScoreKept
<1> QED BY <1>10, IdleIsWork, GoesIsTyped DEF Kept, Inv, ScoreKept

\* A link dropped, and the text adopted over it undone or not, with new verdicts S that
\* hold the link if the text stays.
LEMMA DroppedIsOK ==
  ASSUME NEW r, NEW h, NEW R, RowOK(r, h, R), NEW l \in LinkState, NEW g \in History,
         g.source = h.source, g.typed = h.typed, ~g.torn => ~h.torn,
         NEW S \in SUBSET Links, NEW undo \in BOOLEAN,
         undo => r.src # "none", ~undo => r.src \notin S
  PROVE  LET q == [r EXCEPT !.link = l]
             s == IF undo THEN WithoutEmployerJd(q, q.review) ELSE q
         IN  RowOK(s, g, S) /\ ScoreStep(r, s, g.torn)
<1> DEFINE q == [r EXCEPT !.link = l]
<1>1. r \in Row /\ h \in History BY DEF RowOK
<1>2. /\ q \in Row /\ q.text = r.text /\ q.pasted = r.pasted /\ q.src = r.src
      /\ q.prior = r.prior /\ q.score = r.score /\ q.stale = r.stale /\ q.review = r.review
  BY <1>1 DEF Row
<1> HIDE DEF q
<1>3. RowOK(q, h, R) BY <1>1, <1>2, SameTextIsOK
<1>4. CASE undo
  <2>1. q.review \in Review BY <1>2 DEF Row
  <2> DEFINE s == WithoutEmployerJd(q, q.review)
  <2>2. RowOK(s, g, S) /\ ScoreStep(q, s, g.torn)
    BY <1>2, <1>3, <1>4, <2>1, UndoIsGood
  <2>3. ScoreStep(r, s, g.torn) BY <1>2, <2>2 DEF ScoreStep, ScoreIsTrusted
  <2> QED BY <1>4, <2>2, <2>3 DEF q
<1>5. CASE ~undo
  <2>1. RowOK(q, g, S) BY <1>2, <1>3, <1>5 DEF RowOK
  <2>2. ScoreStep(r, q, g.torn) BY <1>2 DEF ScoreStep, ScoreIsTrusted
  <2> QED BY <1>5, <2>1, <2>2 DEF q
<1> QED BY <1>4, <1>5

LEMMA DropLinkIsKept ==
  ASSUME Inv, NEW w \in Workers, DropLink(w)
  PROVE  Kept
<1> DEFINE j == work[w].job
           q == [row[j] EXCEPT !.link = "none"]
           D(undo) == IF undo THEN WithoutEmployerJd(q, q.review) ELSE q
<1>1. j \in Jobs /\ work[w].link \in Links BY WorkShapes DEF Inv, DropLink
<1>2. row[j] \in Row /\ RowOK(row[j], history[j], rejected[j]) BY <1>1, RowReads DEF Inv
<1>3. q.src = row[j].src /\ q.pasted = row[j].pasted BY <1>2 DEF Row
<1>4. PICK shadow \in BOOLEAN :
        row' = [row EXCEPT ![j] = IF ~shadow /\ q.src = work[w].link /\ ~q.pasted
                                  THEN WithoutEmployerJd(q, q.review) ELSE q]
  BY DEF DropLink
<1> DEFINE undo == ~shadow /\ q.src = work[w].link /\ ~q.pasted
           s == D(undo)
<1>5. row' = [row EXCEPT ![j] = s] BY <1>4
<1>6. undo \in BOOLEAN OBVIOUS
<1>7. undo => row[j].src # "none" BY <1>1, <1>3, EmployerJdAssumption
<1>8. history[j] \in History /\ rejected[j] \in SUBSET Links /\ row[j].src \notin rejected[j]
  BY <1>2 DEF RowOK
<1>9. "none" \in LinkState BY DEF LinkState
<1> HIDE DEF undo
<1>10. RowOK(s, history[j], rejected[j]) /\ ScoreStep(row[j], s, history[j].torn)
  BY <1>2, <1>6, <1>7, <1>8, <1>9, DroppedIsOK
<1> HIDE DEF s
<1>11. Good BY <1>1, <1>5, <1>10, RowWriteIsGood DEF Inv, DropLink
<1> QED BY <1>11, IdleIsWork, GoesIsTyped DEF Kept, Inv, DropLink

LEMMA ActHistory ==
  ASSUME Inv, NEW j \in Jobs, Act(j)
  PROVE  LET g == [history[j] EXCEPT !.acts = @ + 1] IN
         /\ history' = [history EXCEPT ![j] = g]
         /\ g \in History /\ g.source = history[j].source /\ g.typed = history[j].typed
         /\ ~g.torn => ~history[j].torn
         /\ work' \in [Workers -> Work]
<1>1. history \in [Jobs -> History] BY DEF Inv, RowsOK
<1>2. history[j].acts \in 0 .. MaxActs /\ history[j].acts < MaxActs BY <1>1 DEF History, Act
<1>3. history[j].acts + 1 \in 0 .. MaxActs BY <1>2, EmployerJdAssumption
<1>4. history[j] \in History BY <1>1
<1> DEFINE g == [history[j] EXCEPT !.acts = @ + 1]
<1>5. /\ g \in History /\ g.source = history[j].source /\ g.typed = history[j].typed
      /\ ~g.torn => ~history[j].torn
  BY <1>3, <1>4 DEF History
<1>6. history' = [history EXCEPT ![j] = g] BY DEF Act
<1>7. work' \in [Workers -> Work] BY DEF Act, Inv
<1> QED BY <1>5, <1>6, <1>7

\* Writes of the user that touch the review state or the link alone.
LEMMA UserFieldsAreKept ==
  ASSUME Inv, NEW j \in Jobs, NEW review \in Review, NEW link \in LinkState,
         review = row[j].review \/ link = row[j].link,
         row' = [row EXCEPT ![j] = [row[j] EXCEPT !.review = review, !.link = link]],
         UNCHANGED rejected, Act(j)
  PROVE  Kept
<1> DEFINE r == row[j]
           s == [r EXCEPT !.review = review, !.link = link]
           g == [history[j] EXCEPT !.acts = @ + 1]
<1>1. r \in Row /\ RowOK(r, history[j], rejected[j]) BY RowReads DEF Inv
<1>2. /\ s \in Row /\ s.text = r.text /\ s.pasted = r.pasted /\ s.src = r.src
      /\ s.prior = r.prior /\ s.score = r.score /\ s.stale = r.stale
  BY <1>1 DEF Row
<1>3. /\ history' = [history EXCEPT ![j] = g]
      /\ g \in History /\ g.source = history[j].source /\ g.typed = history[j].typed
      /\ ~g.torn => ~history[j].torn
      /\ work' \in [Workers -> Work]
  BY ActHistory
<1>4. rejected' = [rejected EXCEPT ![j] = rejected[j]] BY DEF Inv, RowsOK
<1>5. row' = [row EXCEPT ![j] = s] OBVIOUS
<1> HIDE DEF s, g
<1>6. RowOK(s, g, rejected[j]) BY <1>1, <1>2, <1>3, SameTextIsOK
<1>7. ScoreStep(r, s, g.torn) BY <1>2 DEF ScoreStep, ScoreIsTrusted
<1>8. Good BY <1>3, <1>4, <1>5, <1>6, <1>7, WritesIsGood DEF Inv, Writes
<1> QED BY <1>3, <1>8 DEF Kept

LEMMA SplitPairIsKept ==
  ASSUME Inv, NEW j \in Jobs, NEW l \in Links, SplitPair(j, l)
  PROVE  Kept
<1> DEFINE link == IF row[j].link = l THEN "none" ELSE row[j].link
           q == [row[j] EXCEPT !.link = link]
           R == rejected[j] \cup {l}
           g == [history[j] EXCEPT !.acts = @ + 1]
           undo == q.src = l /\ ~q.pasted
           s == IF undo THEN WithoutEmployerJd(q, q.review) ELSE q
<1>1. /\ row[j] \in Row /\ RowOK(row[j], history[j], rejected[j])
      /\ row[j].link \in LinkState
  BY RowReads DEF Inv
<1>2. q = IF row[j].link = l THEN [row[j] EXCEPT !.link = "none"] ELSE row[j]
  BY <1>1 DEF Row
<1>3. row' = [row EXCEPT ![j] = s]
  <2> DEFINE p == IF row[j].link = l THEN [row[j] EXCEPT !.link = "none"] ELSE row[j]
  <2>1. row' = [row EXCEPT ![j] = IF p.src = l /\ ~p.pasted
                                  THEN WithoutEmployerJd(p, p.review) ELSE p]
    BY DEF SplitPair
  <2>2. p = q BY <1>2
  <2> HIDE DEF p, q
  <2> QED BY <2>1, <2>2
<1>4. rejected' = [rejected EXCEPT ![j] = R] BY DEF SplitPair
<1>5. /\ history' = [history EXCEPT ![j] = g]
      /\ g \in History /\ g.source = history[j].source /\ g.typed = history[j].typed
      /\ ~g.torn => ~history[j].torn
      /\ work' \in [Workers -> Work]
  BY ActHistory DEF SplitPair
<1>6. q.src = row[j].src /\ q.pasted = row[j].pasted BY <1>1 DEF Row
<1>7. link \in LinkState BY <1>1 DEF LinkState
<1>8. R \in SUBSET Links BY <1>1 DEF RowOK
<1>9. l # "none" BY EmployerJdAssumption
<1>10. (undo => row[j].src # "none") /\ (~undo => row[j].src \notin R) /\ undo \in BOOLEAN
  BY <1>1, <1>6, <1>9 DEF RowOK
<1> HIDE DEF undo, g, R, link
<1>11. RowOK(s, g, R) /\ ScoreStep(row[j], s, g.torn)
  BY <1>1, <1>5, <1>7, <1>8, <1>10, DroppedIsOK
<1> HIDE DEF s
<1>12. Good BY <1>3, <1>4, <1>5, <1>11, WritesIsGood DEF Inv, Writes
<1> QED BY <1>5, <1>12 DEF Kept

LEMMA UserIsKept ==
  ASSUME Inv, NEW j \in Jobs, User(j)
  PROVE  Kept
<1> DEFINE F(review, link) == [row[j] EXCEPT !.review = review, !.link = link]
<1>1. row[j] \in Row /\ row[j].review \in Review /\ row[j].link \in LinkState
  BY RowReads DEF Inv
<1>2. \A review : [row[j] EXCEPT !.review = review] = F(review, row[j].link)
  BY <1>1 DEF Row
<1>3. \A link : [row[j] EXCEPT !.link = link] = F(row[j].review, link)
  BY <1>1 DEF Row
<1>4. ASSUME NEW from, NEW to \in Review, Decide(j, from, to) PROVE Kept
  <2>1. row' = [row EXCEPT ![j] = F(to, row[j].link)] BY <1>2, <1>4 DEF Decide
  <2> QED BY <1>1, <1>4, <2>1, UserFieldsAreKept DEF Decide
<1>5. ASSUME NEW link \in LinkState, row' = [row EXCEPT ![j].link = link],
             UNCHANGED rejected, Act(j)
      PROVE  Kept
  <2>1. row' = [row EXCEPT ![j] = F(row[j].review, link)] BY <1>3, <1>5
  <2> QED BY <1>1, <1>5, <2>1, UserFieldsAreKept
<1>6. {"manual", "none"} \cup Links \subseteq LinkState BY DEF LinkState
<1>7. {"kept", "undecided", "archived"} \subseteq Review BY DEF Review
<1>8. CASE Keep(j) \/ Unkeep(j) \/ Archive(j) \/ Unarchive(j)
  BY <1>4, <1>7, <1>8 DEF Keep, Unkeep, Archive, Unarchive
<1>9. CASE SaveManualLink(j) \/ ClearManualLink(j)
  BY <1>5, <1>6, <1>9 DEF SaveManualLink, ClearManualLink
<1>10. CASE \E l \in Links : SplitPair(j, l) \/ ClosureLinks(j, l)
  BY <1>5, <1>6, <1>10, SplitPairIsKept DEF ClosureLinks
<1> QED BY <1>8, <1>9, <1>10 DEF User

-----------------------------------------------------------------------------
LEMMA InitIsOK == Init => Inv
<1> SUFFICES ASSUME Init PROVE Inv OBVIOUS
<1>1. PICK first \in [Jobs -> Sent] :
        /\ row = [j \in Jobs |-> NewRow(first[j])]
        /\ history = [j \in Jobs |-> [source |-> first[j], typed |-> "none", torn |-> FALSE,
                                     acts |-> 0]]
  BY DEF Init
<1>2. rejected = [j \in Jobs |-> {}] /\ work = [w \in Workers |-> Idle] BY DEF Init
<1>3. \A j \in Jobs : NewRow(first[j]) \in Row
  BY EmployerJdAssumption DEF NewRow, Row, Review, LinkState
<1>4. 0 \in 0 .. MaxActs BY EmployerJdAssumption
<1>5. \A j \in Jobs : history[j] \in History
  BY <1>1, <1>4, EmployerJdAssumption DEF History
<1>6. \A j \in Jobs : RowOK(row[j], history[j], rejected[j])
  BY <1>1, <1>2, <1>3, <1>5 DEF RowOK, NewRow
<1>7. row \in [Jobs -> Row] /\ history \in [Jobs -> History]
      /\ rejected \in [Jobs -> SUBSET Links]
  BY <1>1, <1>2, <1>3, <1>5
<1>8. work \in [Workers -> Work] BY <1>2, IdleIsWork
<1> QED BY <1>6, <1>7, <1>8 DEF Inv, RowsOK

LEMMA StepIsKept ==
  ASSUME Inv, [Next]_vars
  PROVE  Kept
<1>1. CASE UNCHANGED vars
  <2>1. Good BY <1>1, IdleIsGood DEF vars, Inv
  <2> QED BY <1>1, <2>1 DEF vars, Inv, Kept
<1>2. ASSUME NEW w \in Workers, Run(w) PROVE Kept
  BY <1>2, RunReads, LandsIsKept, KeepsLinkIsKept, RevertLandsIsKept DEF Run
<1>3. ASSUME NEW w \in Workers, OtherWriter(w) PROVE Kept
  BY <1>3, OtherReads, RefreshLandsIsKept, PasteLandsIsKept, WriteScoreIsKept,
     ScoreKeptIsKept, DropLinkIsKept DEF OtherWriter
<1> QED BY <1>1, <1>2, <1>3, UserIsKept DEF Next

\* What the provenance of every row says is true of its text, in every state; the type
\* invariant is one part of it.
THEOREM DescriptionInvariant == Spec => []Inv
<1>1. Inv /\ [Next]_vars => Inv' BY StepIsKept DEF Kept, Good, Inv
<1> QED BY InitIsOK, <1>1, PTL DEF Spec

\* Every reachable state has the types that the model declares.
THEOREM TypesHold == Spec => []TypeOK
<1>1. Inv => TypeOK BY DEF Inv, RowsOK, TypeOK
<1> QED BY <1>1, DescriptionInvariant, PTL

\* An employer's text is of the posting it names and can be undone to the source's latest
\* text, a pasted one is the user's last, any other is the source's (db/client.py).
THEOREM ProvenanceHolds == Spec => []Provenance
<1>1. Inv => Provenance BY DEF Inv, RowsOK, RowOK, Provenance
<1> QED BY <1>1, DescriptionInvariant, PTL

\* A posting marked "not the same role" is never the source of the description.
THEOREM RejectedHolds == Spec => []RejectedStaysOut
<1>1. Inv => RejectedStaysOut BY DEF Inv, RowsOK, RowOK, RejectedStaysOut
<1> QED BY <1>1, DescriptionInvariant, PTL

\* Whoever changes a text takes its score along (db/client._score_follows_jd_sql).
THEOREM ScoreFollowsTextHolds == Spec => ScoreFollowsText
<1> DEFINE A == \A j \in Jobs : LET r == row[j]  s == row'[j] IN
       r.review = s.review /\ ~history'[j].torn =>
         /\ r.review = "undecided" /\ ScoreIsTrusted(r) => ScoreIsTrusted(s)
         /\ r.review = "kept" /\ r.score # "none" => s.score # "none"
         /\ r.review = "kept" /\ r.text # s.text /\ {r.src, s.src} # {"none"} /\ ~s.pasted
              => s.stale
<1>1. Inv /\ [Next]_vars => A BY StepIsKept DEF Kept, Good, ScoreStep
<1>2. Inv /\ [Next]_vars => [A]_vars BY <1>1
<1>3. ScoreFollowsText <=> [][A]_vars BY DEF ScoreFollowsText
<1> HIDE DEF A
<1> QED BY <1>2, <1>3, DescriptionInvariant, PTL DEF Spec
=============================================================================
