----------------------------- MODULE EmployerJd -----------------------------
(***************************************************************************)
(* The description of an aggregator's posting (core/employer_jd.py and the *)
(* writes of db/client.py behind it).  The aggregator sends a snippet; a   *)
(* run may replace it by the employer's own text, with its provenance and  *)
(* what is needed to undo that; the user may paste a text; the source goes *)
(* on sending; closure drops links; and a score belongs to one text.       *)
(*                                                                         *)
(* All of these are writers of one row that read it first and write it     *)
(* later: after a model call, after requests to employers' sites, or one   *)
(* statement later but outside a transaction.  A worker is whoever does    *)
(* one of them: the daily run, a run of the cockpit, a request it serves.  *)
(* Whole-table runs list their rows first, so the part of a run that deals *)
(* with one row is a piece of work that begins when the list is made.      *)
(***************************************************************************)
EXTENDS Naturals

CONSTANTS
  Jobs,       \* aggregator postings
  Workers,
  Links,      \* employers' postings: a board's or page's identity and the id there
  Texts,
  Short,      \* texts below MIN_FULL_JD_CHARS
  Sent,       \* texts the aggregator may send
  Says,       \* Says[l]: texts of the posting l that pass for a description
  Typed,      \* texts the user may paste
  MaxActs     \* bound: decisions of the user and links of closure, per posting

ASSUME EmployerJdAssumption ==
  /\ Short \subseteq Texts /\ Sent \subseteq Texts /\ Typed \subseteq Texts
  /\ Says \in [Links -> SUBSET (Texts \ Short)]
  /\ "none" \notin Links \cup Texts
  /\ "manual" \notin Links
  /\ MaxActs \in Nat

VARIABLES
  row,        \* the description columns of the jobs table
  rejected,   \* rejected[j]: postings the user said are not this role
  work,       \* what each worker has read and not yet written
  history     \* history[j]: for checking only

vars == <<row, rejected, work, history>>

-----------------------------------------------------------------------------
(* Values *)

Review == {"undecided", "kept", "archived"}
LinkState == Links \cup {"none", "manual"}

\* `src` is jd_source with jd_source_ref, `prior` jd_prior, `pasted` jd_pasted_at, `stale`
\* score_stale; `score` is the text the score was computed from.
Row == [text : Texts, pasted : BOOLEAN, src : Links \cup {"none"}, prior : Texts \cup {"none"},
        review : Review, score : Texts \cup {"none"}, stale : BOOLEAN, link : LinkState]

JdSnapshot == [text : Texts, review : Review, link : LinkState]
Existing == [text : Texts, pasted : BOOLEAN, src : Links \cup {"none"}, review : Review]

Idle == [pc |-> "idle"]
Work ==
  {Idle}
    \cup [pc : {"listed"}, job : Jobs, link : LinkState]
    \cup [pc : {"adopted"}, job : Jobs, src : Links, text : Texts]
    \cup [pc : {"asking"}, job : Jobs, from : Links \cup {"none"}, old : Texts \cup {"none"},
          save : BOOLEAN, snap : JdSnapshot]
    \cup [pc : {"reverting"}, job : Jobs, src : Links, review : Review]
    \cup [pc : {"dropping"}, job : Jobs, link : Links]
    \cup [pc : {"refreshing"}, job : Jobs, text : Sent, seen : Existing]
    \cup [pc : {"pasting"}, job : Jobs, text : Typed, seen : Existing]
    \cup [pc : {"scoring"}, job : Jobs, text : Texts, review : {"undecided", "kept"}]

(* `source` is what the aggregator's own refreshes have left of its text, had *)
(* nobody else written; `typed` is the user's last paste; `torn` says that a  *)
(* write outside a transaction fell on a row that had changed since its read; *)
(* `acts` counts towards MaxActs.                                             *)
History == [source : Texts, typed : Typed \cup {"none"}, torn : BOOLEAN, acts : 0 .. MaxActs]

TypeOK ==
  /\ row \in [Jobs -> Row]
  /\ rejected \in [Jobs -> SUBSET Links]
  /\ work \in [Workers -> Work]
  /\ history \in [Jobs -> History]

\* upsert_job's INSERT of a posting seen for the first time.
NewRow(text) ==
  [text |-> text, pasted |-> FALSE, src |-> "none", prior |-> "none", review |-> "undecided",
   score |-> "none", stale |-> FALSE, link |-> "none"]

Init ==
  /\ \E first \in [Jobs -> Sent] :
       /\ row = [j \in Jobs |-> NewRow(first[j])]
       /\ history = [j \in Jobs |-> [source |-> first[j], typed |-> "none", torn |-> FALSE,
                                    acts |-> 0]]
  /\ rejected = [j \in Jobs |-> {}]
  /\ work = [w \in Workers |-> Idle]

-----------------------------------------------------------------------------
(* What the writes make of a row *)

Snapshot(r) == [text |-> r.text, review |-> r.review, link |-> r.link]
Seen(r) == [text |-> r.text, pasted |-> r.pasted, src |-> r.src, review |-> r.review]

\* How a changed text treats the score of a row in this review state.
ScoreFollows(r, review) ==
  CASE review = "undecided" -> [r EXCEPT !.score = "none"]
    [] review = "kept"      -> [r EXCEPT !.stale = TRUE]
    [] review = "archived"  -> r

\* Mutant of WithEmployerJd: a revision keeps the text it replaces for the undo.
WithEmployerJdAnew(r, review, text, l) ==
  [ScoreFollows(r, review) EXCEPT !.text = text, !.src = l, !.prior = r.text]

WithEmployerJd(r, review, text, l) ==
  [ScoreFollows(r, review) EXCEPT
     !.text = text, !.src = l, !.prior = IF r.src = "none" THEN r.text ELSE @]

WithoutEmployerJd(r, review) ==
  [ScoreFollows(r, review) EXCEPT !.text = r.prior, !.src = "none", !.prior = "none"]

\* A refresh judges the text it read: no lower class replaces a higher one, and what an
\* employer's text kept out is what an undo restores.
Refreshed(r, seen, text) ==
  IF seen.pasted THEN r
  ELSE IF seen.src # "none" THEN [r EXCEPT !.prior = text]
  ELSE IF text = seen.text \/ (text \in Short /\ seen.text \notin Short) THEN r
  ELSE [r EXCEPT !.text = text, !.score = IF seen.review = "undecided" THEN "none" ELSE @]

\* A text that is the stored one already is only stamped.
WithPaste(r, seen, text) ==
  LET stamped == [r EXCEPT !.pasted = TRUE, !.src = "none", !.prior = "none"]
  IN  IF text = seen.text THEN stamped
      ELSE [stamped EXCEPT !.text = text,
                           !.score = IF seen.review = "undecided" THEN "none" ELSE @]

-----------------------------------------------------------------------------
(* A run over employers' postings *)

Goes(w, to) == work' = [work EXCEPT ![w] = to]

\* candidates: short, not pasted, no employer's text yet.
ListsCandidate(w, j) ==
  /\ work[w].pc = "idle"
  /\ ~row[j].pasted /\ row[j].src = "none" /\ row[j].review # "archived"
  /\ row[j].text \in Short
  /\ Goes(w, [pc |-> "listed", job |-> j, link |-> row[j].link])
  /\ UNCHANGED <<row, rejected, history>>

ListsAdopted(w, j) ==
  /\ work[w].pc = "idle"
  /\ ~row[j].pasted /\ row[j].src # "none" /\ row[j].review # "archived"
  /\ Goes(w, [pc |-> "adopted", job |-> j, src |-> row[j].src, text |-> row[j].text])
  /\ UNCHANGED <<row, rejected, history>>

AskFor(w, from, old, save) ==
  /\ Goes(w, [pc |-> "asking", job |-> work[w].job, from |-> from, old |-> old, save |-> save,
              snap |-> Snapshot(row[work[w].job])])
  /\ UNCHANGED <<row, rejected, history>>

\* A posting we hold has the text: the stored link's, or a sibling's.
Copies(w) ==
  /\ work[w].pc = "listed" /\ work[w].link # "manual"
  /\ AskFor(w, work[w].link, "none", FALSE)

\* The row's turn comes on the network: a snapshot, then the requests.  A stored link is
\* verified; without one there is a search, which saves the link it finds.
Searches(w) ==
  /\ work[w].pc = "listed" /\ work[w].link # "manual"
  /\ AskFor(w, work[w].link, "none", work[w].link = "none")

\* A posting we hold has a new text for a description adopted from it.
Revises(w) ==
  /\ work[w].pc = "adopted"
  /\ AskFor(w, work[w].src, work[w].text, FALSE)

\* Mutant of Proven: the user's verdict is not asked for.
ProvenByFacts(w) == IF work[w].from = "none" THEN Links ELSE {work[w].from}

\* Postings the text may be of: the stored link, or one that the copy or the search found,
\* unless the user has said it is another role.  What else proves a posting is a choice.
Proven(w) ==
  (IF work[w].from = "none" THEN Links ELSE {work[w].from}) \ rejected[work[w].job]

\* In one transaction: the local proof, the compare-and-set of set_employer_jd, the link.
Lands(w) ==
  /\ work[w].pc = "asking"
  /\ LET j == work[w].job
         r == row[j]
     IN  \E l \in Proven(w) : \E text \in Says[l] \ {work[w].old} :
           /\ Snapshot(r) = work[w].snap
           /\ ~r.pasted /\ r.src \in {"none", l}
           /\ \E link \in IF work[w].save /\ r.link # "manual" THEN {r.link, l} ELSE {r.link} :
                row' = [row EXCEPT ![j] =
                          [WithEmployerJd(r, work[w].snap.review, text, l) EXCEPT !.link = link]]
  /\ Goes(w, Idle)
  /\ UNCHANGED <<rejected, history>>

\* No text, but a link that closure can use.
KeepsLink(w) ==
  /\ work[w].pc = "asking" /\ work[w].save
  /\ LET j == work[w].job
     IN  /\ row[j].link = "none"
         /\ \E l \in Proven(w) : row' = [row EXCEPT ![j].link = l]
  /\ Goes(w, Idle)
  /\ UNCHANGED <<rejected, history>>

\* The proof is gone, or the employer's site refuses it: revert_employer_jd reads the
\* review state and then writes, with no transaction around the two.
Reverts(w) ==
  /\ work[w].pc = "adopted"
  /\ Goes(w, [pc |-> "reverting", job |-> work[w].job, src |-> work[w].src,
              review |-> row[work[w].job].review])
  /\ UNCHANGED <<row, rejected, history>>

RevertLands(w) ==
  /\ work[w].pc = "reverting"
  /\ LET j == work[w].job
         r == row[j]
     IN  IF r.src = work[w].src /\ ~r.pasted
         THEN /\ row' = [row EXCEPT ![j] = WithoutEmployerJd(r, work[w].review)]
              /\ history' = [history EXCEPT ![j].torn = @ \/ r.review # work[w].review]
         ELSE UNCHANGED <<row, history>>
  /\ Goes(w, Idle)
  /\ UNCHANGED rejected

\* Nothing to write: no answer, no proof, a lost race, a failure, a stop, the process' death.
Ends(w) ==
  /\ work[w].pc # "idle"
  /\ Goes(w, Idle)
  /\ UNCHANGED <<row, rejected, history>>

-----------------------------------------------------------------------------
(* The other writers *)

\* upsert_job: the posting is seen again.
Refreshes(w, j, text) ==
  /\ work[w].pc = "idle"
  /\ Goes(w, [pc |-> "refreshing", job |-> j, text |-> text, seen |-> Seen(row[j])])
  /\ UNCHANGED <<row, rejected, history>>

RefreshLands(w) ==
  /\ work[w].pc = "refreshing"
  /\ LET j == work[w].job
         seen == work[w].seen
     IN  /\ row' = [row EXCEPT ![j] = Refreshed(@, seen, work[w].text)]
         /\ history' = [history EXCEPT
              ![j].source = IF seen.pasted THEN @
                            ELSE IF seen.src # "none" THEN work[w].text ELSE row'[j].text,
              ![j].torn = @ \/ Seen(row[j]) # seen]
  /\ Goes(w, Idle)
  /\ UNCHANGED rejected

\* set_pasted_jd.
Pastes(w, j, text) ==
  /\ work[w].pc = "idle"
  /\ Goes(w, [pc |-> "pasting", job |-> j, text |-> text, seen |-> Seen(row[j])])
  /\ UNCHANGED <<row, rejected, history>>

PasteLands(w) ==
  /\ work[w].pc = "pasting"
  /\ LET j == work[w].job
         seen == work[w].seen
     IN  /\ row' = [row EXCEPT ![j] = WithPaste(@, seen, work[w].text)]
         /\ history' = [history EXCEPT
              ![j].typed = work[w].text,
              ![j].torn = @ \/ row[j].text # seen.text \/ row[j].review # seen.review]
  /\ Goes(w, Idle)
  /\ UNCHANGED rejected

\* A row is read for the model to score.
Scores(w, j) ==
  /\ work[w].pc = "idle"
  /\ row[j].review # "archived"
  /\ Goes(w, [pc |-> "scoring", job |-> j, text |-> row[j].text, review |-> row[j].review])
  /\ UNCHANGED <<row, rejected, history>>

\* Mutant of WriteScore: the text that was scored is not compared.
WriteScoreAnyText(w) ==
  /\ work[w].pc = "scoring" /\ work[w].review = "undecided"
  /\ LET j == work[w].job
     IN  /\ row[j].review = "undecided"
         /\ row' = [row EXCEPT ![j].score = work[w].text]
  /\ Goes(w, Idle)
  /\ UNCHANGED <<rejected, history>>

\* The matching pass, over undecided rows.
WriteScore(w) ==
  /\ work[w].pc = "scoring" /\ work[w].review = "undecided"
  /\ LET j == work[w].job
     IN  /\ row[j].review = "undecided" /\ row[j].text = work[w].text
         /\ row' = [row EXCEPT ![j].score = work[w].text]
  /\ Goes(w, Idle)
  /\ UNCHANGED <<rejected, history>>

\* A re-score of one kept row.
ScoreKept(w) ==
  /\ work[w].pc = "scoring" /\ work[w].review = "kept"
  /\ LET j == work[w].job
     IN  /\ row[j].review = "kept" /\ row[j].text = work[w].text
         /\ row' = [row EXCEPT ![j].score = work[w].text, ![j].stale = FALSE]
  /\ Goes(w, Idle)
  /\ UNCHANGED <<rejected, history>>

\* Closure drops the link it read when its pass began, with the text adopted over it (a
\* shadow pass leaves the text).
ClosureDoubts(w, j) ==
  /\ work[w].pc = "idle"
  /\ row[j].link \in Links
  /\ Goes(w, [pc |-> "dropping", job |-> j, link |-> row[j].link])
  /\ UNCHANGED <<row, rejected, history>>

DropLink(w) ==
  /\ work[w].pc = "dropping"
  /\ LET j == work[w].job
         r == [row[j] EXCEPT !.link = "none"]
     IN  \E shadow \in BOOLEAN :
           row' = [row EXCEPT ![j] = IF ~shadow /\ r.src = work[w].link /\ ~r.pasted
                                     THEN WithoutEmployerJd(r, r.review) ELSE r]
  /\ Goes(w, Idle)
  /\ UNCHANGED <<rejected, history>>

-----------------------------------------------------------------------------
(* The user, and closure finding a link of its own *)

Act(j) ==
  /\ history[j].acts < MaxActs
  /\ history' = [history EXCEPT ![j].acts = @ + 1]
  /\ UNCHANGED work

Decide(j, from, to) ==
  /\ row[j].review \in from
  /\ row' = [row EXCEPT ![j].review = to]
  /\ UNCHANGED rejected
  /\ Act(j)

Keep(j) == Decide(j, {"undecided"}, "kept")
Unkeep(j) == Decide(j, {"kept"}, "undecided")
Archive(j) == Decide(j, {"undecided"}, "archived")
Unarchive(j) == Decide(j, {"archived"}, "undecided")

SaveManualLink(j) ==
  /\ row' = [row EXCEPT ![j].link = "manual"]
  /\ UNCHANGED rejected
  /\ Act(j)

ClearManualLink(j) ==
  /\ row[j].link = "manual"
  /\ row' = [row EXCEPT ![j].link = "none"]
  /\ UNCHANGED rejected
  /\ Act(j)

\* "Not the same role", in one transaction: the verdict, the link, the adopted text.
SplitPair(j, l) ==
  /\ rejected' = [rejected EXCEPT ![j] = @ \cup {l}]
  /\ LET r == IF row[j].link = l THEN [row[j] EXCEPT !.link = "none"] ELSE row[j]
     IN  row' = [row EXCEPT ![j] = IF r.src = l /\ ~r.pasted
                                   THEN WithoutEmployerJd(r, r.review) ELSE r]
  /\ Act(j)

ClosureLinks(j, l) ==
  /\ row[j].link # "manual"
  /\ row' = [row EXCEPT ![j].link = l]
  /\ UNCHANGED rejected
  /\ Act(j)

-----------------------------------------------------------------------------
Run(w) ==
  \/ \E j \in Jobs : ListsCandidate(w, j) \/ ListsAdopted(w, j)
  \/ Copies(w) \/ Searches(w) \/ Revises(w) \/ Lands(w) \/ KeepsLink(w)
  \/ Reverts(w) \/ RevertLands(w)
  \/ Ends(w)

OtherWriter(w) ==
  \/ \E j \in Jobs, text \in Sent : Refreshes(w, j, text)
  \/ RefreshLands(w)
  \/ \E j \in Jobs, text \in Typed : Pastes(w, j, text)
  \/ PasteLands(w)
  \/ \E j \in Jobs : Scores(w, j) \/ ClosureDoubts(w, j)
  \/ WriteScore(w) \/ ScoreKept(w) \/ DropLink(w)

User(j) ==
  \/ Keep(j) \/ Unkeep(j) \/ Archive(j) \/ Unarchive(j)
  \/ SaveManualLink(j) \/ ClearManualLink(j)
  \/ \E l \in Links : SplitPair(j, l) \/ ClosureLinks(j, l)

Next ==
  \/ \E w \in Workers : Run(w) \/ OtherWriter(w)
  \/ \E j \in Jobs : User(j)

Spec == Init /\ [][Next]_vars

-----------------------------------------------------------------------------
(* Properties *)

\* A description is what its provenance says (db/client.py): an employer's text is of the
\* posting it names and can be undone to the latest text of the source; a pasted one is
\* the user's last paste; any other is the source's own.  Excepted are rows on which a
\* read and its write outside a transaction were torn apart.
Provenance ==
  \A j \in Jobs : LET r == row[j] IN
    /\ r.src # "none" => ~r.pasted
    /\ ~history[j].torn =>
         /\ r.src # "none" => r.text \in Says[r.src] /\ r.prior = history[j].source
         /\ r.pasted => r.text = history[j].typed
         /\ r.src = "none" /\ ~r.pasted => r.text = history[j].source

\* "A posting you marked "not the same role" for this job is never used as a source"
\* (docs/how-it-works/employer-data.md), also when the verdict falls into a lookup.
RejectedStaysOut == \A j \in Jobs : row[j].src \notin rejected[j]

\* The score shown is of the text shown, or says that it is not.
ScoreIsTrusted(r) == r.score \in {"none", r.text} \/ r.stale

\* What changes a text takes its score along: on an undecided row no write leaves the
\* score of another text; on a kept row no write of an employer's text does so unflagged,
\* and its score is never lost (db/client._score_follows_jd_sql, matching/rescore.py).
ScoreFollowsText ==
  [][\A j \in Jobs : LET r == row[j]  s == row'[j] IN
       r.review = s.review /\ ~history'[j].torn =>
         /\ r.review = "undecided" /\ ScoreIsTrusted(r) => ScoreIsTrusted(s)
         /\ r.review = "kept" /\ r.score # "none" => s.score # "none"
         /\ r.review = "kept" /\ r.text # s.text /\ {r.src, s.src} # {"none"} /\ ~s.pasted
              => s.stale]_vars
=============================================================================
