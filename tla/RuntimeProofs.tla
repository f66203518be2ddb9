---------------------------- MODULE RuntimeProofs ----------------------------
(***************************************************************************)
(* What holds of the registry for any clicks, limits and number of runs.   *)
(* A run that is shown as running is one whose task is alive, so the check *)
(* at the start of a run sees every task; and each gate's slots and line   *)
(* are those of the runs that refer to it, whichever gate is current.      *)
(***************************************************************************)
EXTENDS Runtime, RunStream, SequenceTheorems, FiniteSetTheorems, TLAPS

Queued == {"waiting", "working"}
Holders(g) == {r \in Working : run[r].held = g}
Waiters(g) == {r \in Ids : run[r].at = "waiting" /\ run[r].held = g}

RunOK(r) ==
  /\ r > seq => run[r] = NoRun
  /\ Running(r) <=> Alive(r)
  /\ run[r].at \in Queued => run[r].held \in DOMAIN gate

\* What the semaphore G must be when H hold its slots and W wait for one.
SlotsOK(G, H, W) ==
  /\ G \in Gate /\ G.free >= 0 /\ G.free + Cardinality(H) = G.size
  /\ ToSet(G.line) = W /\ IsInjective(G.line)

Inv ==
  /\ TypeOK /\ NoOverlap
  /\ NeedsGate => Len(gate) < MaxGates
  /\ \A r \in Ids : RunOK(r)
  /\ \A g \in DOMAIN gate : SlotsOK(gate[g], Holders(g), Waiters(g))

-----------------------------------------------------------------------------
(* Semaphores *)

LEMMA FiniteIds == ASSUME NEW S \in SUBSET Ids PROVE IsFiniteSet(S) /\ Cardinality(S) \in Nat
<1>1. MaxSeq \in Int /\ 1 \in Int
    BY RuntimeAssumption
<1>2. IsFiniteSet(Ids)
    BY <1>1, FS_Interval DEF Ids
<1>3. IsFiniteSet(S)
    BY <1>2, FS_Subset
<1>4. QED
    BY <1>3, FS_CardinalityType

LEMMA NewGateOK ==
  ASSUME NEW n \in Sizes
  PROVE  SlotsOK([size |-> n, free |-> n, line |-> <<>>], {}, {})
<1>1. n \in Nat /\ n \in Int
    BY RuntimeAssumption
<1>2. <<>> \in Seq(1..MaxSeq) /\ ToSet(<<>>) = {} /\ IsInjective(<<>>)
    BY DEF ToSet, IsInjective
<1>3. Cardinality({}) = 0
    BY FS_EmptySet
<1>4. QED
    BY <1>1, <1>2, <1>3 DEF SlotsOK, Gate

LEMMA TakeOK ==
  ASSUME NEW G, NEW H \in SUBSET Ids, NEW W, NEW r \in Ids, SlotsOK(G, H, W), r \notin H, G.free > 0
  PROVE  SlotsOK([G EXCEPT !.free = @ - 1], H \cup {r}, W)
<1> DEFINE K == [G EXCEPT !.free = @ - 1]
<1>1. /\ K \in Gate /\ K.free = G.free - 1 /\ K.size = G.size /\ K.line = G.line
      /\ G.free \in Int /\ G.size \in Nat
  <2>1. G \in Gate /\ G.free \in Int /\ G.size \in Nat
      BY RuntimeAssumption DEF SlotsOK, Gate
  <2>2. QED
      BY <2>1 DEF Gate
<1>2. Cardinality(H \cup {r}) = Cardinality(H) + 1 /\ Cardinality(H) \in Nat
    BY FiniteIds, FS_AddElement
<1> HIDE DEF K
<1>3. SlotsOK(K, H \cup {r}, W)
    BY <1>1, <1>2 DEF SlotsOK
<1>4. QED
    BY <1>3 DEF K

LEMMA GiveOK ==
  ASSUME NEW G, NEW H \in SUBSET Ids, NEW W, NEW r \in H, SlotsOK(G, H, W)
  PROVE  SlotsOK([G EXCEPT !.free = @ + 1], H \ {r}, W)
<1> DEFINE K == [G EXCEPT !.free = @ + 1]
<1>1. /\ K \in Gate /\ K.free = G.free + 1 /\ K.size = G.size /\ K.line = G.line
      /\ G.free \in Int /\ G.size \in Nat
  <2>1. G \in Gate /\ G.free \in Int /\ G.size \in Nat
      BY RuntimeAssumption DEF SlotsOK, Gate
  <2>2. QED
      BY <2>1 DEF Gate
<1>2. Cardinality(H \ {r}) = Cardinality(H) - 1 /\ Cardinality(H) \in Nat
    BY FiniteIds, FS_RemoveElement
<1> HIDE DEF K
<1>3. SlotsOK(K, H \ {r}, W)
    BY <1>1, <1>2 DEF SlotsOK
<1>4. QED
    BY <1>3 DEF K

LEMMA AppendLine ==
  ASSUME NEW line \in Seq(Ids), NEW r \in Ids, IsInjective(line), r \notin ToSet(line)
  PROVE  /\ Append(line, r) \in Seq(Ids) /\ IsInjective(Append(line, r))
         /\ ToSet(Append(line, r)) = ToSet(line) \cup {r}
<1> DEFINE new == Append(line, r)
<1>1. /\ Len(line) \in Nat /\ DOMAIN line = 1 .. Len(line)
      /\ new \in Seq(Ids) /\ Len(new) = Len(line) + 1 /\ new[Len(line) + 1] = r
      /\ \A i \in 1 .. Len(line) : new[i] = line[i]
    BY AppendProperties, LenProperties
<1>2. DOMAIN new = 1 .. Len(line) + 1
    BY <1>1, LenProperties
<1> HIDE DEF new
<1>3. \A i \in DOMAIN new : \/ i \in DOMAIN line /\ new[i] = line[i]
                            \/ i = Len(line) + 1 /\ new[i] = r
    BY <1>1, <1>2
<1>4. \A i \in DOMAIN line : line[i] # r
    BY DEF ToSet
<1>5. IsInjective(new)
    BY <1>1, <1>3, <1>4 DEF IsInjective
<1>6. ToSet(new) = ToSet(line) \cup {r}
  <2>1. ToSet(new) \subseteq ToSet(line) \cup {r}
      BY <1>3 DEF ToSet
  <2>2. ToSet(line) \subseteq ToSet(new) /\ r \in ToSet(new)
      BY <1>1, <1>2 DEF ToSet
  <2>3. QED
      BY <2>1, <2>2
<1>7. QED
    BY <1>1, <1>5, <1>6 DEF new

LEMMA RemoveFromLine ==
  ASSUME NEW line \in Seq(Ids), NEW i \in DOMAIN line, IsInjective(line)
  PROVE  /\ RemoveAt(line, i) \in Seq(Ids) /\ IsInjective(RemoveAt(line, i))
         /\ ToSet(RemoveAt(line, i)) = ToSet(line) \ {line[i]}
<1> DEFINE n == Len(line)
           front == SubSeq(line, 1, i - 1)
           back == SubSeq(line, i + 1, n)
           new == front \o back
<1>1. n \in Nat /\ DOMAIN line = 1 .. n /\ i \in 1 .. n /\ line \in [1 .. n -> Ids]
    BY LenProperties
<1>2. /\ front \in Seq(Ids) /\ Len(front) = i - 1
      /\ \A j \in 1 .. i - 1 : front[j] = line[j]
  <2>1. 1 \in Int /\ i - 1 \in Int /\ \A j \in 1 .. i - 1 : line[j] \in Ids
      BY <1>1
  <2>2. QED
      BY <1>1, <2>1, SubSeqProperties
<1>3. /\ back \in Seq(Ids) /\ Len(back) = n - i
      /\ \A j \in 1 .. n - i : back[j] = line[i + j]
  <2>1. i + 1 \in Int /\ n \in Int /\ \A j \in i + 1 .. n : line[j] \in Ids
      BY <1>1
  <2>2. /\ back \in Seq(Ids) /\ Len(back) = IF i + 1 <= n THEN n - (i + 1) + 1 ELSE 0
        /\ \A j \in 1 .. n - (i + 1) + 1 : back[j] = line[(i + 1) + j - 1]
      BY <2>1, SubSeqProperties
  <2>3. QED
      BY <1>1, <2>2
<1> HIDE DEF front, back
<1>4. /\ new \in Seq(Ids) /\ Len(new) = n - 1
      /\ \A j \in 1 .. n - 1 : new[j] = IF j <= i - 1 THEN front[j] ELSE back[j - (i - 1)]
  <2>1. /\ new \in Seq(Ids) /\ Len(new) = Len(front) + Len(back)
        /\ \A j \in 1 .. Len(front) + Len(back) :
             new[j] = IF j <= Len(front) THEN front[j] ELSE back[j - Len(front)]
      BY <1>2, <1>3, ConcatProperties
  <2>2. QED
      BY <1>1, <1>2, <1>3, <2>1
<1>5. DOMAIN new = 1 .. n - 1
    BY <1>4, LenProperties
<1> HIDE DEF new
<1>6. \A j \in 1 .. n - 1 : new[j] = IF j < i THEN line[j] ELSE line[j + 1]
  <2> TAKE j \in 1 .. n - 1
  <2>1. CASE j < i
      BY <1>1, <1>2, <1>4, <2>1
  <2>2. CASE j >= i
    <3>1. j - (i - 1) \in 1 .. n - i /\ i + (j - (i - 1)) = j + 1
        BY <1>1, <2>2
    <3>2. back[j - (i - 1)] = line[j + 1]
        BY <1>3, <3>1
    <3>3. new[j] = back[j - (i - 1)]
        BY <1>1, <1>4, <2>2
    <3>4. QED
        BY <1>1, <2>2, <3>2, <3>3
  <2>3. QED
      BY <1>1, <2>1, <2>2
<1>7. IsInjective(new)
  <2> SUFFICES ASSUME NEW a \in 1 .. n - 1, NEW b \in 1 .. n - 1, new[a] = new[b] PROVE a = b
      BY <1>5 DEF IsInjective
  <2>1. \A c, d \in 1 .. n : line[c] = line[d] => c = d
      BY <1>1 DEF IsInjective
  <2>2. QED
      BY <1>1, <1>6, <2>1
<1>8. ToSet(new) = ToSet(line) \ {line[i]}
  <2>1. ToSet(line) = {line[j] : j \in 1 .. n} /\ ToSet(new) = {new[j] : j \in 1 .. n - 1}
      BY <1>1, <1>5 DEF ToSet
  <2>2. \A c, d \in 1 .. n : line[c] = line[d] => c = d
      BY <1>1 DEF IsInjective
  <2>3. ASSUME NEW j \in 1 .. n - 1 PROVE new[j] \in ToSet(line) \ {line[i]}
    <3>1. PICK c \in 1 .. n : c # i /\ new[j] = line[c]
      <4>1. CASE j < i
          BY <1>1, <1>6, <4>1
      <4>2. CASE j >= i
          BY <1>1, <1>6, <4>2
      <4>3. QED
          BY <1>1, <4>1, <4>2
    <3>2. QED
        BY <1>1, <2>1, <2>2, <3>1
  <2>4. ASSUME NEW c \in 1 .. n, c # i PROVE line[c] \in ToSet(new)
    <3>1. CASE c < i
        BY <1>1, <1>6, <2>1, <3>1
    <3>2. CASE c > i
      <4>1. c - 1 \in 1 .. n - 1 /\ new[c - 1] = line[c]
          BY <1>1, <1>6, <3>2
      <4>2. QED
          BY <2>1, <4>1
    <3>3. QED
        BY <1>1, <2>4, <3>1, <3>2
  <2>5. ToSet(new) \subseteq ToSet(line) \ {line[i]}
      BY <2>1, <2>3
  <2>6. ToSet(line) \ {line[i]} \subseteq ToSet(new)
      BY <2>1, <2>4
  <2>7. QED
      BY <2>5, <2>6
<1>9. RemoveAt(line, i) = new
    BY DEF RemoveAt, new, front, back
<1>10. QED
    BY <1>4, <1>7, <1>8, <1>9

LEMMA JoinOK ==
  ASSUME NEW G, NEW H, NEW W \in SUBSET Ids, NEW r \in Ids, SlotsOK(G, H, W), r \notin W
  PROVE  SlotsOK([G EXCEPT !.line = Append(@, r)], H, W \cup {r})
<1> DEFINE new == Append(G.line, r)
           K == [G EXCEPT !.line = new]
<1>1. G \in Gate /\ G.line \in Seq(Ids) /\ ToSet(G.line) = W /\ IsInjective(G.line)
    BY DEF SlotsOK, Gate, Ids
<1>2. new \in Seq(Ids) /\ IsInjective(new) /\ ToSet(new) = W \cup {r}
    BY <1>1, AppendLine
<1> HIDE DEF new
<1>3. K \in Gate /\ K.free = G.free /\ K.size = G.size /\ K.line = new
    BY <1>1, <1>2 DEF Gate, Ids
<1> HIDE DEF K
<1>4. SlotsOK(K, H, W \cup {r})
    BY <1>2, <1>3 DEF SlotsOK
<1>5. QED
    BY <1>4 DEF K, new

LEMMA LeaveOK ==
  ASSUME NEW G, NEW H, NEW W \in SUBSET Ids, NEW r \in W, SlotsOK(G, H, W)
  PROVE  SlotsOK([G EXCEPT !.line = RemoveAt(@, Place(@, r))], H, W \ {r})
<1> DEFINE i == Place(G.line, r)
           new == RemoveAt(G.line, i)
           K == [G EXCEPT !.line = new]
<1>1. G \in Gate /\ G.line \in Seq(Ids) /\ ToSet(G.line) = W /\ IsInjective(G.line)
    BY DEF SlotsOK, Gate, Ids
<1>2. i \in DOMAIN G.line /\ G.line[i] = r
  <2>1. \E j \in DOMAIN G.line : G.line[j] = r
      BY <1>1 DEF ToSet
  <2>2. QED
      BY <2>1 DEF Place
<1> HIDE DEF i
<1>3. new \in Seq(Ids) /\ IsInjective(new) /\ ToSet(new) = W \ {r}
    BY <1>1, <1>2, RemoveFromLine
<1> HIDE DEF new
<1>4. K \in Gate /\ K.free = G.free /\ K.size = G.size /\ K.line = new
    BY <1>1, <1>3 DEF Gate, Ids
<1> HIDE DEF K
<1>5. SlotsOK(K, H, W \ {r})
    BY <1>3, <1>4 DEF SlotsOK
<1>6. QED
    BY <1>5 DEF K, new, i

\* The gates are now gs, but for G in the place of gs[g], which has the same size.
Replaces(gs, g, G) ==
  /\ gate' \in Seq(Gate) /\ Len(gate') = Len(gs) /\ DOMAIN gate' = DOMAIN gs /\ gate' # <<>>
  /\ Last(gate').size = Last(gs).size
  /\ \A h \in DOMAIN gs : gate'[h] = IF h = g THEN G ELSE gs[h]

LEMMA GateSet ==
  ASSUME NEW gs \in Seq(Gate), NEW g \in DOMAIN gs, NEW G \in Gate, G.size = gs[g].size,
         gate' = [gs EXCEPT ![g] = G]
  PROVE  Replaces(gs, g, G)
<1> DEFINE new == [gs EXCEPT ![g] = G]
<1>1. Len(gs) \in Nat /\ DOMAIN gs = 1 .. Len(gs) /\ g \in 1 .. Len(gs)
    BY LenProperties
<1>2. /\ new \in Seq(Gate) /\ Len(new) = Len(gs)
      /\ \A h \in 1 .. Len(gs) : new[h] = IF h = g THEN G ELSE gs[h]
    BY <1>1, ExceptSeq
<1> HIDE DEF new
<1>3. DOMAIN new = DOMAIN gs
    BY <1>1, <1>2, LenProperties
<1>4. Len(gs) # 0 /\ Len(gs) \in 1 .. Len(gs)
    BY <1>1
<1>5. new # <<>>
    BY <1>2, <1>4
<1>6. Last(new).size = Last(gs).size
    BY <1>2, <1>4 DEF Last
<1>7. QED
    BY <1>1, <1>2, <1>3, <1>5, <1>6 DEF new, Replaces

-----------------------------------------------------------------------------
(* Runs *)

LEMMA RunType ==
  ASSUME TypeOK, NEW r \in Ids
  PROVE  /\ run[r].at # "none" => run[r] \in Run
         /\ run[r] # NoRun => run[r] \in Run
<1>1. run[r] \in Run \/ run[r] = NoRun
    BY DEF TypeOK
<1>2. NoRun.at = "none"
    BY DEF NoRun
<1>3. QED
    BY <1>1, <1>2

LEMMA Slots == ASSUME NEW g PROVE Holders(g) \in SUBSET Ids /\ Waiters(g) \in SUBSET Ids
BY DEF Holders, Waiters, Working

\* A step of one run that keeps its name and its key.
LEMMA RunStep ==
  ASSUME Inv, NEW r \in Ids, run[r].at # "none", NEW x \in Run,
         run' = [run EXCEPT ![r] = x], UNCHANGED seq,
         x.name = run[r].name, x.key = run[r].key,
         x.at \in {"new", "waiting", "working"} => Alive(r),
         x.status = "running" <=> x.at \in {"new", "waiting", "working"},
         x.at \in Queued => x.held \in DOMAIN gate', DOMAIN gate \subseteq DOMAIN gate'
  PROVE  /\ run' \in [Ids -> Run \cup {NoRun}] /\ seq' \in 0 .. MaxSeq
         /\ NoOverlap' /\ \A s \in Ids : RunOK(s)'
<1>1. run \in [Ids -> Run \cup {NoRun}] /\ seq \in 0 .. MaxSeq /\ NoOverlap
      /\ \A s \in Ids : RunOK(s)
    BY DEF Inv, TypeOK
<1>2. /\ run' \in [Ids -> Run \cup {NoRun}] /\ run'[r] = x
      /\ \A s \in Ids \ {r} : run'[s] = run[s]
    BY <1>1
<1>3. \A s \in Ids : /\ Alive(s)' => Alive(s)
                     /\ run'[s].name = run[s].name /\ run'[s].key = run[s].key
    BY <1>2 DEF Alive
<1>4. NoOverlap'
    BY <1>1, <1>3 DEF NoOverlap
<1>5. ASSUME NEW s \in Ids PROVE RunOK(s)'
  <2>1. RunOK(s)
      BY <1>1
  <2>2. CASE s = r
    <3>1. ~(s > seq)
      <4>1. run[s] # NoRun
          BY <2>2 DEF NoRun
      <4>2. QED
          BY <2>1, <4>1 DEF RunOK
    <3>2. QED
        BY <1>2, <2>2, <3>1 DEF RunOK, Running, Alive
  <2>3. CASE s # r
      BY <1>2, <2>1, <2>3 DEF RunOK, Running, Alive
  <2>4. QED
      BY <2>2, <2>3
<1>6. QED
    BY <1>1, <1>2, <1>4, <1>5

\* Which gate's slots and line a step of one run concerns.
LEMMA OneGate ==
  ASSUME TypeOK, NEW r \in Ids, NEW x \in Run, run' = [run EXCEPT ![r] = x], NEW g,
         run[r].at \in Queued => run[r].held = g, x.at \in Queued => x.held = g
  PROVE  /\ \A h : h # g => Holders(h)' = Holders(h) /\ Waiters(h)' = Waiters(h)
         /\ Holders(g)' = IF x.at = "working" THEN Holders(g) \cup {r} ELSE Holders(g) \ {r}
         /\ Waiters(g)' = IF x.at = "waiting" THEN Waiters(g) \cup {r} ELSE Waiters(g) \ {r}
<1>1. run'[r] = x /\ \A s \in Ids \ {r} : run'[s] = run[s]
    BY DEF TypeOK
<1>2. ASSUME NEW h, h # g PROVE Holders(h)' = Holders(h) /\ Waiters(h)' = Waiters(h)
    BY <1>1, <1>2 DEF Holders, Waiters, Working, Queued
<1>3. Holders(g)' = IF x.at = "working" THEN Holders(g) \cup {r} ELSE Holders(g) \ {r}
    BY <1>1 DEF Holders, Working, Queued
<1>4. Waiters(g)' = IF x.at = "waiting" THEN Waiters(g) \cup {r} ELSE Waiters(g) \ {r}
    BY <1>1 DEF Waiters, Queued
<1>5. QED
    BY <1>2, <1>3, <1>4

\* A step of one run that leaves the gates alone.
LEMMA QuietStep ==
  ASSUME Inv, NEW r \in Ids, run[r].at # "none", NEW x \in Run,
         run' = [run EXCEPT ![r] = x], UNCHANGED <<seq, gate, limit>>,
         x.name = run[r].name, x.key = run[r].key,
         x.status = "running" <=> x.at \in {"new", "waiting", "working"},
         \/ x.at = run[r].at /\ x.held = run[r].held
         \/ x.at = "ended" /\ run[r].at \notin Queued
  PROVE  Inv'
<1>0. TypeOK /\ RunOK(r)
    BY DEF Inv
<1>1. /\ run' \in [Ids -> Run \cup {NoRun}] /\ seq' \in 0 .. MaxSeq
      /\ NoOverlap' /\ \A s \in Ids : RunOK(s)'
  <2>1. x.at \in {"new", "waiting", "working"} => Alive(r)
      BY DEF Alive
  <2>2. x.at \in Queued => x.held \in DOMAIN gate'
      BY <1>0 DEF RunOK, Queued
  <2>3. QED
      BY <2>1, <2>2, RunStep
<1>2. TypeOK'
    BY <1>0, <1>1 DEF TypeOK
<1>3. ASSUME NEW g \in DOMAIN gate PROVE Holders(g)' = Holders(g) /\ Waiters(g)' = Waiters(g)
  <2>1. run'[r] = x /\ \A s \in Ids \ {r} : run'[s] = run[s]
      BY <1>0 DEF TypeOK
  <2>2. \A s \in Ids : /\ run'[s].at = "working" <=> run[s].at = "working"
                       /\ run'[s].at = "waiting" <=> run[s].at = "waiting"
                       /\ run[s].at \in Queued => run'[s].held = run[s].held
      BY <2>1 DEF Queued
  <2>3. QED
      BY <2>2 DEF Holders, Waiters, Working, Queued
<1>4. \A g \in DOMAIN gate : SlotsOK(gate[g], Holders(g), Waiters(g))'
    BY <1>3 DEF Inv
<1>5. (NeedsGate => Len(gate) < MaxGates)'
    BY DEF Inv, NeedsGate
<1>6. QED
    BY <1>1, <1>2, <1>4, <1>5 DEF Inv

\* A step of one run that takes, gives, joins or leaves at the gate g; gs is the gates
\* with a new one, if it needed that.
LEMMA GateStep ==
  ASSUME Inv, NEW r \in Ids, run[r].at # "none", NEW x \in Run,
         run' = [run EXCEPT ![r] = x], UNCHANGED <<seq, limit>>,
         x.name = run[r].name, x.key = run[r].key,
         x.at \in {"new", "waiting", "working"} => Alive(r),
         x.status = "running" <=> x.at \in {"new", "waiting", "working"},
         NEW gs \in Seq(Gate), Len(gs) <= MaxGates, DOMAIN gate \subseteq DOMAIN gs,
         \A h \in DOMAIN gs : SlotsOK(gs[h], Holders(h), Waiters(h)),
         gs = gate \/ Last(gs).size = limit,
         NEW g \in DOMAIN gs, NEW G, Replaces(gs, g, G),
         run[r].at \in Queued => run[r].held = g, x.at \in Queued => x.held = g,
         SlotsOK(G, Holders(g)', Waiters(g)')
  PROVE  Inv'
<1>0. TypeOK /\ G \in Gate
    BY DEF Inv, SlotsOK
<1>1. /\ gate' \in Seq(Gate) /\ Len(gate') = Len(gs) /\ DOMAIN gate' = DOMAIN gs /\ gate' # <<>>
      /\ Last(gate').size = Last(gs).size
      /\ \A h \in DOMAIN gs : gate'[h] = IF h = g THEN G ELSE gs[h]
    BY DEF Replaces
<1>2. /\ run' \in [Ids -> Run \cup {NoRun}] /\ seq' \in 0 .. MaxSeq
      /\ NoOverlap' /\ \A s \in Ids : RunOK(s)'
    BY <1>1, RunStep
<1>3. TypeOK'
    BY <1>0, <1>1, <1>2 DEF TypeOK
<1>4. ASSUME NEW h \in DOMAIN gate' PROVE SlotsOK(gate[h], Holders(h), Waiters(h))'
  <2>1. CASE h = g
      BY <1>1, <2>1
  <2>2. CASE h # g
    <3>1. Holders(h)' = Holders(h) /\ Waiters(h)' = Waiters(h)
        BY <1>0, <2>2, OneGate
    <3>2. SlotsOK(gate'[h], Holders(h), Waiters(h))
        BY <1>1, <2>2
    <3>3. QED
        BY <3>1, <3>2
  <2>3. QED
      BY <2>1, <2>2
<1>5. (NeedsGate => Len(gate) < MaxGates)'
  <2>1. CASE gs = gate
    <3>1. gate # <<>>
        BY <2>1
    <3>2. QED
        BY <1>1, <2>1, <3>1 DEF NeedsGate, Inv
  <2>2. CASE Last(gs).size = limit
      BY <1>1, <2>2 DEF NeedsGate
  <2>3. QED
      BY <2>1, <2>2
<1>6. QED
    BY <1>2, <1>3, <1>4, <1>5 DEF Inv

\* The gates with a new one, before anybody has asked it for a slot.
LEMMA WithGateOK ==
  ASSUME Inv
  PROVE  /\ WithGate \in Seq(Gate) /\ Len(WithGate) <= MaxGates /\ Len(WithGate) \in DOMAIN WithGate
         /\ DOMAIN gate \subseteq DOMAIN WithGate /\ Last(WithGate).size = limit
         /\ \A h \in DOMAIN WithGate : SlotsOK(WithGate[h], Holders(h), Waiters(h))
<1>0. /\ gate \in Seq(Gate) /\ Len(gate) <= MaxGates /\ limit \in Sizes
      /\ \A h \in DOMAIN gate : SlotsOK(gate[h], Holders(h), Waiters(h))
      /\ Len(gate) \in Nat /\ DOMAIN gate = 1 .. Len(gate)
    BY LenProperties DEF Inv, TypeOK
<1>1. CASE ~NeedsGate
  <2>1. gate # <<>> /\ Last(gate).size = limit /\ WithGate = gate
      BY <1>1 DEF NeedsGate, WithGate
  <2>2. Len(gate) \in DOMAIN gate
    <3>1. Len(gate) # 0
        BY <1>0, <2>1, EmptySeq
    <3>2. QED
        BY <1>0, <3>1
  <2>3. QED
      BY <1>0, <2>1, <2>2
<1>2. CASE NeedsGate
  <2> DEFINE new == [size |-> limit, free |-> limit, line |-> <<>>]
             n == Len(gate) + 1
  <2>1. SlotsOK(new, {}, {}) /\ new.size = limit
      BY <1>0, NewGateOK
  <2>2. new \in Gate
      BY <2>1 DEF SlotsOK
  <2> HIDE DEF new
  <2>3. WithGate = Append(gate, new)
      BY <1>2 DEF WithGate, new
  <2>4. /\ WithGate \in Seq(Gate) /\ Len(WithGate) = n /\ WithGate[n] = new
        /\ \A h \in 1 .. Len(gate) : WithGate[h] = gate[h]
      BY <1>0, <2>2, <2>3, AppendProperties
  <2>5. DOMAIN WithGate = 1 .. n /\ n \in DOMAIN WithGate /\ n \notin DOMAIN gate
      BY <1>0, <2>4, LenProperties
  <2>6. n <= MaxGates
      BY <1>0, <1>2, RuntimeAssumption DEF Inv
  <2>7. Holders(n) = {} /\ Waiters(n) = {}
    <3>1. \A s \in Ids : run[s].at \in Queued => run[s].held # n
        BY <2>5 DEF Inv, RunOK
    <3>2. QED
        BY <3>1 DEF Holders, Waiters, Working, Queued
  <2>8. ASSUME NEW h \in DOMAIN WithGate PROVE SlotsOK(WithGate[h], Holders(h), Waiters(h))
    <3>1. CASE h = n
        BY <2>1, <2>4, <2>7, <3>1
    <3>2. CASE h # n
      <4>1. h \in DOMAIN gate /\ WithGate[h] = gate[h]
          BY <1>0, <2>4, <2>5, <3>2
      <4>2. QED
          BY <1>0, <4>1
    <3>3. QED
        BY <3>1, <3>2
  <2>9. Last(WithGate).size = limit
      BY <2>1, <2>4 DEF Last
  <2>10. QED
      BY <1>0, <2>4, <2>5, <2>6, <2>8, <2>9
<1>3. QED
    BY <1>1, <1>2

-----------------------------------------------------------------------------
(* The steps *)

\* The run that a step concerns, and what it makes of it.
LEMMA EndedRun ==
  ASSUME Inv, NEW r \in Ids, run[r].at # "none", NEW end \in {"done", "failed", "cancelled"}
  PROVE  \E x \in Run : /\ Ended(r, end) = [run EXCEPT ![r] = x]
                        /\ x.name = run[r].name /\ x.key = run[r].key
                        /\ x.at = "ended" /\ x.status = end
<1> DEFINE x == [run[r] EXCEPT !.status = end, !.at = "ended", !.held = 0]
<1>1. run[r] \in Run
    BY RunType DEF Inv
<1>2. /\ x \in Run /\ x.name = run[r].name /\ x.key = run[r].key
      /\ x.at = "ended" /\ x.status = end
  <2>1. 0 \in 0 .. MaxGates
      BY RuntimeAssumption
  <2>2. QED
      BY <1>1, <2>1 DEF Run
<1>3. Ended(r, end) = [run EXCEPT ![r] = x]
    BY DEF Ended, Inv, TypeOK
<1> HIDE DEF x
<1>4. QED
    BY <1>2, <1>3

LEMMA WorkEndsInv == ASSUME Inv, NEW r \in Ids, WorkEnds(r) PROVE Inv'
<1>1. /\ run[r].at = "working" /\ gate' = Gives(gate, run[r].held) /\ UNCHANGED <<seq, limit>>
    BY DEF WorkEnds
<1>2. PICK end \in {"done", "failed"} : run' = Ended(r, end)
    BY DEF WorkEnds
<1>3. PICK x \in Run : /\ run' = [run EXCEPT ![r] = x]
                       /\ x.name = run[r].name /\ x.key = run[r].key
                       /\ x.at = "ended" /\ x.status = end
    BY <1>1, <1>2, EndedRun
<1>4. /\ TypeOK /\ gate \in Seq(Gate) /\ Len(gate) <= MaxGates /\ run[r].held \in DOMAIN gate
      /\ \A h \in DOMAIN gate : SlotsOK(gate[h], Holders(h), Waiters(h))
    BY <1>1 DEF Inv, TypeOK, RunOK, Queued
<1>5. PICK g \in DOMAIN gate : g = run[r].held
    BY <1>4
<1> DEFINE G == [gate[g] EXCEPT !.free = @ + 1]
<1>6. r \in Holders(g) /\ r \notin Waiters(g)
    BY <1>1, <1>5 DEF Holders, Waiters, Working
<1>7. SlotsOK(G, Holders(g) \ {r}, Waiters(g))
    BY <1>4, <1>6, Slots, GiveOK
<1>8. Replaces(gate, g, G)
  <2>1. G \in Gate /\ G.size = gate[g].size
      BY <1>4, <1>7 DEF SlotsOK, Gate
  <2>2. gate' = [gate EXCEPT ![g] = G]
      BY <1>1, <1>5 DEF Gives
  <2> HIDE DEF G
  <2>3. QED
      BY <1>4, <2>1, <2>2, GateSet
<1> HIDE DEF G
<1>9. Holders(g)' = Holders(g) \ {r} /\ Waiters(g)' = Waiters(g) \ {r}
    BY <1>3, <1>4, <1>5, OneGate DEF Queued
<1>10. SlotsOK(G, Holders(g)', Waiters(g)')
  <2>1. Waiters(g)' = Waiters(g)
      BY <1>6, <1>9
  <2>2. QED
      BY <1>7, <1>9, <2>1
<1>11. /\ x.at \notin Queued /\ run[r].at # "none"
       /\ x.at \in {"new", "waiting", "working"} => Alive(r)
       /\ x.status = "running" <=> x.at \in {"new", "waiting", "working"}
       /\ run[r].at \in Queued => run[r].held = g
       /\ x.at \in Queued => x.held = g
    BY <1>1, <1>2, <1>3, <1>5 DEF Queued
<1>12. QED
    BY <1>1, <1>3, <1>4, <1>5, <1>8, <1>10, <1>11, GateStep

LEMMA CancelledInv == ASSUME Inv, NEW r \in Ids, Cancelled(r) PROVE Inv'
<1>1. /\ run[r].at \in Queued /\ run' = Ended(r, "cancelled") /\ UNCHANGED <<seq, limit>>
      /\ gate' = IF run[r].at = "waiting" THEN Leaves(gate, run[r].held, r)
                 ELSE Gives(gate, run[r].held)
    BY DEF Cancelled, Queued
<1>2. run[r].at # "none"
    BY <1>1 DEF Queued
<1>3. PICK x \in Run : /\ run' = [run EXCEPT ![r] = x]
                       /\ x.name = run[r].name /\ x.key = run[r].key
                       /\ x.at = "ended" /\ x.status = "cancelled"
    BY <1>1, <1>2, EndedRun
<1>4. /\ TypeOK /\ gate \in Seq(Gate) /\ Len(gate) <= MaxGates /\ run[r].held \in DOMAIN gate
      /\ \A h \in DOMAIN gate : SlotsOK(gate[h], Holders(h), Waiters(h))
    BY <1>1 DEF Inv, TypeOK, RunOK
<1>5. PICK g \in DOMAIN gate : g = run[r].held
    BY <1>4
<1>6. Holders(g)' = Holders(g) \ {r} /\ Waiters(g)' = Waiters(g) \ {r}
    BY <1>3, <1>4, <1>5, OneGate DEF Queued
<1>7. /\ x.at \notin Queued
      /\ x.at \in {"new", "waiting", "working"} => Alive(r)
      /\ x.status = "running" <=> x.at \in {"new", "waiting", "working"}
      /\ run[r].at \in Queued => run[r].held = g
      /\ x.at \in Queued => x.held = g
    BY <1>3, <1>5 DEF Queued
<1>8. CASE run[r].at = "waiting"
  <2> DEFINE G == [gate[g] EXCEPT !.line = RemoveAt(@, Place(@, r))]
  <2>1. r \in Waiters(g) /\ r \notin Holders(g)
      BY <1>5, <1>8 DEF Holders, Waiters, Working
  <2>2. SlotsOK(G, Holders(g), Waiters(g) \ {r})
      BY <1>4, <2>1, Slots, LeaveOK
  <2>3. G \in Gate /\ G.size = gate[g].size
      BY <1>4, <2>2 DEF SlotsOK, Gate
  <2>4. gate' = [gate EXCEPT ![g] = G]
      BY <1>1, <1>5, <1>8 DEF Leaves
  <2> HIDE DEF G
  <2>5. Replaces(gate, g, G)
      BY <1>4, <2>3, <2>4, GateSet
  <2>6. SlotsOK(G, Holders(g)', Waiters(g)')
    <3>1. Holders(g)' = Holders(g)
        BY <1>6, <2>1
    <3>2. QED
        BY <1>6, <2>2, <3>1
  <2>7. QED
      BY <1>1, <1>2, <1>3, <1>4, <1>5, <1>7, <2>5, <2>6, GateStep
<1>9. CASE run[r].at = "working"
  <2> DEFINE G == [gate[g] EXCEPT !.free = @ + 1]
  <2>1. r \in Holders(g) /\ r \notin Waiters(g)
      BY <1>5, <1>9 DEF Holders, Waiters, Working
  <2>2. SlotsOK(G, Holders(g) \ {r}, Waiters(g))
      BY <1>4, <2>1, Slots, GiveOK
  <2>3. G \in Gate /\ G.size = gate[g].size
      BY <1>4, <2>2 DEF SlotsOK, Gate
  <2>4. gate' = [gate EXCEPT ![g] = G]
      BY <1>1, <1>5, <1>9 DEF Gives
  <2> HIDE DEF G
  <2>5. Replaces(gate, g, G)
      BY <1>4, <2>3, <2>4, GateSet
  <2>6. SlotsOK(G, Holders(g)', Waiters(g)')
    <3>1. Waiters(g)' = Waiters(g)
        BY <1>6, <2>1
    <3>2. QED
        BY <1>6, <2>2, <3>1
  <2>7. QED
      BY <1>1, <1>2, <1>3, <1>4, <1>5, <1>7, <2>5, <2>6, GateStep
<1>10. QED
    BY <1>1, <1>8, <1>9 DEF Queued

LEMMA BeginInv == ASSUME Inv, NEW r \in Ids, Begin(r) PROVE Inv'
<1>1. /\ WithGate \in Seq(Gate) /\ Len(WithGate) <= MaxGates
      /\ Len(WithGate) \in DOMAIN WithGate
      /\ DOMAIN gate \subseteq DOMAIN WithGate /\ Last(WithGate).size = limit
      /\ \A h \in DOMAIN WithGate : SlotsOK(WithGate[h], Holders(h), Waiters(h))
    BY WithGateOK
<1>2. PICK g \in DOMAIN WithGate : g = Len(WithGate)
    BY <1>1
<1> DEFINE locked == WithGate[g].free = 0 \/ WithGate[g].line # <<>>
           to == IF locked THEN "waiting" ELSE "working"
<1>3. /\ run[r].at = "new" /\ UNCHANGED <<seq, limit>>
      /\ gate' = IF locked THEN Joins(WithGate, g, r) ELSE Takes(WithGate, g)
      /\ run' = [run EXCEPT ![r].at = to, ![r].held = g]
    BY <1>2 DEF Begin
<1>4. g \in 0 .. MaxGates
    BY <1>1, <1>2, LenProperties, RuntimeAssumption
<1>5. to \in Queued /\ (to = "waiting" <=> locked) /\ (to = "working" <=> ~locked)
    BY DEF Queued
<1>6. PICK x \in Run : /\ run' = [run EXCEPT ![r] = x]
                       /\ x.name = run[r].name /\ x.key = run[r].key
                       /\ x.at = to /\ x.held = g /\ x.status = "running"
  <2> HIDE DEF to, locked
  <2> DEFINE y == [run[r] EXCEPT !.at = to, !.held = g]
  <2>1. run[r] \in Run /\ run[r].status = "running"
      BY <1>3, RunType DEF Inv, RunOK, Running, Alive
  <2>2. /\ y \in Run /\ y.name = run[r].name /\ y.key = run[r].key
        /\ y.at = to /\ y.held = g /\ y.status = "running"
      BY <1>4, <1>5, <2>1 DEF Run, Queued
  <2>3. run' = [run EXCEPT ![r] = y]
      BY <1>3
  <2> HIDE DEF y
  <2>4. QED
      BY <2>2, <2>3
<1>7. r \notin Holders(g) /\ r \notin Waiters(g) /\ run[r].at \notin Queued /\ run[r].at # "none"
    BY <1>3 DEF Holders, Waiters, Working, Queued
<1>8. /\ x.at \in Queued => x.held = g
      /\ run[r].at \in Queued => run[r].held = g
      /\ x.at \in {"new", "waiting", "working"} => Alive(r)
      /\ x.status = "running" <=> x.at \in {"new", "waiting", "working"}
    BY <1>3, <1>5, <1>6, <1>7 DEF Queued, Alive
<1>9. /\ Holders(g)' = IF x.at = "working" THEN Holders(g) \cup {r} ELSE Holders(g) \ {r}
      /\ Waiters(g)' = IF x.at = "waiting" THEN Waiters(g) \cup {r} ELSE Waiters(g) \ {r}
    BY <1>6, <1>7, <1>8, OneGate DEF Inv
<1>10. ASSUME NEW G, SlotsOK(G, Holders(g)', Waiters(g)'), Replaces(WithGate, g, G) PROVE Inv'
    BY <1>1, <1>3, <1>6, <1>7, <1>8, <1>10, GateStep
<1>11. CASE locked
  <2> DEFINE G == [WithGate[g] EXCEPT !.line = Append(@, r)]
  <2>1. SlotsOK(G, Holders(g), Waiters(g) \cup {r})
      BY <1>1, <1>7, Slots, JoinOK
  <2>2. G \in Gate /\ G.size = WithGate[g].size
      BY <1>1, <2>1 DEF SlotsOK, Gate
  <2>3. gate' = [WithGate EXCEPT ![g] = G]
      BY <1>3, <1>11 DEF Joins
  <2>4. Holders(g)' = Holders(g) /\ Waiters(g)' = Waiters(g) \cup {r}
      BY <1>5, <1>6, <1>7, <1>9, <1>11
  <2> HIDE DEF G, locked, to
  <2>5. Replaces(WithGate, g, G)
      BY <1>1, <2>2, <2>3, GateSet
  <2>6. SlotsOK(G, Holders(g)', Waiters(g)')
      BY <2>1, <2>4
  <2>7. QED
      BY <1>10, <2>5, <2>6
<1>12. CASE ~locked
  <2> DEFINE G == [WithGate[g] EXCEPT !.free = @ - 1]
  <2>1. WithGate[g].free > 0
      BY <1>1, <1>12 DEF SlotsOK, Gate
  <2>2. SlotsOK(G, Holders(g) \cup {r}, Waiters(g))
      BY <1>1, <1>7, <2>1, Slots, TakeOK
  <2>3. G \in Gate /\ G.size = WithGate[g].size
      BY <1>1, <2>2 DEF SlotsOK, Gate
  <2>4. gate' = [WithGate EXCEPT ![g] = G]
      BY <1>3, <1>12 DEF Takes
  <2>5. Holders(g)' = Holders(g) \cup {r} /\ Waiters(g)' = Waiters(g)
      BY <1>5, <1>6, <1>7, <1>9, <1>12
  <2> HIDE DEF G, locked, to
  <2>6. Replaces(WithGate, g, G)
      BY <1>1, <2>3, <2>4, GateSet
  <2>7. SlotsOK(G, Holders(g)', Waiters(g)')
      BY <2>2, <2>5
  <2>8. QED
      BY <1>10, <2>6, <2>7
<1>13. QED
    BY <1>11, <1>12

LEMMA TakesSlotInv == ASSUME Inv, NEW r \in Ids, TakesSlot(r) PROVE Inv'
<1>1. /\ run[r].at = "waiting" /\ gate[run[r].held].free > 0
      /\ gate' = Takes(Leaves(gate, run[r].held, r), run[r].held)
      /\ run' = [run EXCEPT ![r].at = "working"] /\ UNCHANGED <<seq, limit>>
    BY DEF TakesSlot
<1>2. /\ TypeOK /\ gate \in Seq(Gate) /\ Len(gate) <= MaxGates /\ run[r].held \in DOMAIN gate
      /\ \A h \in DOMAIN gate : SlotsOK(gate[h], Holders(h), Waiters(h))
    BY <1>1 DEF Inv, TypeOK, RunOK, Queued
<1>3. PICK g \in DOMAIN gate : g = run[r].held
    BY <1>2
<1>4. run[r] \in Run /\ run[r].status = "running"
    BY <1>1, RunType DEF Inv, RunOK, Running, Alive
<1>5. PICK x \in Run : /\ run' = [run EXCEPT ![r] = x]
                       /\ x.name = run[r].name /\ x.key = run[r].key
                       /\ x.at = "working" /\ x.held = g /\ x.status = "running"
  <2> DEFINE y == [run[r] EXCEPT !.at = "working"]
  <2>1. /\ y \in Run /\ y.name = run[r].name /\ y.key = run[r].key
        /\ y.at = "working" /\ y.held = g /\ y.status = "running"
      BY <1>3, <1>4 DEF Run
  <2>2. run' = [run EXCEPT ![r] = y]
      BY <1>1
  <2> HIDE DEF y
  <2>3. QED
      BY <2>1, <2>2
<1>6. r \in Waiters(g) /\ r \notin Holders(g)
    BY <1>1, <1>3 DEF Holders, Waiters, Working
<1>7. /\ run[r].at # "none"
      /\ x.at \in Queued => x.held = g
      /\ run[r].at \in Queued => run[r].held = g
      /\ x.at \in {"new", "waiting", "working"} => Alive(r)
      /\ x.status = "running" <=> x.at \in {"new", "waiting", "working"}
    BY <1>1, <1>3, <1>5 DEF Alive
<1>8. Holders(g)' = Holders(g) \cup {r} /\ Waiters(g)' = Waiters(g) \ {r}
    BY <1>2, <1>5, <1>7, OneGate
<1> DEFINE L == [gate[g] EXCEPT !.line = RemoveAt(@, Place(@, r))]
           G == [L EXCEPT !.free = @ - 1]
<1>9. SlotsOK(L, Holders(g), Waiters(g) \ {r})
    BY <1>2, <1>6, Slots, LeaveOK
<1>10. L.free > 0 /\ L \in Gate /\ L.size = gate[g].size
    BY <1>1, <1>2, <1>3, <1>9 DEF SlotsOK, Gate
<1>11. gate' = [gate EXCEPT ![g] = G]
  <2>1. Leaves(gate, g, r) = [gate EXCEPT ![g] = L]
      BY DEF Leaves
  <2> HIDE DEF L
  <2>2. gate' = [[gate EXCEPT ![g] = L] EXCEPT ![g].free = @ - 1]
      BY <1>1, <1>3, <2>1 DEF Takes
  <2>3. QED
      BY <2>2
<1> HIDE DEF L
<1>12. SlotsOK(G, Holders(g)', Waiters(g)')
  <2>1. SlotsOK(G, Holders(g) \cup {r}, Waiters(g) \ {r})
      BY <1>6, <1>9, <1>10, Slots, TakeOK
  <2> HIDE DEF G
  <2>2. QED
      BY <1>8, <2>1
<1>13. G \in Gate /\ G.size = gate[g].size
    BY <1>10, <1>12 DEF SlotsOK, Gate
<1> HIDE DEF G
<1>14. Replaces(gate, g, G)
    BY <1>2, <1>11, <1>13, GateSet
<1>15. QED
    BY <1>1, <1>2, <1>5, <1>7, <1>12, <1>14, GateStep

LEMMA CancelledBeforeItBeganInv ==
  ASSUME Inv, NEW r \in Ids, CancelledBeforeItBegan(r) PROVE Inv'
<1>1. /\ run[r].at = "new" /\ run' = Ended(r, "cancelled") /\ UNCHANGED <<seq, gate, limit>>
    BY DEF CancelledBeforeItBegan
<1>2. PICK x \in Run : /\ run' = [run EXCEPT ![r] = x]
                       /\ x.name = run[r].name /\ x.key = run[r].key
                       /\ x.at = "ended" /\ x.status = "cancelled"
    BY <1>1, EndedRun
<1>3. QED
    BY <1>1, <1>2, QuietStep DEF Queued

\* The clicks and the time leave a run where it is.
LEMMA MarkedInv ==
  ASSUME Inv, NEW r \in Ids, Stop(r) \/ Park(r) \/ Unpark(r) \/ Ages(r) PROVE Inv'
<1>1. /\ UNCHANGED <<seq, gate, limit>> /\ run[r] # NoRun
      /\ \E stop, parked \in BOOLEAN, age \in {"fresh", "old", "ancient"} :
           run' = [run EXCEPT ![r] = [@ EXCEPT !.stop = stop, !.parked = parked, !.age = age]]
  <2>1. CASE Stop(r) \/ Park(r)
    <3>1. run[r] # NoRun
        BY <2>1 DEF Stop, Park, Running, NoRun
    <3>2. run[r] \in Run
        BY <3>1, RunType DEF Inv
    <3>3. CASE Stop(r)
      <4>1. run' = [run EXCEPT ![r] = [@ EXCEPT !.stop = TRUE, !.parked = run[r].parked,
                                                !.age = run[r].age]]
          BY <3>2, <3>3 DEF Stop, Run, Inv, TypeOK
      <4>2. QED
          BY <3>1, <3>2, <3>3, <4>1 DEF Stop, Run
    <3>4. CASE Park(r)
      <4>1. run' = [run EXCEPT ![r] = [@ EXCEPT !.stop = run[r].stop, !.parked = TRUE,
                                                !.age = run[r].age]]
          BY <3>2, <3>4 DEF Park, Run, Inv, TypeOK
      <4>2. QED
          BY <3>1, <3>2, <3>4, <4>1 DEF Park, Run
    <3>5. QED
        BY <2>1, <3>3, <3>4
  <2>2. CASE Unpark(r) \/ Ages(r)
    <3>1. run[r] # NoRun
        BY <2>2 DEF Unpark, Ages, Listed
    <3>2. run[r] \in Run
        BY <3>1, RunType DEF Inv
    <3>3. CASE Unpark(r)
      <4>1. run' = [run EXCEPT ![r] = [@ EXCEPT !.stop = run[r].stop, !.parked = FALSE,
                                                !.age = run[r].age]]
          BY <3>2, <3>3 DEF Unpark, Run, Inv, TypeOK
      <4>2. QED
          BY <3>1, <3>2, <3>3, <4>1 DEF Unpark, Run
    <3>4. CASE Ages(r)
      <4>1. run' = [run EXCEPT ![r] = [@ EXCEPT !.stop = run[r].stop, !.parked = run[r].parked,
                                      !.age = IF run[r].age = "fresh" THEN "old" ELSE "ancient"]]
          BY <3>2, <3>4 DEF Ages, Run, Inv, TypeOK
      <4>2. QED
          BY <3>1, <3>2, <3>4, <4>1 DEF Ages, Run
    <3>5. QED
        BY <2>2, <3>3, <3>4
  <2>3. QED
      BY <2>1, <2>2
<1>2. PICK stop \in BOOLEAN, parked \in BOOLEAN, age \in {"fresh", "old", "ancient"} :
         run' = [run EXCEPT ![r] = [@ EXCEPT !.stop = stop, !.parked = parked, !.age = age]]
    BY <1>1
<1> DEFINE x == [run[r] EXCEPT !.stop = stop, !.parked = parked, !.age = age]
<1>3. run[r] \in Run /\ RunOK(r)
    BY <1>1, RunType DEF Inv
<1>4. /\ x \in Run /\ x.name = run[r].name /\ x.key = run[r].key /\ x.at = run[r].at
      /\ x.held = run[r].held /\ x.status = run[r].status /\ run[r].at # "none"
    BY <1>3 DEF Run
<1>5. run' = [run EXCEPT ![r] = x]
    BY <1>2
<1> HIDE DEF x
<1>6. x.status = "running" <=> x.at \in {"new", "waiting", "working"}
    BY <1>3, <1>4 DEF RunOK, Running, Alive
<1>7. QED
    BY <1>1, <1>4, <1>5, <1>6, QuietStep

LEMMA EditLimitInv == ASSUME Inv, NEW n \in Sizes, EditLimit(n) PROVE Inv'
<1>1. Len(gate) < MaxGates /\ limit' = n /\ UNCHANGED <<run, seq, gate>>
    BY DEF EditLimit
<1>2. TypeOK' /\ NoOverlap' /\ \A r \in Ids : RunOK(r)'
    BY <1>1 DEF Inv, TypeOK, NoOverlap, RunOK, Running, Alive
<1>3. \A g \in DOMAIN gate : SlotsOK(gate[g], Holders(g), Waiters(g))'
    BY <1>1 DEF Inv, Holders, Waiters, Working
<1>4. QED
    BY <1>1, <1>2, <1>3 DEF Inv

LEMMA KeptOK ==
  ASSUME Inv, NEW r \in Ids
  PROVE  /\ Listed(r) /\ ~Evictable(r) => r \in Kept
         /\ Alive(r) => r \in Kept
<1>1. Listed(r) /\ ~Evictable(r) => r \in Kept
    BY DEF Kept
<1>2. Alive(r) => Listed(r) /\ ~Evictable(r)
  <2>1. RunOK(r)
      BY DEF Inv
  <2>2. QED
      BY <2>1 DEF RunOK, Evictable, Listed, Running, Alive, NoRun
<1>3. QED
    BY <1>1, <1>2

\* The one step that adds a run, and the one that drops any.
LEMMA StartRunInv ==
  ASSUME Inv, NEW c \in Clicks, StartRun(c[1], c[2]) PROVE Inv'
<1> DEFINE new == NewRun(c[1], c[2])
<1>0. TypeOK /\ NoOverlap /\ \A r \in Ids : RunOK(r)
    BY DEF Inv
<1>1. /\ seq < MaxSeq /\ seq' = seq + 1 /\ UNCHANGED <<gate, limit>>
      /\ \A r \in Ids : ~InFlight(r, c[1]) /\ ~InFlightKeyed(r, c[1], c[2])
      /\ run' = [r \in Ids |-> IF r = seq + 1 THEN new ELSE IF r \in Kept THEN run[r] ELSE NoRun]
    BY DEF StartRun
<1>2. /\ new \in Run /\ new.name = c[1] /\ new.key = c[2] /\ new.at = "new"
      /\ new.status = "running" /\ new # NoRun
  <2>1. 0 \in 0 .. MaxGates /\ c[1] \in Names /\ c[2] \in Keys
      BY RuntimeAssumption DEF Names, Keys
  <2>2. QED
      BY <2>1 DEF NewRun, Run, NoRun
<1> HIDE DEF new
<1>3. seq \in 0 .. MaxSeq /\ seq' \in 0 .. MaxSeq /\ seq + 1 \in Ids /\ run[seq + 1] = NoRun
  <2>1. seq \in Nat /\ seq <= MaxSeq /\ MaxSeq \in Nat
      BY <1>0, RuntimeAssumption DEF TypeOK
  <2>2. seq' \in 0 .. MaxSeq /\ seq + 1 \in Ids /\ seq + 1 > seq
      BY <1>1, <2>1 DEF Ids
  <2>3. QED
      BY <1>0, <2>1, <2>2 DEF RunOK
<1>4. /\ run'[seq + 1] = new
      /\ \A r \in Ids : r # seq + 1 => run'[r] = run[r] \/ run'[r] = NoRun
      /\ \A r \in Ids : Alive(r) => r # seq + 1 /\ run'[r] = run[r]
  <2>1. \A r \in Ids : Alive(r) => r # seq + 1
      BY <1>3 DEF Alive, NoRun
  <2>2. QED
      BY <1>1, <1>3, <2>1, KeptOK
<1>5. run' \in [Ids -> Run \cup {NoRun}]
    BY <1>0, <1>1, <1>2 DEF TypeOK
<1>6. TypeOK'
    BY <1>0, <1>1, <1>3, <1>5 DEF TypeOK
<1>7. \A r \in Ids : Alive(r)' => r = seq + 1 \/ (Alive(r) /\ run'[r] = run[r])
    BY <1>4 DEF Alive, NoRun
<1>8. ASSUME NEW r \in Ids PROVE RunOK(r)'
  <2>1. RunOK(r) /\ r \in Nat /\ seq \in Nat
      BY <1>0, <1>3, RuntimeAssumption DEF Ids
  <2>2. CASE r = seq + 1
      BY <1>1, <1>2, <1>4, <2>1, <2>2 DEF RunOK, Running, Alive, Queued
  <2>3. CASE r # seq + 1 /\ run'[r] = run[r]
      BY <1>1, <2>1, <2>3 DEF RunOK, Running, Alive
  <2>4. CASE r # seq + 1 /\ run'[r] = NoRun
      BY <2>4 DEF RunOK, Running, Alive, Queued, NoRun
  <2>5. QED
      BY <1>4, <2>2, <2>3, <2>4
<1>9. NoOverlap'
  <2>1. ASSUME NEW s \in Ids, Alive(s)
        PROVE  /\ Running(s) /\ run[s].name \in Names
               /\ ~(c[1] \in SINGLE_FLIGHT /\ FlightGroup(run[s].name) = FlightGroup(c[1]))
               /\ ~(c[2] # NoKey /\ run[s].name = c[1] /\ run[s].key = c[2])
    <3>1. Running(s)
        BY <1>0, <2>1 DEF RunOK
    <3>2. run[s] \in Run
        BY <1>0, <2>1, RunType DEF Alive
    <3>3. QED
        BY <1>1, <3>1, <3>2 DEF InFlight, InFlightKeyed, Run
  <2>2. \A n \in Names : n # "scoring"
      BY RuntimeAssumption DEF Names
  <2>3. \A m, n \in Names : m \in SINGLE_FLIGHT /\ FlightGroup(m) = FlightGroup(n)
                              => n \in SINGLE_FLIGHT
      BY <2>2 DEF SINGLE_FLIGHT, FlightGroup
  <2>4. c[1] \in Names
      BY DEF Names
  <2>5. ASSUME NEW r \in Ids, NEW s \in Ids, Alive(r)', Alive(s)', r # s,
               \/ /\ run'[r].name \in SINGLE_FLIGHT
                  /\ FlightGroup(run'[r].name) = FlightGroup(run'[s].name)
               \/ run'[r].key # NoKey /\ run'[r].key = run'[s].key /\ run'[r].name = run'[s].name
        PROVE  FALSE
    <3>1. CASE r = seq + 1
      <4>1. Alive(s) /\ run'[s] = run[s] /\ run'[r] = new
          BY <1>4, <1>7, <2>5, <3>1
      <4>2. QED
          BY <1>2, <2>1, <2>5, <4>1
    <3>2. CASE s = seq + 1
      <4>1. Alive(r) /\ run'[r] = run[r] /\ run'[s] = new
          BY <1>4, <1>7, <2>5, <3>2
      <4>2. run[r].name \in Names
          BY <2>1, <4>1
      <4>3. QED
          BY <1>2, <2>1, <2>3, <2>4, <2>5, <4>1, <4>2
    <3>3. CASE r # seq + 1 /\ s # seq + 1
      <4>1. /\ Alive(r) /\ run'[r] = run[r]
            /\ Alive(s) /\ run'[s] = run[s]
          BY <1>7, <2>5, <3>3
      <4>2. QED
          BY <1>0, <2>5, <4>1 DEF NoOverlap
    <3>4. QED
        BY <3>1, <3>2, <3>3
  <2>6. QED
      BY <2>5 DEF NoOverlap
<1>10. ASSUME NEW g \in DOMAIN gate PROVE Holders(g)' = Holders(g) /\ Waiters(g)' = Waiters(g)
  <2>1. \A r \in Ids : /\ run'[r].at = "working" <=> run[r].at = "working"
                       /\ run'[r].at = "waiting" <=> run[r].at = "waiting"
                       /\ run[r].at \in Queued => run'[r].held = run[r].held
    <3>1. ASSUME NEW r \in Ids, run[r].at \in Queued PROVE run'[r] = run[r]
        BY <1>4, <3>1 DEF Alive, Queued
    <3>2. ASSUME NEW r \in Ids, run'[r].at \in Queued PROVE run'[r] = run[r]
        BY <1>2, <1>4, <3>2 DEF Queued, NoRun
    <3>3. QED
        BY <3>1, <3>2 DEF Queued
  <2>2. QED
      BY <2>1 DEF Holders, Waiters, Working, Queued
<1>11. \A g \in DOMAIN gate : SlotsOK(gate[g], Holders(g), Waiters(g))'
    BY <1>1, <1>10 DEF Inv
<1>12. (NeedsGate => Len(gate) < MaxGates)'
    BY <1>1 DEF Inv, NeedsGate
<1>13. QED
    BY <1>1, <1>6, <1>8, <1>9, <1>11, <1>12 DEF Inv

-----------------------------------------------------------------------------
LEMMA InitInv == Init => Inv
<1> SUFFICES ASSUME Init PROVE Inv
    OBVIOUS
<1>1. /\ run = [r \in Ids |-> NoRun] /\ seq = 0 /\ gate = <<>> /\ limit \in Sizes
    BY DEF Init
<1>2. gate \in Seq(Gate) /\ Len(gate) = 0 /\ DOMAIN gate = {}
    BY <1>1
<1>3. TypeOK
    BY <1>1, <1>2, RuntimeAssumption DEF TypeOK
<1>4. \A r \in Ids : run[r] = NoRun /\ ~Alive(r) /\ ~Running(r) /\ run[r].at \notin Queued
    BY <1>1 DEF Alive, Running, NoRun, Queued
<1>5. NoOverlap /\ \A r \in Ids : RunOK(r)
    BY <1>4 DEF NoOverlap, RunOK
<1>6. QED
    BY <1>2, <1>3, <1>5, RuntimeAssumption DEF Inv

LEMMA NextInv == Inv /\ [Next]_vars => Inv'
<1> SUFFICES ASSUME Inv, [Next]_vars PROVE Inv'
    OBVIOUS
<1>1. ASSUME NEW c \in Clicks, StartRun(c[1], c[2]) PROVE Inv'
    BY <1>1, StartRunInv
<1>2. ASSUME NEW r \in Ids, Advances(r) PROVE Inv'
    BY <1>2, BeginInv, TakesSlotInv, WorkEndsInv, CancelledInv, CancelledBeforeItBeganInv
    DEF Advances
<1>3. ASSUME NEW r \in Ids, Stop(r) \/ Park(r) \/ Unpark(r) \/ Ages(r) PROVE Inv'
    BY <1>3, MarkedInv
<1>4. ASSUME NEW n \in Sizes, EditLimit(n) PROVE Inv'
    BY <1>4, EditLimitInv
<1>5. CASE UNCHANGED vars
  <2>1. TypeOK' /\ NoOverlap' /\ \A r \in Ids : RunOK(r)'
      BY <1>5 DEF vars, Inv, TypeOK, NoOverlap, RunOK, Running, Alive
  <2>2. \A g \in DOMAIN gate : SlotsOK(gate[g], Holders(g), Waiters(g))'
      BY <1>5 DEF vars, Inv, Holders, Waiters, Working
  <2>3. (NeedsGate => Len(gate) < MaxGates)'
      BY <1>5 DEF vars, Inv, NeedsGate
  <2>4. QED
      BY <1>5, <2>1, <2>2, <2>3 DEF vars, Inv
<1>6. QED
    BY <1>1, <1>2, <1>3, <1>4, <1>5 DEF Next

\* The invariant on which the theorems rest.
THEOREM RuntimeInvariant == Spec => []Inv
<1>1. QED
    BY InitInv, NextInv, PTL DEF Spec

\* The declared types, for any clicks, sizes of the gate and number of runs.
THEOREM TypesHold == Spec => []TypeOK
<1>1. Inv => TypeOK
    BY DEF Inv
<1>2. QED
    BY <1>1, RuntimeInvariant, PTL

\* Runs that must not overlap never do, a stopped one that still unwinds included
\* (runtime.py, start_run).
THEOREM NoOverlapHolds == Spec => []NoOverlap
<1>1. Inv => NoOverlap
    BY DEF Inv
<1>2. QED
    BY <1>1, RuntimeInvariant, PTL

\* No slot is lost or made up, and no cancelled run is left in a line, whatever is
\* stopped while it waits and however often the limit is edited (runtime.py, _drive).
THEOREM SlotsConservedHolds == Spec => []SlotsConserved
<1>1. Inv => SlotsConserved
    BY DEF Inv, SlotsConserved, SlotsOK, Holders, Waiters
<1>2. QED
    BY <1>1, RuntimeInvariant, PTL

\* Eviction takes neither a run that still goes nor a watched one within its grace
\* (runtime.py, _evict).
THEOREM KeepsWhatIsWantedHolds == Spec => KeepsWhatIsWanted
<1> DEFINE Wanted(r) == Listed(r) /\ run'[r] = NoRun
                          => ~Alive(r) /\ (run[r].parked => run[r].age = "ancient")
<1>1. ASSUME Inv, [Next]_vars, NEW r \in Ids, Listed(r), run'[r] = NoRun
      PROVE  ~Alive(r) /\ (run[r].parked => run[r].age = "ancient")
  <2>1. run[r] \in Run /\ TypeOK
      BY <1>1, RunType DEF Inv, Listed
  <2>2. CASE \E c \in Clicks : StartRun(c[1], c[2])
    <3>1. PICK c \in Clicks : StartRun(c[1], c[2])
        BY <2>2
    <3>2. r \notin Kept
      <4>1. r \in Kept => run'[r] = run[r] \/ run'[r] = NewRun(c[1], c[2])
          BY <3>1 DEF StartRun
      <4>2. NewRun(c[1], c[2]).at # NoRun.at
          BY DEF NewRun, NoRun
      <4>3. QED
          BY <1>1, <4>1, <4>2 DEF Listed
    <3>3. Evictable(r) /\ ~Alive(r)
        BY <1>1, <3>2, KeptOK
    <3>4. QED
        BY <3>3 DEF Evictable
  <2>3. CASE ~ \E c \in Clicks : StartRun(c[1], c[2])
    <3>1. CASE UNCHANGED run
        BY <1>1, <3>1 DEF Listed
    <3>2. CASE \E s \in Ids : Advances(s) \/ Stop(s) \/ Park(s) \/ Unpark(s) \/ Ages(s)
      <4>1. PICK s \in Ids : Advances(s) \/ Stop(s) \/ Park(s) \/ Unpark(s) \/ Ages(s)
          BY <3>2
      <4>2. CASE s # r
        <5>1. run'[r] = run[r]
            BY <2>1, <4>1, <4>2 DEF TypeOK, Advances, Begin, TakesSlot, WorkEnds, Cancelled,
               CancelledBeforeItBegan, Ended, Stop, Park, Unpark, Ages
        <5>2. QED
            BY <1>1, <5>1 DEF Listed
      <4>3. CASE s = r
        <5>1. run'[r].at # "none"
            BY <2>1, <4>1, <4>3 DEF TypeOK, Advances, Begin, TakesSlot, WorkEnds, Cancelled,
               CancelledBeforeItBegan, Ended, Stop, Park, Unpark, Ages, Run
        <5>2. QED
            BY <1>1, <5>1 DEF NoRun
      <4>4. QED
          BY <4>2, <4>3
    <3>3. QED
        BY <1>1, <2>3, <3>1, <3>2 DEF Next, EditLimit, vars
  <2>4. QED
      BY <2>2, <2>3
<1>2. Inv /\ [Next]_vars => [\A r \in Ids : Wanted(r)]_vars
    BY <1>1
<1>3. QED
    BY <1>2, RuntimeInvariant, PTL DEF Spec, KeepsWhatIsWanted, Wanted

-----------------------------------------------------------------------------
(* The events of one run and its streams (RunStream), for any number of    *)
(* events, consumers and broken connections                                *)

\* Events are numbered as they come, and the log keeps them in that order.
LogInOrder ==
  /\ \A i \in DOMAIN log : log[i].id < nextId
  /\ \A i, j \in DOMAIN log : i < j => log[i].id < log[j].id

\* The last event of a run that is over is its terminal one, and the log still holds it.
EndIsLogged ==
  /\ task = "over" <=> status = "over"
  /\ status = "running" => nextId <= MaxEvents + 1
  /\ status = "over" => \E e \in ToSet(log) : e.terminal /\ e.id = nextId - 1

\* What a stream still has to send: events after its last one, each number once; and an
\* event of the log that is not among them is newer than all of them.
ListIsNext(c) ==
  LET last == consumer[c].last
      pending == consumer[c].pending
  IN /\ last < nextId
     /\ \A e \in pending : last < e.id /\ e.id < nextId
     /\ \A e, f \in pending : e.id = f.id => e = f
     /\ consumer[c].pc = "reading" =>
          \A e \in ToSet(log) : last < e.id => e \in pending \/ \A f \in pending : f.id < e.id

\* A stream that has returned sent the last event of a run that was over.
OverIsSent(c) == consumer[c].pc = "over" => status = "over" /\ consumer[c].last = nextId - 1

StreamInv ==
  /\ StreamTypeOK /\ LogInOrder /\ EndIsLogged
  /\ \A c \in Consumers : ListIsNext(c) /\ OverIsSent(c)

-----------------------------------------------------------------------------

LEMMA LogTypes ==
  ASSUME StreamInv
  PROVE  /\ log \in Seq(Event) /\ Len(log) \in Nat /\ DOMAIN log = 1..Len(log)
         /\ ToSet(log) \subseteq Event
         /\ \A e \in Event : e.id \in Nat
<1>1. log \in Seq(Event) BY DEF StreamInv, StreamTypeOK
<1>2. Len(log) \in Nat /\ DOMAIN log = 1..Len(log) BY <1>1
<1>3. ToSet(log) \subseteq Event BY <1>1, <1>2, ElementOfSeq DEF ToSet
<1>4. \A e \in Event : e.id \in Nat BY DEF Event, EventIds
<1> QED BY <1>1, <1>2, <1>3, <1>4

\* Trimming drops the oldest and keeps the newest, in order.
LEMMA TrimmedIs ==
  ASSUME NEW events \in Seq(Event), events # <<>>
  PROVE  LET kept == Trimmed(events)
             skipped == Len(events) - Len(kept)
         IN /\ kept \in Seq(Event) /\ Len(kept) <= Window /\ kept # <<>>
            /\ skipped \in Nat
            /\ Len(kept) \in 1..Len(events)
            /\ \A i \in 1..Len(kept) : kept[i] = events[i + skipped]
<1>1. Window \in Nat \ {0} BY StreamAssumption
<1>2. Len(events) \in Nat /\ Len(events) >= 1 BY EmptySeq
<1>3. CASE Len(events) <= Window
  <2>1. Trimmed(events) = events BY <1>1, <1>2, <1>3 DEF Trimmed
  <2> QED BY <1>1, <1>2, <1>3, <2>1
<1>4. CASE Len(events) > Window
  <2> DEFINE m == Len(events) - Window + 1
             kept == SubSeq(events, m, Len(events))
  <2>1. Trimmed(events) = kept BY <1>4 DEF Trimmed
  <2>2. m \in 1..Len(events) + 1 /\ m <= Len(events) BY <1>1, <1>2, <1>4
  <2>3. /\ kept \in Seq(Event) /\ Len(kept) = Len(events) - m + 1
        /\ \A i \in 1..(Len(events) - m + 1) : kept[i] = events[m + i - 1]
    BY <1>1, <1>2, <2>2, SubSeqProperties
  <2>4. Len(kept) = Window BY <1>1, <1>2, <2>3
  <2>5. \A i \in 1..Window : m + i - 1 = i + (Len(events) - Window) BY <1>1, <1>2
  <2>6. kept # <<>> BY <1>1, <2>3, <2>4, EmptySeq
  <2>7. Len(events) - m + 1 = Window BY <1>1, <1>2
  <2> HIDE DEF m, kept
  <2> QED BY <1>1, <1>2, <1>4, <2>1, <2>3, <2>4, <2>5, <2>6, <2>7
<1> QED BY <1>1, <1>2, <1>3, <1>4

\* An event that is emitted is the newest of the log, and wakes whoever waits.
LEMMA EmitIs ==
  ASSUME StreamInv, NEW terminal \in BOOLEAN, Emit(terminal), nextId <= MaxEvents + 2
  PROVE  LET new == [id |-> nextId, terminal |-> terminal]
         IN /\ new \in Event
            /\ log' \in Seq(Event) /\ Len(log') <= Window /\ nextId' = nextId + 1
            /\ LogInOrder'
            /\ new \in ToSet(log') /\ ToSet(log') \subseteq ToSet(log) \cup {new}
<1> DEFINE new == [id |-> nextId, terminal |-> terminal]
           events == Append(log, new)
<1>1. /\ MaxEvents \in Nat /\ nextId \in 1..(MaxEvents + 3) /\ log \in Seq(Event) /\ Len(log) \in Nat
      /\ DOMAIN log = 1..Len(log)
  BY StreamAssumption DEF StreamInv, StreamTypeOK
<1>2. new \in Event BY <1>1 DEF Event, EventIds
<1>3. /\ log' = Trimmed(events) /\ nextId' = nextId + 1 BY DEF Emit
<1>4. /\ events \in Seq(Event) /\ events # <<>> /\ Len(events) = Len(log) + 1
      /\ \A i \in 1..Len(log) : events[i] = log[i]
      /\ events[Len(log) + 1] = new
  BY <1>1, <1>2, AppendProperties
<1> HIDE DEF events, new
<1> DEFINE skipped == Len(events) - Len(log')
<1>5. /\ log' \in Seq(Event) /\ Len(log') <= Window
      /\ skipped \in Nat /\ Len(log') \in 1..Len(events)
      /\ \A i \in 1..Len(log') : log'[i] = events[i + skipped]
  BY <1>3, <1>4, TrimmedIs
<1>6. DOMAIN log' = 1..Len(log') BY <1>5
<1>7. new.id = nextId BY DEF new
<1>8. \A i, j \in 1..Len(events) : i < j => events[i].id < events[j].id
  <2> SUFFICES ASSUME NEW i \in 1..Len(events), NEW j \in 1..Len(events), i < j
               PROVE  events[i].id < events[j].id
    OBVIOUS
  <2>1. i \in 1..Len(log) /\ events[i] = log[i] BY <1>1, <1>4
  <2>2. CASE j \in 1..Len(log)
    BY <1>1, <1>4, <2>1, <2>2 DEF StreamInv, LogInOrder
  <2>3. CASE j = Len(log) + 1
    BY <1>1, <1>4, <1>7, <2>1, <2>3 DEF StreamInv, LogInOrder
  <2> QED BY <1>1, <1>4, <2>2, <2>3
<1>9. \A i \in 1..Len(events) : events[i].id <= nextId /\ events[i].id \in Nat
  <2> SUFFICES ASSUME NEW i \in 1..Len(events) PROVE events[i].id <= nextId /\ events[i].id \in Nat
    OBVIOUS
  <2>1. CASE i \in 1..Len(log)
    <3>1. log[i] \in Event BY <1>1, <2>1, ElementOfSeq
    <3> QED BY <1>1, <1>4, <2>1, <3>1 DEF StreamInv, LogInOrder, Event, EventIds
  <2>2. CASE i = Len(log) + 1 BY <1>1, <1>4, <1>7, <2>2
  <2> QED BY <1>1, <1>4, <2>1, <2>2
<1>10. \A i \in 1..Len(log') : i + skipped \in 1..Len(events) BY <1>1, <1>4, <1>5
<1>11. LogInOrder'
  <2>1. ASSUME NEW i \in 1..Len(log') PROVE log'[i].id < nextId'
    <3>1. log'[i].id <= nextId /\ log'[i].id \in Nat BY <1>5, <1>9, <1>10
    <3> QED BY <1>1, <1>3, <3>1
  <2>2. \A i, j \in 1..Len(log') : i < j => log'[i].id < log'[j].id
    <3> SUFFICES ASSUME NEW i \in 1..Len(log'), NEW j \in 1..Len(log'), i < j
                 PROVE  log'[i].id < log'[j].id
      OBVIOUS
    <3>1. i + skipped < j + skipped BY <1>5
    <3> QED BY <1>5, <1>8, <1>10, <3>1
  <2> QED BY <1>6, <2>1, <2>2 DEF LogInOrder
<1>12. new \in ToSet(log')
  <2>1. Len(log') \in 1..Len(log') /\ Len(log') + skipped = Len(events) BY <1>1, <1>4, <1>5
  <2>2. log'[Len(log')] = new BY <1>4, <1>5, <2>1
  <2> QED BY <1>6, <2>1, <2>2 DEF ToSet
<1>13. ToSet(log') \subseteq ToSet(log) \cup {new}
  <2> SUFFICES ASSUME NEW i \in 1..Len(log') PROVE log'[i] \in ToSet(log) \cup {new}
    BY <1>6 DEF ToSet
  <2>1. log'[i] = events[i + skipped] /\ i + skipped \in 1..Len(events) BY <1>5, <1>10
  <2>2. CASE i + skipped \in 1..Len(log) BY <1>1, <1>4, <2>1, <2>2 DEF ToSet
  <2>3. CASE i + skipped = Len(log) + 1 BY <1>4, <2>1, <2>3
  <2> QED BY <1>1, <1>4, <2>1, <2>2, <2>3
<1> QED BY <1>2, <1>3, <1>5, <1>11, <1>12, <1>13 DEF new

\* A list made now holds all that is newer than the last event sent.
LEMMA ReadsKeep ==
  ASSUME StreamInv, NEW c \in Consumers, consumer' = Reads(c), UNCHANGED <<log, nextId>>
  PROVE  /\ consumer' \in [Consumers -> Consumer]
         /\ \A d \in Consumers : ListIsNext(d)'
         /\ \A d \in Consumers : consumer'[d].pc = "over" => consumer[d].pc = "over" /\ consumer'[d] = consumer[d]
<1>1. /\ consumer \in [Consumers -> Consumer] /\ log \in Seq(Event) /\ DOMAIN log = 1..Len(log)
  BY DEF StreamInv, StreamTypeOK
<1>2. ToSet(log) \subseteq Event
  BY <1>1, ElementOfSeq DEF ToSet
<1> DEFINE pending == Pending(consumer[c].last)
<1>3. pending \subseteq Event BY <1>2 DEF Pending
<1>4. /\ consumer'[c].pc = "reading" /\ consumer'[c].pending = pending
      /\ consumer'[c].last = consumer[c].last
      /\ consumer'[c] \in Consumer
      /\ \A d \in Consumers : d # c => consumer'[d] = consumer[d]
  BY <1>1, <1>3 DEF Reads, Consumer
<1>5. consumer' \in [Consumers -> Consumer] BY <1>1, <1>3 DEF Reads, Consumer
<1>6. ListIsNext(c)'
  <2>1. \A e \in pending : consumer[c].last < e.id /\ e.id < nextId
    BY <1>1, <1>2 DEF Pending, ToSet, StreamInv, LogInOrder, Event, EventIds, Consumer
  <2>2. \A e, f \in pending : e.id = f.id => e = f
    <3> SUFFICES ASSUME NEW i \in DOMAIN log, NEW j \in DOMAIN log, log[i].id = log[j].id
                 PROVE  log[i] = log[j]
      BY DEF Pending, ToSet
    <3>1. log[i].id \in Nat /\ log[j].id \in Nat /\ i \in Nat /\ j \in Nat
      BY <1>1, <1>2 DEF ToSet, Event, EventIds
    <3> QED BY <1>1, <3>1 DEF StreamInv, LogInOrder
  <2>3. \A e \in ToSet(log) : consumer[c].last < e.id => e \in pending
    BY <1>1, <1>2 DEF Pending, Event, EventIds, Consumer
  <2>4. consumer[c].last < nextId BY DEF StreamInv, ListIsNext
  <2> QED BY <1>4, <2>1, <2>2, <2>3, <2>4 DEF ListIsNext, ToSet
<1>7. \A d \in Consumers : d # c => ListIsNext(d)'
  BY <1>4 DEF StreamInv, ListIsNext, ToSet
<1> QED BY <1>4, <1>5, <1>6, <1>7

LEMMA EmitKeeps ==
  ASSUME StreamInv, NEW terminal \in BOOLEAN, Emit(terminal), status = "running", task # "over",
         task' \in {"working", "over"}, status' \in {"running", "over"},
         task' = "over" <=> status' = "over",
         status' = "running" => nextId <= MaxEvents, status' = "over" => terminal,
         UNCHANGED <<listed, drops>>
  PROVE  StreamInv'
<1> DEFINE new == [id |-> nextId, terminal |-> terminal]
<1>1. /\ MaxEvents \in Nat /\ nextId \in 1..(MaxEvents + 3) /\ consumer \in [Consumers -> Consumer]
      /\ nextId <= MaxEvents + 1
  BY StreamAssumption DEF StreamInv, StreamTypeOK, EndIsLogged
<1>2. /\ new \in Event
      /\ log' \in Seq(Event) /\ Len(log') <= Window /\ nextId' = nextId + 1
      /\ LogInOrder'
      /\ new \in ToSet(log') /\ ToSet(log') \subseteq ToSet(log) \cup {new}
      /\ new.id = nextId /\ new.terminal = terminal
  BY <1>1, EmitIs
<1> HIDE DEF new
<1>3. \A c \in Consumers : /\ consumer'[c].pc \in {consumer[c].pc, "woken"}
                           /\ consumer'[c].pc \in {"reading", "over"} => consumer[c].pc = consumer'[c].pc
                           /\ consumer'[c].last = consumer[c].last
                           /\ consumer'[c].pending = consumer[c].pending
  BY <1>1 DEF Emit, Woken, Consumer
<1>4. consumer' \in [Consumers -> Consumer] BY <1>1 DEF Emit, Woken, Consumer
<1>5. StreamTypeOK' BY <1>1, <1>2, <1>4 DEF StreamInv, StreamTypeOK
<1>6. EndIsLogged'
  <2>1. status' = "running" => nextId' <= MaxEvents + 1 BY <1>1, <1>2
  <2>2. status' = "over" => new.terminal /\ new.id = nextId' - 1 BY <1>1, <1>2
  <2> QED BY <1>2, <2>1, <2>2 DEF EndIsLogged, ToSet
<1>7. ASSUME NEW c \in Consumers PROVE ListIsNext(c)' /\ OverIsSent(c)'
  <2> DEFINE last == consumer[c].last
             pending == consumer[c].pending
  <2>1. /\ last < nextId
        /\ \A e \in pending : last < e.id /\ e.id < nextId
        /\ \A e, f \in pending : e.id = f.id => e = f
        /\ consumer[c].pc = "reading" =>
             \A e \in ToSet(log) : last < e.id => e \in pending \/ \A f \in pending : f.id < e.id
    BY DEF StreamInv, ListIsNext
  <2>2. last \in Nat /\ pending \subseteq Event /\ \A e \in pending : e.id \in Nat
    BY <1>1 DEF Consumer, Event, EventIds
  <2>3. consumer'[c].last = last /\ consumer'[c].pending = pending BY <1>3
  <2>4. consumer[c].pc = "reading" =>
          \A e \in ToSet(log') : last < e.id => e \in pending \/ \A f \in pending : f.id < e.id
    <3> SUFFICES ASSUME consumer[c].pc = "reading", NEW e \in ToSet(log'), last < e.id
                 PROVE  e \in pending \/ \A f \in pending : f.id < e.id
      OBVIOUS
    <3>1. CASE e = new BY <1>2, <2>1, <3>1
    <3>2. CASE e \in ToSet(log) BY <2>1, <3>2
    <3> QED BY <1>2, <3>1, <3>2
  <2>5. last < nextId' /\ \A e \in pending : e.id < nextId' BY <1>1, <1>2, <2>1, <2>2
  <2> HIDE DEF last, pending
  <2>6. ListIsNext(c)' BY <1>3, <2>1, <2>3, <2>4, <2>5 DEF ListIsNext, ToSet
  <2>7. consumer'[c].pc # "over" BY <1>3 DEF StreamInv, OverIsSent
  <2> QED BY <2>6, <2>7 DEF OverIsSent
<1> QED BY <1>2, <1>5, <1>6, <1>7 DEF StreamInv

LEMMA RunKeeps == ASSUME StreamInv, WorkEmits \/ DriverEnds \/ TaskDone PROVE StreamInv'
<1>1. /\ MaxEvents \in Nat /\ nextId \in 1..(MaxEvents + 3)
      /\ task \in {"new", "working", "over"} /\ status \in {"running", "over"}
      /\ task = "over" <=> status = "over"
  BY StreamAssumption DEF StreamInv, StreamTypeOK, EndIsLogged
<1>2. CASE WorkEmits BY <1>1, <1>2, EmitKeeps DEF WorkEmits
<1>3. CASE DriverEnds BY <1>1, <1>3, EmitKeeps DEF DriverEnds
<1>4. CASE TaskDone BY <1>1, <1>4, EmitKeeps DEF TaskDone
<1> QED BY <1>2, <1>3, <1>4

\* The event sent is the first of the list, so all that is left is newer.
LEMMA SendsIs ==
  ASSUME StreamInv, NEW c \in Consumers, Sends(c)
  PROVE  \E e \in consumer[c].pending :
           /\ \A f \in consumer[c].pending : e.id <= f.id
           /\ consumer' = [consumer EXCEPT ![c].last = e.id, ![c].pending = @ \ {e}]
           /\ consumer'[c].pc = "reading" /\ consumer[c].pc = "reading"
           /\ consumer'[c].last = e.id /\ consumer'[c].pending = consumer[c].pending \ {e}
           /\ consumer'[c] \in Consumer
           /\ \A d \in Consumers : d # c => consumer'[d] = consumer[d]
           /\ e \in Event /\ consumer[c].last < e.id /\ e.id < nextId
<1>1. consumer \in [Consumers -> Consumer] BY DEF StreamInv, StreamTypeOK
<1>2. PICK e \in consumer[c].pending :
           /\ \A f \in consumer[c].pending : e.id <= f.id
           /\ consumer' = [consumer EXCEPT ![c].last = e.id, ![c].pending = @ \ {e}]
  BY DEF Sends
<1>3. e \in Event BY <1>1 DEF Consumer
<1>4. e.id \in 0..(MaxEvents + 2) BY <1>3, StreamAssumption DEF Event, EventIds
<1>5. consumer[c].last < e.id /\ e.id < nextId BY DEF StreamInv, ListIsNext
<1>6. consumer[c].pc = "reading" BY DEF Sends
<1>7. /\ consumer'[c].pc = "reading"
      /\ consumer'[c].last = e.id /\ consumer'[c].pending = consumer[c].pending \ {e}
      /\ consumer'[c] \in Consumer
      /\ \A d \in Consumers : d # c => consumer'[d] = consumer[d]
  BY <1>1, <1>2, <1>4, <1>6 DEF Consumer
<1> QED BY <1>2, <1>3, <1>5, <1>6, <1>7

LEMMA SendsKeeps == ASSUME StreamInv, NEW c \in Consumers, Sends(c) PROVE StreamInv'
<1>1. PICK e \in consumer[c].pending :
           /\ \A f \in consumer[c].pending : e.id <= f.id
           /\ consumer' = [consumer EXCEPT ![c].last = e.id, ![c].pending = @ \ {e}]
           /\ consumer'[c].pc = "reading" /\ consumer[c].pc = "reading"
           /\ consumer'[c].last = e.id /\ consumer'[c].pending = consumer[c].pending \ {e}
           /\ consumer'[c] \in Consumer
           /\ \A d \in Consumers : d # c => consumer'[d] = consumer[d]
           /\ e \in Event /\ consumer[c].last < e.id /\ e.id < nextId
  BY SendsIs
<1>2. /\ UNCHANGED <<log, nextId, task, status, listed, drops>>
      /\ consumer \in [Consumers -> Consumer] /\ log \in Seq(Event) /\ DOMAIN log = 1..Len(log)
  BY DEF Sends, StreamInv, StreamTypeOK
<1>3. consumer' \in [Consumers -> Consumer] BY <1>1, <1>2
<1>4. ListIsNext(c)'
  <2> DEFINE last == consumer[c].last
             pending == consumer[c].pending
  <2>1. /\ \A f \in pending : last < f.id /\ f.id < nextId
        /\ \A g, f \in pending : g.id = f.id => g = f
        /\ \A g \in ToSet(log) : last < g.id => g \in pending \/ \A f \in pending : f.id < g.id
    BY <1>1 DEF StreamInv, ListIsNext
  <2>2. /\ \A f \in pending : f.id \in Nat
        /\ \A g \in ToSet(log) : g.id \in Nat
        /\ last \in Nat
    BY <1>2, LogTypes DEF Consumer
  <2>3. \A f \in pending \ {e} : e.id < f.id
    BY <1>1, <2>1, <2>2
  <2>4. \A g \in ToSet(log) : e.id < g.id => g \in pending \ {e} \/ \A f \in pending \ {e} : f.id < g.id
    BY <1>1, <2>1, <2>2
  <2> HIDE DEF last
  <2> QED BY <1>1, <1>2, <2>1, <2>3, <2>4 DEF ListIsNext, ToSet
<1>5. \A d \in Consumers : d # c => ListIsNext(d)'
  BY <1>1, <1>2 DEF StreamInv, ListIsNext, ToSet
<1>6. \A d \in Consumers : OverIsSent(d)'
  BY <1>1, <1>2 DEF StreamInv, OverIsSent
<1> QED BY <1>2, <1>3, <1>4, <1>5, <1>6 DEF StreamInv, StreamTypeOK, LogInOrder, EndIsLogged, ToSet

\* A stream returns when nothing of the log is newer than its last event: that was the end.
LEMMA FinishesKeeps == ASSUME StreamInv, NEW c \in Consumers, Finishes(c) PROVE StreamInv'
<1>1. /\ consumer \in [Consumers -> Consumer] /\ log \in Seq(Event) /\ DOMAIN log = 1..Len(log)
      /\ nextId \in Nat
      /\ UNCHANGED <<log, nextId, task, status, listed, drops>> /\ status = "over"
  BY DEF Finishes, StreamInv, StreamTypeOK
<1>2. consumer[c].last = nextId - 1
  <2>1. PICK e \in ToSet(log) : e.id = nextId - 1 BY <1>1 DEF StreamInv, EndIsLogged
  <2>2. ~(e.id > consumer[c].last) BY DEF Finishes, Pending
  <2>3. consumer[c].last < nextId /\ consumer[c].last \in Nat
    BY <1>1 DEF StreamInv, ListIsNext, Consumer
  <2> QED BY <1>1, <2>1, <2>2, <2>3
<1>3. /\ consumer'[c].pc = "over" /\ consumer'[c].last = consumer[c].last
      /\ consumer'[c].pending = consumer[c].pending /\ consumer'[c] \in Consumer
      /\ \A d \in Consumers : d # c => consumer'[d] = consumer[d]
      /\ consumer' \in [Consumers -> Consumer]
  BY <1>1 DEF Finishes, Consumer
<1>4. \A d \in Consumers : ListIsNext(d)' BY <1>1, <1>3 DEF StreamInv, ListIsNext, ToSet
<1>5. \A d \in Consumers : OverIsSent(d)' BY <1>1, <1>2, <1>3 DEF StreamInv, OverIsSent
<1> QED BY <1>1, <1>3, <1>4, <1>5 DEF StreamInv, StreamTypeOK, LogInOrder, EndIsLogged, ToSet

\* A stream that opens, waits, goes on or breaks.
LEMMA StreamKeeps ==
  ASSUME StreamInv, NEW c \in Consumers, Connect(c) \/ Parks(c) \/ Resumes(c) \/ Drop(c)
  PROVE  StreamInv'
<1>1. /\ consumer \in [Consumers -> Consumer] /\ UNCHANGED <<log, nextId, task, status, listed>>
      /\ drops' \in 0..MaxDrops
  BY StreamAssumption DEF StreamInv, StreamTypeOK, Connect, Parks, Resumes, Drop
<1>2. /\ consumer' \in [Consumers -> Consumer]
      /\ \A d \in Consumers : ListIsNext(d)'
      /\ \A d \in Consumers : consumer'[d].pc = "over" => consumer[d].pc = "over" /\ consumer'[d] = consumer[d]
  <2>1. CASE consumer' = Reads(c) BY <1>1, <2>1, ReadsKeep
  <2>2. CASE consumer' # Reads(c)
    <3>1. /\ consumer' \in [Consumers -> Consumer]
          /\ consumer'[c].pc \in {"gone", "parked", "away"} /\ consumer'[c].last = consumer[c].last
          /\ consumer'[c].pending \in {consumer[c].pending, {}}
          /\ \A d \in Consumers : d # c => consumer'[d] = consumer[d]
      BY <1>1, <2>2 DEF Connect, Parks, Resumes, Drop, Consumer
    <3>2. ListIsNext(c)' BY <1>1, <3>1 DEF StreamInv, ListIsNext
    <3>3. \A d \in Consumers : d # c => ListIsNext(d)' BY <1>1, <3>1 DEF StreamInv, ListIsNext, ToSet
    <3> QED BY <3>1, <3>2, <3>3
  <2> QED BY <2>1, <2>2
<1>3. \A d \in Consumers : OverIsSent(d)' BY <1>1, <1>2 DEF StreamInv, OverIsSent
<1> QED BY <1>1, <1>2, <1>3 DEF StreamInv, StreamTypeOK, LogInOrder, EndIsLogged, ToSet

LEMMA InitStream == StreamInit => StreamInv
<1> SUFFICES ASSUME StreamInit PROVE StreamInv OBVIOUS
<1>1. StreamTypeOK
  BY StreamAssumption, EmptySeq DEF StreamInit, StreamTypeOK, Consumer
<1>2. LogInOrder /\ EndIsLogged
  BY StreamAssumption DEF StreamInit, LogInOrder, EndIsLogged
<1>3. \A c \in Consumers : ListIsNext(c) /\ OverIsSent(c)
  BY DEF StreamInit, ListIsNext, OverIsSent
<1> QED BY <1>1, <1>2, <1>3 DEF StreamInv

LEMMA NextStream == StreamInv /\ [StreamNext]_streamVars => StreamInv'
<1> SUFFICES ASSUME StreamInv, [StreamNext]_streamVars PROVE StreamInv' OBVIOUS
<1>1. ASSUME UNCHANGED <<log, nextId, task, status, consumer, drops>>, listed' \in BOOLEAN
      PROVE  StreamInv'
  <2>1. StreamTypeOK' BY <1>1 DEF StreamInv, StreamTypeOK
  <2>2. LogInOrder' /\ EndIsLogged' BY <1>1 DEF StreamInv, LogInOrder, EndIsLogged, ToSet
  <2>3. \A c \in Consumers : ListIsNext(c)' /\ OverIsSent(c)'
    BY <1>1 DEF StreamInv, ListIsNext, OverIsSent, ToSet
  <2> QED BY <2>1, <2>2, <2>3 DEF StreamInv
<1>2. CASE UNCHANGED streamVars \/ Evict
  BY <1>1, <1>2 DEF streamVars, Evict, StreamInv, StreamTypeOK
<1>3. CASE WorkEmits \/ DriverEnds \/ TaskDone BY <1>3, RunKeeps
<1>4. ASSUME NEW c \in Consumers, Connect(c) \/ Streams(c) \/ Drop(c) PROVE StreamInv'
  BY <1>4, SendsKeeps, FinishesKeeps, StreamKeeps DEF Streams
<1> QED BY <1>2, <1>3, <1>4 DEF StreamNext

THEOREM StreamInvariant == StreamSpec => []StreamInv
BY InitStream, NextStream, PTL DEF StreamSpec

-----------------------------------------------------------------------------

\* Run.emit: what the window holds is in the order of the ids, so the list a stream makes
\* of it can be taken by id.
THEOREM LogStaysInOrder == StreamSpec => []LogInOrder
<1>1. StreamInv => LogInOrder BY DEF StreamInv
<1> QED BY <1>1, StreamInvariant, PTL

\* Runtime.stream: for any window, any number of events and of streams, one that returns has
\* sent the terminal event.
THEOREM StreamsEndWithTheEnd == StreamSpec => []EndsWithTheEnd
<1>1. StreamInv => EndsWithTheEnd
  BY DEF StreamInv, EndIsLogged, OverIsSent, EndsWithTheEnd
<1> QED BY <1>1, StreamInvariant, PTL

\* Runtime.stream: nothing the window still holds is skipped, and nothing comes twice.
THEOREM NothingHeldIsSkipped == StreamSpec => OnlyTrimmedIsSkipped
<1> DEFINE Ahead(c) == consumer'[c].last # consumer[c].last =>
       /\ consumer'[c].last > consumer[c].last
       /\ \A e \in ToSet(log) : ~(consumer[c].last < e.id /\ e.id < consumer'[c].last)
<1>1. ASSUME StreamInv, [StreamNext]_streamVars, NEW c \in Consumers PROVE Ahead(c)
  <2>1. consumer \in [Consumers -> Consumer] BY <1>1 DEF StreamInv, StreamTypeOK
  <2>2. CASE Sends(c)
    <3>1. PICK e \in consumer[c].pending :
             /\ \A f \in consumer[c].pending : e.id <= f.id
             /\ consumer[c].pc = "reading" /\ consumer'[c].last = e.id
             /\ consumer[c].last < e.id /\ e \in Event
      BY <1>1, <2>2, SendsIs
    <3>2. \A g \in ToSet(log) : consumer[c].last < g.id =>
            g \in consumer[c].pending \/ \A f \in consumer[c].pending : f.id < g.id
      BY <1>1, <3>1 DEF StreamInv, ListIsNext
    <3>3. \A g \in ToSet(log) : g.id \in Nat BY <1>1, LogTypes
    <3>4. consumer[c].last \in Nat /\ e.id \in Nat BY <1>1, <2>1, <3>1, LogTypes DEF Consumer
    <3> QED BY <3>1, <3>2, <3>3, <3>4
  <2>3. CASE ~Sends(c)
    <3>1. CASE UNCHANGED consumer BY <3>1
    <3>2. CASE consumer' = Woken BY <2>1, <3>2 DEF Woken, Consumer
    <3>3. ASSUME NEW d \in Consumers, Connect(d) \/ Streams(d) \/ Drop(d)
          PROVE  consumer'[c].last = consumer[c].last
      <4>1. CASE d = c /\ (Connect(c) \/ Finishes(c) \/ Parks(c) \/ Resumes(c) \/ Drop(c))
        BY <2>1, <4>1 DEF Connect, Reads, Finishes, Parks, Resumes, Drop, Consumer
      <4>2. CASE d # c
        <5>1. consumer'[c] = consumer[c]
          BY <2>1, <3>3, <4>2 DEF Connect, Reads, Streams, Sends, Finishes, Parks, Resumes, Drop
        <5> QED BY <5>1
      <4> QED BY <2>3, <3>3, <4>1, <4>2 DEF Streams
    <3>4. UNCHANGED consumer \/ consumer' = Woken
            \/ \E d \in Consumers : Connect(d) \/ Streams(d) \/ Drop(d)
      BY <1>1 DEF StreamNext, streamVars, WorkEmits, DriverEnds, TaskDone, Emit, Evict
    <3> QED BY <3>1, <3>2, <3>3, <3>4
  <2> QED BY <2>2, <2>3
<1>2. StreamInv /\ [StreamNext]_streamVars => [\A c \in Consumers : Ahead(c)]_streamVars BY <1>1
<1> QED BY <1>2, StreamInvariant, PTL DEF StreamSpec, OnlyTrimmedIsSkipped, Ahead
=============================================================================
