--------------------------- MODULE RegistryProofs ---------------------------
(***************************************************************************)
(* The registry of definitions, for every tree of files, set of names,     *)
(* definitions and authors: the queries return the latest versions in      *)
(* whatever order Go ranges over its maps, the watcher of the local        *)
(* registry ends with an index of what is on the disk, and the versions    *)
(* that the edit form lets through are what Diff and ValidateVersionBump   *)
(* promise.                                                                *)
(*                                                                         *)
(* The loops of the code are recursive functions of a position.  What they *)
(* compute is shown by induction on the position, from the least number    *)
(* for which the claim would fail (SetInduction).                          *)
(***************************************************************************)
EXTENDS LocalRegistry, EventPublish,
        FiniteSetTheorems, SequenceTheorems, WellFoundedInduction, TLAPS

-----------------------------------------------------------------------------
(* Induction over the positions of a loop.                                 *)

\* A set of numbers that is not empty has a least element.
LEMMA LeastNumber ==
    ASSUME NEW T, T \subseteq Nat, T # {}
    PROVE  \E x \in T : \A y \in T : x <= y
<1>1. PICK x \in T : \A y \in T : ~(<< y, x >> \in OpToRel(<, Nat))
  BY NatLessThanWellFounded, WFMin, Zenon
<1>2. ASSUME NEW y \in T PROVE x <= y
  <2>1. x \in Nat /\ y \in Nat /\ << y, x >> \in Nat \X Nat
    OBVIOUS
  <2>2. ~(y < x)
    BY <1>1, <2>1 DEF OpToRel
  <2> QED
    BY <2>1, <2>2
<1> QED
  BY <1>2

\* Induction, for a set.
LEMMA SetInduction ==
    ASSUME NEW T, 0 \in T, \A n \in Nat : n \in T => n + 1 \in T
    PROVE  Nat \subseteq T
<1> SUFFICES ASSUME Nat \ T # {} PROVE FALSE
  OBVIOUS
<1>1. PICK x \in Nat \ T : \A y \in Nat \ T : x <= y
  BY LeastNumber
<1>2. x # 0 /\ x - 1 \in Nat
  BY <1>1
<1>3. x - 1 \in T
  BY <1>1, <1>2
<1>4. (x - 1) + 1 \in T
  BY <1>2, <1>3
<1> QED
  BY <1>1, <1>4

\* The loop of DeduplicateByLatest is defined for every list.
LEMMA DedupLoopDef ==
    ASSUME NEW order, Len(order) \in Nat
    PROVE  \E best : /\ best = [i \in 0 .. Len(order) |->
                                 IF i = 0 THEN << >> ELSE DedupStep(best[i - 1], order[i])]
                     /\ DedupLoop(order) = best[Len(order)]
<1> DEFINE Runs(best, n) == best = [i \in 0 .. n |-> IF i = 0 THEN << >> ELSE DedupStep(best[i - 1], order[i])]
           T == {n \in Nat : \E best : Runs(best, n)}
<1>1. 0 \in T
  <2>1. Runs([i \in 0 .. 0 |-> << >>], 0)
    OBVIOUS
  <2> QED
    BY <2>1
<1>2. ASSUME NEW n \in Nat, n \in T PROVE n + 1 \in T
  <2>1. PICK best : Runs(best, n)
    BY <1>2
  <2> DEFINE next == [i \in 0 .. n + 1 |-> IF i <= n THEN best[i] ELSE DedupStep(best[n], order[n + 1])]
  <2>2. ASSUME NEW i \in 0 .. n + 1
        PROVE  next[i] = IF i = 0 THEN << >> ELSE DedupStep(next[i - 1], order[i])
    <3>1. CASE i = 0
      BY <2>1, <3>1
    <3>2. CASE i # 0 /\ i <= n
      <4>1. i \in 0 .. n /\ i - 1 \in 0 .. n /\ i - 1 \in 0 .. n + 1 /\ i - 1 <= n
        BY <3>2
      <4>2. next[i] = best[i] /\ next[i - 1] = best[i - 1]
        BY <3>2, <4>1
      <4> QED
        BY <2>1, <3>2, <4>1, <4>2
    <3>3. CASE i = n + 1
      <4>1. next[n] = best[n]
        OBVIOUS
      <4> QED
        BY <3>3, <4>1
    <3> QED
      BY <3>1, <3>2, <3>3
  <2>3. Runs(next, n + 1)
    BY <2>2
  <2> HIDE DEF next, Runs
  <2>4. \E f : Runs(f, n + 1)
    BY <2>3
  <2> QED
    BY <2>4
<1>3. Len(order) \in T
  <2> HIDE DEF T
  <2> QED
    BY <1>1, <1>2, SetInduction
<1> DEFINE it == CHOOSE best : Runs(best, Len(order))
<1>4. Runs(it, Len(order))
  BY <1>3
<1>5. DedupLoop(order) = it[Len(order)]
  BY DEF DedupLoop
<1> QED
  BY <1>4, <1>5

-----------------------------------------------------------------------------
(* The order of the versions.                                              *)

\* What ParseSchemaVer reads.
Numbers == Nat \X Nat \X Nat

\* CompareSchemaVer finds the order of the versions.
LEMMA ComparisonIsOrder ==
    ASSUME NEW a \in Numbers, NEW b \in Numbers
    PROVE  CompareSchemaVer(a, b) > 0 <=> Higher(a, b)
<1>1. a[1] \in Nat /\ a[2] \in Nat /\ a[3] \in Nat /\ b[1] \in Nat /\ b[2] \in Nat /\ b[3] \in Nat
  BY DEF Numbers
<1>2. ASSUME NEW n \in Int PROVE signum(n) > 0 <=> n > 0
  BY DEF signum
<1>3. CASE a[1] # b[1]
  BY <1>1, <1>2, <1>3 DEF CompareSchemaVer, Higher
<1>4. CASE a[1] = b[1] /\ a[2] # b[2]
  BY <1>1, <1>2, <1>4 DEF CompareSchemaVer, Higher
<1>5. CASE a[1] = b[1] /\ a[2] = b[2]
  BY <1>1, <1>2, <1>5 DEF CompareSchemaVer, Higher
<1> QED
  BY <1>3, <1>4, <1>5

\* Higher is a strict total order of the versions.
LEMMA HigherIsOrder ==
    ASSUME NEW a \in Numbers, NEW b \in Numbers, NEW c \in Numbers
    PROVE  /\ ~Higher(a, a)
           /\ ~Higher(a, b) /\ Higher(c, b) => ~Higher(a, c)
           /\ ~Higher(a, b) /\ ~Higher(b, a) => a = b
           /\ Higher(a, b) /\ Higher(b, c) => Higher(a, c)
           /\ Higher(a, b) => ~Higher(b, a)
<1>1. PICK a1 \in Nat, a2 \in Nat, a3 \in Nat : a = << a1, a2, a3 >>
  BY DEF Numbers
<1>2. PICK b1 \in Nat, b2 \in Nat, b3 \in Nat : b = << b1, b2, b3 >>
  BY DEF Numbers
<1>3. PICK c1 \in Nat, c2 \in Nat, c3 \in Nat : c = << c1, c2, c3 >>
  BY DEF Numbers
<1> QED
  BY <1>1, <1>2, <1>3 DEF Higher

\* A definition whose version was read, or was not.
Readable(S) == \A d \in S : d.ver.num \in {<< >>} \cup Numbers

\* A version that parses is three numbers.
LEMMA ReadNumbers ==
    ASSUME NEW S, Readable(S), NEW d \in S, Parses(d.ver)
    PROVE  d.ver.num \in Numbers
BY DEF Readable, Parses

-----------------------------------------------------------------------------
(* DeduplicateByLatest.                                                    *)

\* What best holds after i events: for each event met the highest version of it met.
DedupInv(best, order, i) ==
  /\ \A k \in DOMAIN best : \E j \in 1 .. i :
       /\ best[k] = order[j] /\ Parses(order[j].ver)
       /\ << order[j].ns, order[j].name >> = k
       /\ \A m \in 1 .. i : Parses(order[m].ver) /\ << order[m].ns, order[m].name >> = k
                            => ~Higher(order[m].ver.num, order[j].ver.num)
  /\ \A m \in 1 .. i : Parses(order[m].ver) => << order[m].ns, order[m].name >> \in DOMAIN best

\* One round of DeduplicateByLatest keeps what best holds.
LEMMA DedupStepInv ==
    ASSUME NEW n \in Nat, NEW S, Readable(S), NEW order \in [1 .. n -> S],
           NEW i \in Nat, i + 1 \in 1 .. n, NEW best, DedupInv(best, order, i)
    PROVE  DedupInv(DedupStep(best, order[i + 1]), order, i + 1)
<1>1. PICK ev \in S : ev = order[i + 1]
  OBVIOUS
<1>2. PICK k : k = << ev.ns, ev.name >>
  OBVIOUS
<1>3. 1 .. i + 1 = (1 .. i) \cup {i + 1} /\ \A j \in 1 .. i + 1 : order[j] \in S
  OBVIOUS
<1>4. ASSUME NEW j \in 1 .. i + 1, Parses(order[j].ver) PROVE order[j].ver.num \in Numbers
  BY <1>3, <1>4, ReadNumbers
<1>5. CASE /\ Parses(ev.ver)
           /\ k \in DOMAIN best => CompareSchemaVer(ev.ver.num, best[k].ver.num) > 0
  <2>1. PICK new : new = [x \in DOMAIN best \cup {k} |-> IF x = k THEN ev ELSE best[x]]
    OBVIOUS
  <2>2. DedupStep(best, order[i + 1]) = new
    BY <1>1, <1>2, <1>5, <2>1 DEF DedupStep
  <2>3. ASSUME NEW m \in 1 .. i + 1, Parses(order[m].ver), << order[m].ns, order[m].name >> = k
        PROVE  ~Higher(order[m].ver.num, ev.ver.num)
    <3>1. CASE m = i + 1
      BY <1>1, <1>4, <2>3, <3>1, HigherIsOrder
    <3>2. CASE m \in 1 .. i
      <4>1. k \in DOMAIN best
        BY <2>3, <3>2 DEF DedupInv
      <4>2. PICK j \in 1 .. i : best[k] = order[j] /\ Parses(order[j].ver)
                                /\ ~Higher(order[m].ver.num, order[j].ver.num)
        BY <2>3, <3>2, <4>1 DEF DedupInv
      <4>3. ev.ver.num \in Numbers /\ order[j].ver.num \in Numbers /\ order[m].ver.num \in Numbers
        BY <1>1, <1>3, <1>4, <1>5, <2>3, <4>2
      <4>4. Higher(ev.ver.num, order[j].ver.num)
        BY <1>5, <4>1, <4>2, <4>3, ComparisonIsOrder
      <4> QED
        BY <4>2, <4>3, <4>4, HigherIsOrder
    <3> QED
      BY <1>3, <3>1, <3>2
  <2>4. ASSUME NEW x \in DOMAIN new
        PROVE  \E j \in 1 .. i + 1 :
                 /\ new[x] = order[j] /\ Parses(order[j].ver)
                 /\ << order[j].ns, order[j].name >> = x
                 /\ \A m \in 1 .. i + 1 : Parses(order[m].ver) /\ << order[m].ns, order[m].name >> = x
                                          => ~Higher(order[m].ver.num, order[j].ver.num)
    <3>1. CASE x = k
      <4>1. i + 1 \in 1 .. i + 1 /\ new[x] = ev
        BY <2>1, <3>1
      <4>2. \A m \in 1 .. i + 1 : Parses(order[m].ver) /\ << order[m].ns, order[m].name >> = x
                                 => ~Higher(order[m].ver.num, order[i + 1].ver.num)
        BY <1>1, <2>3, <3>1
      <4>3. new[x] = order[i + 1] /\ Parses(order[i + 1].ver) /\ << order[i + 1].ns, order[i + 1].name >> = x
        BY <1>1, <1>2, <1>5, <3>1, <4>1
      <4> QED
        BY <4>1, <4>2, <4>3
    <3>2. CASE x # k
      <4>1. x \in DOMAIN best /\ new[x] = best[x]
        BY <2>1, <3>2
      <4>2. PICK j \in 1 .. i :
                 /\ best[x] = order[j] /\ Parses(order[j].ver)
                 /\ << order[j].ns, order[j].name >> = x
                 /\ \A m \in 1 .. i : Parses(order[m].ver) /\ << order[m].ns, order[m].name >> = x
                                      => ~Higher(order[m].ver.num, order[j].ver.num)
        BY <4>1 DEF DedupInv
      <4>3. << order[i + 1].ns, order[i + 1].name >> # x
        BY <1>1, <1>2, <3>2
      <4> QED
        BY <1>3, <4>1, <4>2, <4>3
    <3> QED
      BY <3>1, <3>2
  <2>5. ASSUME NEW m \in 1 .. i + 1, Parses(order[m].ver)
        PROVE  << order[m].ns, order[m].name >> \in DOMAIN new
    BY <1>1, <1>2, <1>3, <2>1, <2>5 DEF DedupInv
  <2> QED
    BY <2>2, <2>4, <2>5 DEF DedupInv
<1>6. CASE ~(/\ Parses(ev.ver)
             /\ k \in DOMAIN best => CompareSchemaVer(ev.ver.num, best[k].ver.num) > 0)
  <2>1. DedupStep(best, order[i + 1]) = best
    BY <1>1, <1>2, <1>6 DEF DedupStep
  <2>2. Parses(ev.ver) => k \in DOMAIN best
    BY <1>6
  <2>3. ASSUME NEW x \in DOMAIN best
        PROVE  \E j \in 1 .. i + 1 :
                 /\ best[x] = order[j] /\ Parses(order[j].ver)
                 /\ << order[j].ns, order[j].name >> = x
                 /\ \A m \in 1 .. i + 1 : Parses(order[m].ver) /\ << order[m].ns, order[m].name >> = x
                                          => ~Higher(order[m].ver.num, order[j].ver.num)
    <3>1. PICK j \in 1 .. i :
                 /\ best[x] = order[j] /\ Parses(order[j].ver)
                 /\ << order[j].ns, order[j].name >> = x
                 /\ \A m \in 1 .. i : Parses(order[m].ver) /\ << order[m].ns, order[m].name >> = x
                                      => ~Higher(order[m].ver.num, order[j].ver.num)
      BY DEF DedupInv
    <3>2. ASSUME Parses(ev.ver), k = x PROVE ~Higher(ev.ver.num, order[j].ver.num)
      <4>1. ev.ver.num \in Numbers /\ order[j].ver.num \in Numbers
        BY <1>1, <1>3, <1>4, <3>1, <3>2
      <4> QED
        BY <1>6, <3>1, <3>2, <4>1, ComparisonIsOrder
    <3> QED
      BY <1>1, <1>2, <1>3, <3>1, <3>2
  <2>4. ASSUME NEW m \in 1 .. i + 1, Parses(order[m].ver)
        PROVE  << order[m].ns, order[m].name >> \in DOMAIN best
    BY <1>1, <1>2, <1>3, <2>2, <2>4 DEF DedupInv
  <2> QED
    BY <2>1, <2>3, <2>4 DEF DedupInv
<1> QED
  BY <1>5, <1>6

\* After the last round best speaks of the whole list.
LEMMA DedupLoopInv ==
    ASSUME NEW n \in Nat, NEW S, Readable(S), NEW order \in [1 .. n -> S]
    PROVE  DedupInv(DedupLoop(order), order, n)
<1>1. Len(order) = n
  BY LenProperties, SeqDef
<1>2. PICK best : /\ best = [i \in 0 .. n |->
                               IF i = 0 THEN << >> ELSE DedupStep(best[i - 1], order[i])]
                  /\ DedupLoop(order) = best[n]
  BY <1>1, DedupLoopDef
<1> DEFINE T == {i \in Nat : i <= n => DedupInv(best[i], order, i)}
<1>3. 0 \in T
  <2>1. best[0] = << >>
    BY <1>2
  <2>2. DedupInv(<< >>, order, 0)
    BY DEF DedupInv
  <2> QED
    BY <2>1, <2>2
<1>4. ASSUME NEW i \in Nat, i \in T PROVE i + 1 \in T
  <2> SUFFICES ASSUME i + 1 <= n PROVE DedupInv(best[i + 1], order, i + 1)
    OBVIOUS
  <2>1. DedupInv(best[i], order, i)
    BY <1>4
  <2>2. best[i + 1] = DedupStep(best[i], order[i + 1])
    <3>1. i + 1 \in 0 .. n /\ i + 1 # 0 /\ (i + 1) - 1 = i
      OBVIOUS
    <3> QED
      BY <1>2, <3>1
  <2> QED
    BY <2>1, <2>2, DedupStepInv
<1>5. n \in T
  <2> HIDE DEF T
  <2> QED
    BY <1>3, <1>4, SetInduction
<1> QED
  BY <1>2, <1>5

-----------------------------------------------------------------------------
(* The answers of the queries.                                             *)

\* An order of a set has all its elements.
LEMMA OrdersOf ==
    ASSUME NEW S, IsFiniteSet(S), NEW order \in SetToSeqs(S)
    PROVE  /\ Cardinality(S) \in Nat /\ order \in [1 .. Cardinality(S) -> S]
           /\ \A d \in S : \E i \in 1 .. Cardinality(S) : order[i] = d
<1>1. PICK n : n = Cardinality(S)
  OBVIOUS
<1>2. n \in Nat
  BY <1>1, FS_CardinalityType
<1>3. order \in [1 .. n -> S] /\ \A i, j \in 1 .. n : i # j => order[i] # order[j]
  BY <1>1 DEF SetToSeqs
<1>4. order \in Injection(1 .. n, S)
  BY <1>3 DEF Injection, IsInjective
<1>5. IsFiniteSet(1 .. n) /\ Cardinality(1 .. n) = n
  BY <1>2, FS_Interval
<1>6. order \in Surjection(1 .. n, S)
  BY <1>1, <1>4, <1>5, FS_Injection
<1> QED
  BY <1>1, <1>2, <1>3, <1>6 DEF Surjection

\* What DeduplicateByLatest returns, in every order: definitions that nothing exceeds,
\* and one for every event with a readable version.
LEMMA DedupFinds ==
    ASSUME NEW S, IsFiniteSet(S), Readable(S), NEW order \in SetToSeqs(S)
    PROVE  /\ DeduplicateByLatest(order) \subseteq Latest(S)
           /\ \A d \in S : Parses(d.ver) =>
                \E e \in DeduplicateByLatest(order) : e.ns = d.ns /\ e.name = d.name
<1>1. PICK n \in Nat : /\ order \in [1 .. n -> S]
                       /\ \A d \in S : \E i \in 1 .. n : order[i] = d
  BY OrdersOf
<1>2. PICK best : best = DedupLoop(order)
  OBVIOUS
<1>3. DedupInv(best, order, n)
  BY <1>1, <1>2, DedupLoopInv
<1>4. DeduplicateByLatest(order) = {best[k] : k \in DOMAIN best}
  BY <1>2 DEF DeduplicateByLatest, Range
<1>5. ASSUME NEW k \in DOMAIN best PROVE best[k] \in Latest(S) /\ << best[k].ns, best[k].name >> = k
  <2>1. PICK j \in 1 .. n :
          /\ best[k] = order[j] /\ Parses(order[j].ver)
          /\ << order[j].ns, order[j].name >> = k
          /\ \A m \in 1 .. n : Parses(order[m].ver) /\ << order[m].ns, order[m].name >> = k
                             => ~Higher(order[m].ver.num, order[j].ver.num)
    BY <1>3 DEF DedupInv
  <2>2. PICK d \in S : d = order[j]
    BY <1>1
  <2>3. ASSUME NEW e \in S, Parses(e.ver), e.ns = d.ns, e.name = d.name
        PROVE  ~Higher(e.ver.num, d.ver.num)
    BY <1>1, <2>1, <2>2, <2>3
  <2> QED
    BY <2>1, <2>2, <2>3 DEF Latest
<1>6. ASSUME NEW d \in S, Parses(d.ver)
      PROVE  \E e \in DeduplicateByLatest(order) : e.ns = d.ns /\ e.name = d.name
  <2>1. PICK m \in 1 .. n : order[m] = d
    BY <1>1
  <2>2. << d.ns, d.name >> \in DOMAIN best
    BY <1>3, <1>6, <2>1 DEF DedupInv
  <2>3. PICK e : e = best[<< d.ns, d.name >>]
    OBVIOUS
  <2>4. e \in DeduplicateByLatest(order) /\ << e.ns, e.name >> = << d.ns, d.name >>
    BY <1>4, <1>5, <2>2, <2>3
  <2> QED
    BY <2>4
<1> QED
  BY <1>4, <1>5, <1>6

\* No two texts of an event's versions read as the same numbers.
Distinct(S) ==
  \A d, e \in S : Parses(d.ver) /\ d.ver.num = e.ver.num /\ d.ns = e.ns /\ d.name = e.name => d = e

\* Where the texts are distinct, an event has one latest version.
LEMMA LatestOne ==
    ASSUME NEW S, Readable(S), Distinct(S), NEW d \in Latest(S), NEW e \in Latest(S),
           d.ns = e.ns, d.name = e.name
    PROVE  d = e
<1>1. d \in S /\ e \in S /\ Parses(d.ver) /\ Parses(e.ver)
  BY DEF Latest
<1>2. d.ver.num \in Numbers /\ e.ver.num \in Numbers
  BY <1>1, ReadNumbers
<1>3. ~Higher(d.ver.num, e.ver.num) /\ ~Higher(e.ver.num, d.ver.num)
  BY <1>1 DEF Latest
<1>4. d.ver.num = e.ver.num
  BY <1>2, <1>3, HigherIsOrder
<1> QED
  BY <1>1, <1>4 DEF Distinct

\* DeduplicateByLatest returns the highest readable version of each event, in any order.
THEOREM DedupIsLatest ==
    ASSUME NEW S, IsFiniteSet(S), Readable(S), Distinct(S), NEW order \in SetToSeqs(S)
    PROVE  DeduplicateByLatest(order) = Latest(S)
<1>1. ASSUME NEW d \in Latest(S) PROVE d \in DeduplicateByLatest(order)
  <2>1. d \in S /\ Parses(d.ver)
    BY DEF Latest
  <2>2. PICK e \in DeduplicateByLatest(order) : e.ns = d.ns /\ e.name = d.name
    BY <2>1, DedupFinds
  <2>3. e \in Latest(S)
    BY DedupFinds
  <2> QED
    BY <2>2, <2>3, LatestOne
<1> QED
  BY <1>1, DedupFinds

-----------------------------------------------------------------------------
(* GetEvent without a version.                                             *)

\* The loop of GetEvent is defined for every list.
LEMMA BestLoopDef ==
    ASSUME NEW order, NEW ns, NEW name, Len(order) \in Nat
    PROVE  \E best : /\ best = [i \in 0 .. Len(order) |->
                                 IF i = 0 THEN << >> ELSE BestStep(best[i - 1], order[i], ns, name)]
                     /\ BestLoop(order, ns, name) = best[Len(order)]
<1> DEFINE Runs(best, n) == best = [i \in 0 .. n |-> IF i = 0 THEN << >> ELSE BestStep(best[i - 1], order[i], ns, name)]
           T == {n \in Nat : \E best : Runs(best, n)}
<1>1. 0 \in T
  <2>1. Runs([i \in 0 .. 0 |-> << >>], 0)
    OBVIOUS
  <2> QED
    BY <2>1
<1>2. ASSUME NEW n \in Nat, n \in T PROVE n + 1 \in T
  <2>1. PICK best : Runs(best, n)
    BY <1>2
  <2> DEFINE next == [i \in 0 .. n + 1 |-> IF i <= n THEN best[i] ELSE BestStep(best[n], order[n + 1], ns, name)]
  <2>2. ASSUME NEW i \in 0 .. n + 1
        PROVE  next[i] = IF i = 0 THEN << >> ELSE BestStep(next[i - 1], order[i], ns, name)
    <3>1. CASE i = 0
      BY <2>1, <3>1
    <3>2. CASE i # 0 /\ i <= n
      <4>1. i \in 0 .. n /\ i - 1 \in 0 .. n /\ i - 1 \in 0 .. n + 1 /\ i - 1 <= n
        BY <3>2
      <4>2. next[i] = best[i] /\ next[i - 1] = best[i - 1]
        BY <3>2, <4>1
      <4> QED
        BY <2>1, <3>2, <4>1, <4>2
    <3>3. CASE i = n + 1
      <4>1. next[n] = best[n]
        OBVIOUS
      <4> QED
        BY <3>3, <4>1
    <3> QED
      BY <3>1, <3>2, <3>3
  <2>3. Runs(next, n + 1)
    BY <2>2
  <2> HIDE DEF next, Runs
  <2>4. \E f : Runs(f, n + 1)
    BY <2>3
  <2> QED
    BY <2>4
<1>3. Len(order) \in T
  <2> HIDE DEF T
  <2> QED
    BY <1>1, <1>2, SetInduction
<1> DEFINE it == CHOOSE best : Runs(best, Len(order))
<1>4. Runs(it, Len(order))
  BY <1>3
<1>5. BestLoop(order, ns, name) = it[Len(order)]
  BY DEF BestLoop
<1> QED
  BY <1>4, <1>5

\* What the loop looks for.
Candidate(d, ns, name) ==
  d.ns = ns /\ d.name = name /\ d.status = "active" /\ Parses(d.ver)

\* What best holds after i events: nothing, or a candidate that no other one met exceeds.
BestInv(best, order, i, ns, name) ==
  \/ /\ best = << >>
     /\ \A m \in 1 .. i : ~Candidate(order[m], ns, name)
  \/ \E j \in 1 .. i :
       /\ best = << order[j] >> /\ Candidate(order[j], ns, name)
       /\ \A m \in 1 .. i : Candidate(order[m], ns, name) => ~Higher(order[m].ver.num, order[j].ver.num)

\* One round of the loop of GetEvent keeps what best holds.
LEMMA BestStepInv ==
    ASSUME NEW n \in Nat, NEW S, Readable(S), NEW order \in [1 .. n -> S], NEW ns, NEW name,
           NEW i \in Nat, i + 1 \in 1 .. n, NEW best, BestInv(best, order, i, ns, name)
    PROVE  BestInv(BestStep(best, order[i + 1], ns, name), order, i + 1, ns, name)
<1>1. PICK d \in S : d = order[i + 1]
  OBVIOUS
<1>2. 1 .. i + 1 = (1 .. i) \cup {i + 1} /\ \A j \in 1 .. i + 1 : order[j] \in S
  OBVIOUS
<1>3. ASSUME NEW j \in 1 .. i + 1, Candidate(order[j], ns, name) PROVE order[j].ver.num \in Numbers
  BY <1>2, <1>3, ReadNumbers DEF Candidate
<1>4. CASE ~Candidate(d, ns, name)
  <2>1. BestStep(best, order[i + 1], ns, name) = best
    BY <1>1, <1>4 DEF BestStep, Candidate
  <2>2. CASE best = << >> /\ \A m \in 1 .. i : ~Candidate(order[m], ns, name)
    BY <1>1, <1>2, <1>4, <2>1, <2>2 DEF BestInv
  <2>3. CASE \E j \in 1 .. i :
               /\ best = << order[j] >> /\ Candidate(order[j], ns, name)
               /\ \A m \in 1 .. i : Candidate(order[m], ns, name) => ~Higher(order[m].ver.num, order[j].ver.num)
    BY <1>1, <1>2, <1>4, <2>1, <2>3 DEF BestInv
  <2> QED
    BY <2>2, <2>3 DEF BestInv
<1>5. CASE Candidate(d, ns, name) /\ best = << >>
  <2>1. BestStep(best, order[i + 1], ns, name) = << order[i + 1] >>
    BY <1>1, <1>5 DEF BestStep, Candidate
  <2>2. \A m \in 1 .. i : ~Candidate(order[m], ns, name)
    BY <1>5 DEF BestInv
  <2>3. ~Higher(d.ver.num, d.ver.num)
    BY <1>1, <1>2, <1>3, <1>5, HigherIsOrder
  <2>4. \A m \in 1 .. i + 1 : Candidate(order[m], ns, name) => ~Higher(order[m].ver.num, order[i + 1].ver.num)
    BY <1>1, <1>2, <2>2, <2>3
  <2> QED
    BY <1>1, <1>2, <1>5, <2>1, <2>4 DEF BestInv
<1>6. CASE Candidate(d, ns, name) /\ best # << >>
  <2>1. PICK j \in 1 .. i :
               /\ best = << order[j] >> /\ Candidate(order[j], ns, name)
               /\ \A m \in 1 .. i : Candidate(order[m], ns, name) => ~Higher(order[m].ver.num, order[j].ver.num)
    BY <1>6 DEF BestInv
  <2>2. d.ver.num \in Numbers /\ order[j].ver.num \in Numbers
    BY <1>1, <1>2, <1>3, <1>6, <2>1
  <2>3. CASE Higher(d.ver.num, order[j].ver.num)
    <3>1. BestStep(best, order[i + 1], ns, name) = << order[i + 1] >>
      BY <1>1, <1>6, <2>1, <2>2, <2>3, ComparisonIsOrder DEF BestStep, Candidate
    <3>2. ASSUME NEW m \in 1 .. i + 1, Candidate(order[m], ns, name)
          PROVE  ~Higher(order[m].ver.num, order[i + 1].ver.num)
      <4>1. order[m].ver.num \in Numbers
        BY <1>3, <3>2
      <4>2. CASE m = i + 1
        BY <1>1, <2>2, <4>2, HigherIsOrder
      <4>3. CASE m \in 1 .. i
        BY <1>1, <2>1, <2>2, <2>3, <3>2, <4>1, <4>3, HigherIsOrder
      <4> QED
        BY <1>2, <4>2, <4>3
    <3> QED
      BY <1>1, <1>2, <1>6, <3>1, <3>2 DEF BestInv
  <2>4. CASE ~Higher(d.ver.num, order[j].ver.num)
    <3>1. BestStep(best, order[i + 1], ns, name) = best
      BY <1>1, <1>6, <2>1, <2>2, <2>4, ComparisonIsOrder DEF BestStep
    <3> QED
      BY <1>1, <1>2, <2>1, <2>4, <3>1 DEF BestInv
  <2> QED
    BY <2>3, <2>4
<1> QED
  BY <1>4, <1>5, <1>6

\* After the last round best speaks of all definitions.
LEMMA BestLoopInv ==
    ASSUME NEW n \in Nat, NEW S, Readable(S), NEW order \in [1 .. n -> S], NEW ns, NEW name
    PROVE  BestInv(BestLoop(order, ns, name), order, n, ns, name)
<1>1. Len(order) = n
  BY LenProperties, SeqDef
<1>2. PICK best : /\ best = [i \in 0 .. n |->
                               IF i = 0 THEN << >> ELSE BestStep(best[i - 1], order[i], ns, name)]
                  /\ BestLoop(order, ns, name) = best[n]
  <2>1. Len(order) \in Nat
    BY <1>1
  <2>2. \E best : /\ best = [i \in 0 .. Len(order) |->
                               IF i = 0 THEN << >> ELSE BestStep(best[i - 1], order[i], ns, name)]
                  /\ BestLoop(order, ns, name) = best[Len(order)]
    BY <2>1, BestLoopDef, Zenon
  <2> QED
    BY <1>1, <2>2, Zenon
<1> DEFINE T == {i \in Nat : i <= n => BestInv(best[i], order, i, ns, name)}
<1>3. 0 \in T
  <2>1. best[0] = << >>
    BY <1>2
  <2>2. BestInv(<< >>, order, 0, ns, name)
    BY DEF BestInv
  <2> QED
    BY <2>1, <2>2
<1>4. ASSUME NEW i \in Nat, i \in T PROVE i + 1 \in T
  <2> SUFFICES ASSUME i + 1 <= n PROVE BestInv(best[i + 1], order, i + 1, ns, name)
    OBVIOUS
  <2>1. BestInv(best[i], order, i, ns, name)
    BY <1>4
  <2>2. best[i + 1] = BestStep(best[i], order[i + 1], ns, name)
    <3>1. i + 1 \in 0 .. n /\ i + 1 # 0 /\ (i + 1) - 1 = i
      OBVIOUS
    <3> QED
      BY <1>2, <3>1
  <2> QED
    BY <2>1, <2>2, BestStepInv
<1>5. n \in T
  <2> HIDE DEF T
  <2> QED
    BY <1>3, <1>4, SetInduction
<1> QED
  BY <1>2, <1>5

\* GetEvent without a version answers the highest readable version of the active ones.
THEOREM ActiveIsLatest ==
    ASSUME NEW S, IsFiniteSet(S), Readable(S), Distinct(S), NEW order \in SetToSeqs(S),
           NEW ns, NEW name
    PROVE  Range(BestLoop(order, ns, name))
             = {e \in Latest({x \in S : x.status = "active"}) : e.ns = ns /\ e.name = name}
<1>1. PICK n \in Nat : /\ order \in [1 .. n -> S]
                       /\ \A d \in S : \E i \in 1 .. n : order[i] = d
  BY OrdersOf
<1>2. PICK A : A = {x \in S : x.status = "active"}
  OBVIOUS
<1>3. PICK best : best = BestLoop(order, ns, name)
  OBVIOUS
<1>4. BestInv(best, order, n, ns, name)
  BY <1>1, <1>3, BestLoopInv
<1>5. A \subseteq S /\ Readable(A) /\ Distinct(A)
  BY <1>2 DEF Readable, Distinct
<1>6. \A e \in Latest(A) : e \in S /\ e.status = "active" /\ Parses(e.ver)
  BY <1>2 DEF Latest
<1>7. CASE best = << >> /\ \A m \in 1 .. n : ~Candidate(order[m], ns, name)
  <2>1. Range(best) = {}
    BY <1>7 DEF Range
  <2>2. ASSUME NEW e \in Latest(A), e.ns = ns, e.name = name PROVE FALSE
    <3>1. PICK m \in 1 .. n : order[m] = e
      BY <1>1, <1>6
    <3> QED
      BY <1>6, <1>7, <2>2, <3>1 DEF Candidate
  <2> QED
    BY <1>2, <1>3, <2>1, <2>2
<1>8. CASE \E j \in 1 .. n :
            /\ best = << order[j] >> /\ Candidate(order[j], ns, name)
            /\ \A m \in 1 .. n : Candidate(order[m], ns, name) => ~Higher(order[m].ver.num, order[j].ver.num)
  <2>1. PICK j \in 1 .. n :
            /\ best = << order[j] >> /\ Candidate(order[j], ns, name)
            /\ \A m \in 1 .. n : Candidate(order[m], ns, name) => ~Higher(order[m].ver.num, order[j].ver.num)
    BY <1>8
  <2>2. PICK d \in S : d = order[j]
    BY <1>1
  <2>3. Range(best) = {d}
    BY <2>1, <2>2 DEF Range
  <2>4. d \in A /\ Parses(d.ver) /\ d.ns = ns /\ d.name = name
    BY <1>2, <2>1, <2>2 DEF Candidate
  <2>5. ASSUME NEW e \in A, Parses(e.ver), e.ns = d.ns, e.name = d.name
        PROVE  ~Higher(e.ver.num, d.ver.num)
    <3>1. e \in S /\ e.status = "active"
      BY <1>2
    <3>2. PICK m \in 1 .. n : order[m] = e
      BY <1>1, <3>1
    <3>3. Candidate(order[m], ns, name)
      BY <2>4, <2>5, <3>1, <3>2 DEF Candidate
    <3> QED
      BY <2>1, <2>2, <3>2, <3>3
  <2>6. d \in Latest(A)
    BY <2>4, <2>5 DEF Latest
  <2>7. \A e \in Latest(A) : e.ns = ns /\ e.name = name => e = d
    BY <1>5, <2>4, <2>6, LatestOne
  <2> QED
    BY <1>2, <1>3, <2>3, <2>4, <2>6, <2>7
<1> QED
  BY <1>4, <1>7, <1>8 DEF BestInv

-----------------------------------------------------------------------------
(* The local registry: types.                                              *)

Notes == [op : {"create", "write", "remove", "rename"}, yaml : BOOLEAN]

\* Three finite maps.
IndexFun(i) ==
  /\ i = [k \in Kinds |-> i[k]]
  /\ \A k \in Kinds : i[k] = [x \in DOMAIN i[k] |-> i[k][x]] /\ IsFiniteSet(DOMAIN i[k])

\* TypeOK with what its induction needs: the tree is closed under Parent.
DiskInv ==
  /\ disk = [f \in Files |-> disk[f]]
  /\ \A f \in Files : disk[f] \in Contents(f) /\ (disk[f] # Absent => Parent[f] \in dirs)
  /\ dirs \subseteq Dirs /\ watched \subseteq dirs
  /\ \A d \in dirs \ Roots : Parent[d] \in dirs
WalkType ==
  /\ walk = [pending |-> walk.pending, got |-> walk.got]
  /\ walk.pending \subseteq Nodes
  /\ IndexOK(walk.got) /\ IndexFun(walk.got)
TypeInv ==
  /\ DiskInv /\ WalkType
  /\ notes \in Seq(Notes)
  /\ IndexOK(index) /\ IndexFun(index)
  /\ pc \in {"loading", "adding", "waiting", "reloading", "stopped", "failed"}
  /\ silent \in BOOLEAN /\ edits \in 0 .. MaxEdits

\* The entries of the tree.
LEMMA TreeFacts ==
    /\ Nodes = Dirs \cup Files /\ Dirs \cap Files = {} /\ Roots \subseteq Dirs /\ SpecsDir \in Roots
    /\ DOMAIN Parent = Nodes \ Roots
    /\ \A n \in Nodes \ Roots : Parent[n] \in Dirs /\ Rank[Parent[n]] < Rank[n] /\ Parent[n] # n
    /\ \A n \in Nodes : Rank[n] \in Nat
    /\ \A m, n \in Nodes : Rank[m] = Rank[n] => m = n
    /\ \A f \in Files : f \in Nodes \ Roots /\ f \notin Dirs
<1>1. Nodes = Dirs \cup Files
  BY DEF Nodes
<1>2. DOMAIN Parent = Nodes \ Roots /\ \A n \in Nodes \ Roots : Parent[n] \in Dirs
  BY TreeAssumption
<1>3. \A n \in Nodes : Rank[n] \in Nat
  BY TreeAssumption
<1>4. \A n \in Nodes \ Roots : Rank[Parent[n]] < Rank[n] /\ Parent[n] # n
  BY <1>1, <1>2, <1>3, TreeAssumption
<1> QED
  BY <1>1, <1>2, <1>3, <1>4, TreeAssumption

\* The empty index that loadAll and reindex start from.
LEMMA NoIndexOK == IndexOK(NoIndex) /\ IndexFun(NoIndex) /\ \A k \in Kinds : DOMAIN NoIndex[k] = {}
<1>1. NoIndex = [k \in Kinds |-> << >>] /\ DOMAIN << >> = {}
  BY DEF NoIndex
<1>2. << >> = [x \in {} |-> << >>[x]]
  OBVIOUS
<1>3. IsFiniteSet({})
  BY FS_EmptySet
<1> QED
  BY <1>1, <1>2, <1>3 DEF IndexOK, IndexFun

\* A file that holds a document holds one of its versions.
LEMMA ContentsForms ==
    ASSUME NEW f \in Files, NEW c \in Contents(f)
    PROVE  /\ c.form \in {"absent", "empty", "broken", "doc"}
           /\ c.form = "absent" <=> c = Absent
           /\ c.form = "empty" <=> c = Empty
           /\ c.form = "broken" <=> c = Broken
           /\ c.form = "doc" => c.def \in Versions[f]
BY DEF Contents, Absent, Empty, Broken, Doc

\* What one file adds to the maps.
LEMMA StoreDoes ==
    ASSUME NEW got, IndexOK(got), IndexFun(got), NEW f \in Files, NEW c \in Contents(f),
           NEW kind, kind = KindOf[f], NEW key, key = IndexKey(kind, c),
           NEW new, new = Store(got, kind, c)
    PROVE  /\ IndexOK(new) /\ IndexFun(new)
           /\ ~Indexed(kind, c) => new = got
           /\ Indexed(kind, c) =>
                /\ \A k \in Kinds \ {kind} : new[k] = got[k]
                /\ DOMAIN new[kind] = DOMAIN got[kind] \cup {key}
                /\ new[kind][key] = c
                /\ \A x \in DOMAIN got[kind] \ {key} : new[kind][x] = got[kind][x]
<1>1. kind \in Kinds /\ c \in Holds(kind)
  BY ContentsAssumption DEF Holds
<1>2. CASE ~Indexed(kind, c)
  BY <1>2 DEF Store
<1>3. CASE Indexed(kind, c)
  <2>1. PICK m : m = [x \in DOMAIN got[kind] \cup {key} |-> IF x = key THEN c ELSE got[kind][x]]
    OBVIOUS
  <2>2. new = [got EXCEPT ![kind] = m]
    BY <1>3, <2>1 DEF Store
  <2>3. got = [k \in Kinds |-> got[k]]
    BY DEF IndexFun
  <2>5. DOMAIN new = Kinds /\ new[kind] = m /\ \A k \in Kinds \ {kind} : new[k] = got[k]
    BY <1>1, <2>2, <2>3
  <2>6. new = [k \in Kinds |-> new[k]]
    BY <1>1, <2>2, <2>3
  <2>7. IsFiniteSet(DOMAIN got[kind])
    BY <1>1 DEF IndexFun
  <2>8. IsFiniteSet(DOMAIN got[kind] \cup {key})
    BY <2>7, FS_AddElement
  <2>9. DOMAIN m = DOMAIN got[kind] \cup {key} /\ m = [x \in DOMAIN m |-> m[x]]
    BY <2>1
  <2>10. m[key] = c /\ \A x \in DOMAIN got[kind] \ {key} : m[x] = got[kind][x]
    BY <2>1
  <2>11. IndexFun(new)
    <3>1. ASSUME NEW k \in Kinds PROVE new[k] = [x \in DOMAIN new[k] |-> new[k][x]] /\ IsFiniteSet(DOMAIN new[k])
      <4>1. CASE k = kind
        BY <2>5, <2>8, <2>9, <4>1
      <4>2. CASE k # kind
        BY <2>5, <4>2 DEF IndexFun
      <4> QED
        BY <4>1, <4>2
    <3> QED
      BY <2>6, <3>1 DEF IndexFun
  <2>12. ASSUME NEW k \in Kinds, NEW x \in DOMAIN new[k]
         PROVE  new[k][x] \in Holds(k) /\ Indexed(k, new[k][x]) /\ IndexKey(k, new[k][x]) = x
    <3>1. CASE k # kind
      BY <2>5, <3>1 DEF IndexOK
    <3>2. CASE k = kind /\ x = key
      BY <1>1, <1>3, <2>5, <2>10, <3>2
    <3>3. CASE k = kind /\ x # key
      <4>1. x \in DOMAIN got[kind] /\ new[k][x] = got[kind][x]
        BY <2>5, <2>9, <2>10, <3>3
      <4> QED
        BY <1>1, <3>3, <4>1 DEF IndexOK
    <3> QED
      BY <3>1, <3>2, <3>3
  <2>13. IndexOK(new)
    BY <2>5, <2>12 DEF IndexOK
  <2> QED
    BY <1>3, <2>5, <2>9, <2>10, <2>11, <2>13
<1> QED
  BY <1>2, <1>3

\* The types hold at the start.
LEMMA TypeInit == Init => TypeInv
<1> SUFFICES ASSUME Init PROVE TypeInv
  OBVIOUS
<1>1. disk = [f \in Files |-> disk[f]]
  BY DEF Init
<1>2. ASSUME NEW f \in Files PROVE disk[f] \in Contents(f) /\ (disk[f] # Absent => Parent[f] \in dirs)
  BY DEF Init, Contents, Doc, Absent
<1>3. DiskInv
  BY <1>1, <1>2, ContentsAssumption DEF Init, DiskInv
<1>4. walk = [pending |-> Roots, got |-> NoIndex]
  BY DEF Init, FreshWalk
<1>5. WalkType
  BY <1>4, NoIndexOK, TreeFacts DEF WalkType
<1>6. notes \in Seq(Notes)
  BY DEF Init
<1>7. edits \in 0 .. MaxEdits
  BY BoundAssumption DEF Init
<1> QED
  BY <1>3, <1>5, <1>6, <1>7, NoIndexOK DEF Init, TypeInv

\* An edit keeps the types and raises an event that Start handles, or is silent.
LEMMA EditDoes ==
    ASSUME TypeInv, NEW f \in Files, NEW c \in Contents(f),
           NEW op \in {"create", "write", "remove", "rename"}, Edit(f, c, op)
    PROVE  /\ TypeInv'
           /\ silent' \/ \E i \in DOMAIN notes' : Handled(notes'[i])
<1>1. PICK note : note = [op |-> op, yaml |-> TRUE]
  OBVIOUS
<1>2. note \in Notes /\ note.op = op /\ note.yaml = TRUE
  BY <1>1 DEF Notes
<1>3. /\ edits < MaxEdits /\ Parent[f] \in dirs /\ edits' = edits + 1
      /\ disk' = [disk EXCEPT ![f] = c] /\ Notify(Parent[f], note)
      /\ UNCHANGED << dirs, watched, index, walk, pc >>
  BY <1>1 DEF Edit
<1>4. edits' \in 0 .. MaxEdits
  BY <1>3, BoundAssumption DEF TypeInv
<1>5. disk' = [g \in Files |-> disk'[g]] /\ \A g \in Files : disk'[g] = IF g = f THEN c ELSE disk[g]
  BY <1>3 DEF TypeInv, DiskInv
<1>6. DiskInv'
  <2>1. \A g \in Files : disk'[g] \in Contents(g) /\ (disk'[g] # Absent => Parent[g] \in dirs')
    BY <1>3, <1>5 DEF TypeInv, DiskInv
  <2> QED
    BY <1>3, <1>5, <2>1 DEF TypeInv, DiskInv
<1>7. CASE Parent[f] \in watched /\ Len(notes) < QueueMax
  <2>1. notes' = Append(notes, note) /\ silent' = (silent \/ note.op = "rename")
    BY <1>3, <1>7 DEF Notify
  <2>2. silent \in BOOLEAN /\ notes \in Seq(Notes)
    BY DEF TypeInv
  <2>3. silent' \in BOOLEAN
    BY <2>1
  <2>4. notes' \in Seq(Notes) /\ Len(notes) + 1 \in DOMAIN notes' /\ notes'[Len(notes) + 1] = note
    BY <1>2, <2>1, <2>2, AppendProperties, LenProperties
  <2>5. op # "rename" => Handled(note)
    BY <1>2 DEF Handled
  <2>6. op = "rename" => silent'
    BY <1>2, <2>1
  <2>7. WalkType'
    BY <1>3 DEF TypeInv, WalkType
  <2>8. TypeInv'
    BY <1>3, <1>4, <1>6, <2>3, <2>4, <2>7 DEF TypeInv
  <2> QED
    BY <2>4, <2>5, <2>6, <2>8
<1>8. CASE ~(Parent[f] \in watched /\ Len(notes) < QueueMax)
  <2>1. silent' = TRUE /\ notes' = notes
    BY <1>3, <1>8 DEF Notify
  <2>2. WalkType'
    BY <1>3 DEF TypeInv, WalkType
  <2>3. TypeInv'
    BY <1>3, <1>4, <1>6, <2>1, <2>2 DEF TypeInv
  <2> QED
    BY <2>1, <2>3
<1> QED
  BY <1>7, <1>8

\* So does every action of an editor on a file.
LEMMA FileEditDoes ==
    ASSUME TypeInv, NEW f \in Files,
           Truncate(f) \/ Fill(f) \/ Delete(f) \/ MoveAway(f) \/ MoveIn(f)
    PROVE  /\ TypeInv'
           /\ silent' \/ \E i \in DOMAIN notes' : Handled(notes'[i])
<1>1. CASE Truncate(f)
  <2>1. PICK op \in {"create", "write", "remove", "rename"} : Edit(f, Empty, op)
    BY <1>1 DEF Truncate
  <2>2. Empty \in Contents(f)
    BY DEF Contents
  <2> QED
    BY <2>1, <2>2, EditDoes
<1>2. CASE Fill(f)
  <2>1. PICK c \in {Broken} \cup {Doc(d) : d \in Versions[f]} : Edit(f, c, "write")
    BY <1>2 DEF Fill
  <2>2. c \in Contents(f)
    BY DEF Contents
  <2> QED
    BY <2>1, <2>2, EditDoes
<1>3. CASE Delete(f) \/ MoveAway(f)
  <2>1. PICK op \in {"create", "write", "remove", "rename"} : Edit(f, Absent, op)
    BY <1>3 DEF Delete, MoveAway
  <2>2. Absent \in Contents(f)
    BY DEF Contents
  <2> QED
    BY <2>1, <2>2, EditDoes
<1>4. CASE MoveIn(f)
  <2>1. PICK d \in Versions[f] : Edit(f, Doc(d), "create")
    BY <1>4 DEF MoveIn
  <2>2. Doc(d) \in Contents(f)
    BY DEF Contents
  <2> QED
    BY <2>1, <2>2, EditDoes
<1> QED
  BY <1>1, <1>2, <1>3, <1>4

\* What a step of a walk leaves.
LEMMA WalkMoves ==
    ASSUME WalkType, NEW P, P \subseteq Nodes, walk' = [walk EXCEPT !.pending = P]
    PROVE  WalkType' /\ walk'.pending = P /\ walk'.got = walk.got
<1>1. walk = [pending |-> walk.pending, got |-> walk.got]
  BY DEF WalkType
<1>2. walk' = [pending |-> P, got |-> walk.got]
  BY <1>1
<1> QED
  BY <1>2 DEF WalkType

\* Where a walk stands after a step that moves it.
LEMMA WalkBecomes ==
    ASSUME NEW P, NEW g, P \subseteq Nodes, walk' = [pending |-> P, got |-> g],
           IndexOK(g), IndexFun(g)
    PROVE  WalkType' /\ walk'.pending = P /\ walk'.got = g
BY DEF WalkType

\* What WalkDir reads from a directory is in the tree, and no root.
LEMMA EntriesAreNodes == \A d : Entries(d) \subseteq Nodes \ Roots
BY TreeFacts DEF Entries

\* WalkFails keeps the types, and the index.
LEMMA FailKeepsTypes ==
    ASSUME TypeInv, Walking, WalkFails, UNCHANGED << disk, dirs, watched, notes, index, silent, edits >>
    PROVE  TypeInv'
<1>1. WalkType'
  BY NoIndexOK, WalkBecomes DEF WalkFails
<1>2. DiskInv'
  BY DEF TypeInv, DiskInv
<1> QED
  BY <1>1, <1>2 DEF TypeInv, WalkFails

\* The steps of a walk keep the types.
LEMMA WalkKeepsTypes ==
    ASSUME TypeInv, NEW P, NEW g, P \subseteq Nodes, IndexOK(g), IndexFun(g),
           walk' = [walk EXCEPT !.pending = P] \/ walk' = [pending |-> P, got |-> g],
           UNCHANGED << disk, dirs, notes, index, silent, edits >>, watched' \subseteq dirs,
           pc' \in {"loading", "adding", "waiting", "reloading", "stopped", "failed"}
    PROVE  TypeInv'
<1>1. WalkType'
  BY WalkMoves, WalkBecomes DEF TypeInv
<1>2. DiskInv'
  BY DEF TypeInv, DiskInv
<1> QED
  BY <1>1, <1>2 DEF TypeInv

\* Every step keeps the types.
LEMMA TypeStep == TypeInv /\ [Next]_vars => TypeInv'
<1> SUFFICES ASSUME TypeInv, [Next]_vars PROVE TypeInv'
  OBVIOUS
<1>1. ASSUME NEW d \in Dirs, VisitDir(d) PROVE TypeInv'
  <2>1. watched' \subseteq dirs /\ UNCHANGED << disk, dirs, watched, notes, index, silent, edits >> /\ Walking
    BY <1>1 DEF VisitDir, TypeInv, DiskInv
  <2>2. walk.pending \subseteq Nodes /\ IndexOK(walk.got) /\ IndexFun(walk.got)
    BY DEF TypeInv, WalkType
  <2>3. (walk.pending \ {d}) \cup Entries(d) \subseteq Nodes /\ walk.pending \ {d} \subseteq Nodes
    BY <2>2, EntriesAreNodes
  <2>4. CASE d \in dirs /\ walk' = [walk EXCEPT !.pending = (walk.pending \ {d}) \cup Entries(d)] /\ pc' = pc
    BY <2>1, <2>2, <2>3, <2>4, WalkKeepsTypes DEF TypeInv
  <2>5. CASE walk' = [walk EXCEPT !.pending = walk.pending \ {d}] /\ pc' = pc
    BY <2>1, <2>2, <2>3, <2>5, WalkKeepsTypes DEF TypeInv
  <2>6. CASE WalkFails
    BY <2>1, <2>6, FailKeepsTypes
  <2> QED
    BY <1>1, <2>4, <2>5, <2>6 DEF VisitDir
<1>2. ASSUME NEW f \in Files, VisitFile(f) PROVE TypeInv'
  <2>1. watched' \subseteq dirs /\ UNCHANGED << disk, dirs, watched, notes, index, silent, edits >> /\ Walking
    BY <1>2 DEF VisitFile, TypeInv, DiskInv
  <2>2. /\ walk.pending \ {f} \subseteq Nodes /\ IndexOK(walk.got) /\ IndexFun(walk.got)
        /\ disk[f] \in Contents(f)
    BY DEF TypeInv, WalkType, DiskInv
  <2>3. PICK g : g = Store(walk.got, KindOf[f], disk[f])
    OBVIOUS
  <2>4. IndexOK(g) /\ IndexFun(g)
    BY <2>2, <2>3, StoreDoes
  <2>5. CASE walk' = [pending |-> walk.pending \ {f}, got |-> g] /\ pc' = pc
    BY <2>1, <2>2, <2>4, <2>5, WalkKeepsTypes DEF TypeInv
  <2>6. CASE WalkFails
    BY <2>1, <2>6, FailKeepsTypes
  <2> QED
    BY <1>2, <2>3, <2>5, <2>6 DEF VisitFile
<1>3. CASE Install
  <2>1. PICK P : P \subseteq Nodes /\ walk' = [pending |-> P, got |-> NoIndex]
    BY <1>3, TreeFacts DEF Install
  <2>2. WalkType'
    BY <2>1, NoIndexOK, WalkBecomes
  <2>3. IndexOK(index') /\ IndexFun(index')
    BY <1>3 DEF Install, TypeInv, WalkType
  <2>4. DiskInv'
    BY <1>3 DEF Install, TypeInv, DiskInv
  <2> QED
    BY <1>3, <2>2, <2>3, <2>4 DEF Install, TypeInv
<1>4. ASSUME NEW n \in Nodes, AddDir(n) PROVE TypeInv'
  <2>1. UNCHANGED << disk, dirs, notes, index, silent, edits >>
    BY <1>4 DEF AddDir
  <2>2. walk.pending \subseteq Nodes /\ IndexOK(walk.got) /\ IndexFun(walk.got) /\ watched \subseteq dirs
    BY DEF TypeInv, WalkType, DiskInv
  <2>3. watched' \subseteq dirs
    BY <1>4, <2>2 DEF AddDir
  <2>4. pc' \in {"loading", "adding", "waiting", "reloading", "stopped", "failed"}
    BY <1>4 DEF AddDir, TypeInv
  <2>5. PICK P : P \subseteq Nodes /\ walk' = [walk EXCEPT !.pending = P]
    BY <1>4, <2>2, EntriesAreNodes DEF AddDir
  <2> QED
    BY <2>1, <2>2, <2>3, <2>4, <2>5, WalkKeepsTypes
<1>5. CASE Start \/ Stop
  <2>1. UNCHANGED << disk, dirs, watched, notes, index, walk, silent, edits >> /\ pc' \in {"waiting", "stopped"}
    BY <1>5 DEF Start, Stop
  <2>2. DiskInv' /\ WalkType'
    BY <2>1 DEF TypeInv, DiskInv, WalkType
  <2> QED
    BY <2>1, <2>2 DEF TypeInv
<1>6. CASE Receive
  <2>1. notes \in Seq(Notes) /\ notes # << >> /\ notes' = Tail(notes)
    BY <1>6 DEF TypeInv, Receive
  <2>2. notes' \in Seq(Notes)
    BY <2>1, HeadTailProperties
  <2>3. DiskInv'
    BY <1>6 DEF Receive, TypeInv, DiskInv
  <2>4. CASE Handled(Head(notes))
    <3>1. pc' = "reloading" /\ walk' = FreshWalk /\ silent' = FALSE /\ UNCHANGED << index, edits >>
      BY <1>6, <2>4 DEF Receive
    <3>2. WalkType'
      BY <3>1, NoIndexOK, WalkBecomes, TreeFacts DEF FreshWalk
    <3> QED
      BY <2>2, <2>3, <3>1, <3>2 DEF TypeInv
  <2>5. CASE ~Handled(Head(notes))
    <3>1. UNCHANGED << pc, walk, silent, index, edits >>
      BY <1>6, <2>5 DEF Receive
    <3>2. WalkType'
      BY <3>1 DEF TypeInv, WalkType
    <3> QED
      BY <2>2, <2>3, <3>1, <3>2 DEF TypeInv
  <2> QED
    BY <2>4, <2>5
<1>7. ASSUME NEW f \in Files, Truncate(f) \/ Fill(f) \/ Delete(f) \/ MoveAway(f) \/ MoveIn(f) PROVE TypeInv'
  BY <1>7, FileEditDoes
<1>8. ASSUME NEW d \in Dirs, Mkdir(d) PROVE TypeInv'
  <2>1. /\ edits < MaxEdits /\ d \notin dirs /\ (d \notin Roots => Parent[d] \in dirs)
        /\ edits' = edits + 1 /\ dirs' = dirs \cup {d} /\ silent' = (silent \/ d = SpecsDir)
        /\ UNCHANGED << disk, watched, notes, index, walk, pc >>
    BY <1>8 DEF Mkdir
  <2>2. DiskInv'
    BY <2>1 DEF TypeInv, DiskInv
  <2>3. silent' \in BOOLEAN
    BY <2>1
  <2>4. edits' \in 0 .. MaxEdits
    BY <2>1, BoundAssumption DEF TypeInv
  <2>5. WalkType'
    BY <2>1 DEF TypeInv, WalkType
  <2> QED
    BY <2>1, <2>2, <2>3, <2>4, <2>5 DEF TypeInv
<1>9. ASSUME NEW d \in Dirs, Rmdir(d) PROVE TypeInv'
  <2>1. /\ edits < MaxEdits /\ d \in dirs /\ Entries(d) = {}
        /\ edits' = edits + 1 /\ dirs' = dirs \ {d} /\ watched' = watched \ {d} /\ silent' = TRUE
        /\ UNCHANGED << disk, notes, index, walk, pc >>
    BY <1>9 DEF Rmdir
  <2>2. \A f \in Files : disk[f] # Absent => Parent[f] # d
    BY <2>1, TreeFacts DEF Entries, Exists
  <2>3. \A e \in dirs \ Roots : Parent[e] # d
    <3>1. dirs \subseteq Dirs
      BY DEF TypeInv, DiskInv
    <3> QED
      BY <2>1, <3>1, TreeFacts DEF Entries, Exists
  <2>4. DiskInv'
    BY <2>1, <2>2, <2>3 DEF TypeInv, DiskInv
  <2>5. edits' \in 0 .. MaxEdits
    BY <2>1, BoundAssumption DEF TypeInv
  <2>6. WalkType'
    BY <2>1 DEF TypeInv, WalkType
  <2> QED
    BY <2>1, <2>4, <2>5, <2>6 DEF TypeInv
<1>10. CASE UNCHANGED vars
  <2>1. DiskInv' /\ WalkType'
    BY <1>10 DEF vars, TypeInv, DiskInv, WalkType
  <2> QED
    BY <1>10, <2>1 DEF vars, TypeInv
<1> QED
  BY <1>1, <1>2, <1>3, <1>4, <1>5, <1>6, <1>7, <1>8, <1>9, <1>10 DEF Next, Registry, Editors

\* registry/local/resolver.go:18, watcher.go:14: every file holds what it may hold inside a
\* directory that exists, and every entry of an index stands under its own key, for any
\* tree, any contents and any queue.
THEOREM LocalTypes == Spec => []TypeOK
<1>1. TypeInv => TypeOK
  <2> SUFFICES ASSUME TypeInv PROVE TypeOK
    OBVIOUS
  <2>1. \A i \in DOMAIN notes : notes[i] \in Notes
    BY ElementOfSeq, LenProperties DEF TypeInv
  <2>2. \A i \in DOMAIN notes : notes[i].op \in {"create", "write", "remove", "rename"}
    BY <2>1 DEF Notes
  <2> QED
    BY <2>2 DEF TypeInv, DiskInv, WalkType, TypeOK
<1> QED
  BY <1>1, TypeInit, TypeStep, PTL DEF Spec

-----------------------------------------------------------------------------
(* The local registry: what the index holds.                               *)

\* Every change raised an event that is handled, and all those have been handled.
Settled == ~silent /\ \A i \in DOMAIN notes : ~Handled(notes[i])

Keyed(f, kind, key) ==
  KindOf[f] = kind /\ Indexed(kind, disk[f]) /\ IndexKey(kind, disk[f]) = key

\* got is what the files of V hold; the last of those with one key has it.
GotFrom(V, got) ==
  \A kind \in Kinds :
    /\ \A f \in V \cap Files :
         KindOf[f] = kind /\ Indexed(kind, disk[f]) => IndexKey(kind, disk[f]) \in DOMAIN got[kind]
    /\ \A key \in DOMAIN got[kind] : \E f \in V \cap Files :
         /\ Keyed(f, kind, key) /\ got[kind][key] = disk[f]
         /\ \A g \in V \cap Files : Keyed(g, kind, key) => Rank[g] <= Rank[f]

\* A walk of a tree that does not change: V is what it has visited, E are directories made
\* since it began, which hold nothing but each other.
Covers(V, E, pending) ==
  /\ V \subseteq Nodes /\ E \subseteq Dirs
  /\ \A m \in V, n \in pending : Rank[m] < Rank[n]
  /\ \A n \in pending \ Roots : Exists(n)
  /\ \A n \in Nodes \ E :
       Exists(n) /\ (n \in Roots \/ Parent[n] \in V) => n \in V \cup pending
  /\ \A n \in Nodes \ Roots : Exists(n) /\ Parent[n] \in E => n \in E

WalkInv == \E V, E : Covers(V, E, walk.pending) /\ GotFrom(V, walk.got)

\* The invariant of Fresh.
WatchInv ==
  Settled =>
    /\ Walking => WalkInv
    /\ pc \in {"adding", "waiting"} /\ Loads => index = OnDisk

\* What is in the tree below a directory is reached through its parent.
LEMMA EntryInTree ==
    ASSUME TypeInv, NEW n \in Nodes \ Roots, Exists(n)
    PROVE  Parent[n] \in dirs /\ Parent[n] \in Nodes /\ Exists(Parent[n])
<1>1. dirs \subseteq Dirs
  BY DEF TypeInv, DiskInv
<1>2. Parent[n] \in dirs
  <2>1. CASE n \in Dirs
    BY <2>1 DEF Exists, TypeInv, DiskInv
  <2>2. CASE n \in Files
    BY <2>2, TreeFacts DEF Exists, TypeInv, DiskInv
  <2> QED
    BY <2>1, <2>2, TreeFacts
<1> QED
  BY <1>1, <1>2, TreeFacts DEF Exists

\* A walk with nothing left to visit has visited every file.
LEMMA WalkEnds ==
    ASSUME TypeInv, NEW V, NEW E, Covers(V, E, {}), NEW f \in Files, disk[f] # Absent
    PROVE  f \in V
<1> DEFINE Missed == {n \in Nodes \ (V \cup E) : Exists(n)}
           T == {Rank[n] : n \in Missed}
<1> SUFFICES ASSUME f \notin V PROVE FALSE
  OBVIOUS
<1>1. E \subseteq Dirs /\ f \in Nodes /\ f \notin Dirs
  BY TreeFacts DEF Covers
<1>2. f \in Missed
  BY <1>1 DEF Exists
<1>3. T \subseteq Nat /\ T # {}
  BY <1>2, TreeFacts
<1>4. PICK r \in T : \A x \in T : r <= x
  <2> HIDE DEF T
  <2> QED
    BY <1>3, LeastNumber
<1>5. PICK n \in Missed : r = Rank[n]
  OBVIOUS
<1>6. n \in Nodes /\ n \notin V /\ n \notin E /\ Exists(n)
  OBVIOUS
<1>7. n \notin Roots /\ Parent[n] \notin V
  BY <1>6 DEF Covers
<1>8. Parent[n] \in Nodes /\ Exists(Parent[n])
  BY <1>6, <1>7, EntryInTree
<1>9. Parent[n] \notin E
  BY <1>6, <1>7 DEF Covers
<1>10. Parent[n] \in Missed
  BY <1>7, <1>8, <1>9
<1>11. Rank[Parent[n]] \in T
  BY <1>10
<1>12. Rank[n] <= Rank[Parent[n]]
  BY <1>4, <1>5, <1>11
<1> QED
  BY <1>6, <1>7, <1>8, <1>12, TreeFacts

\* Then what it got is what the tree holds.
LEMMA GotIsOnDisk ==
    ASSUME TypeInv, NEW V, NEW got, GotFrom(V, got), IndexFun(got),
           \A f \in Files : disk[f] # Absent => f \in V
    PROVE  got = OnDisk
<1>1. \A f \in Files, kind \in Kinds : Indexed(kind, disk[f]) => f \in V \cap Files
  <2>1. \A f \in Files : disk[f] \in Contents(f)
    BY DEF TypeInv, DiskInv
  <2> QED
    BY <2>1, ContentsForms DEF Indexed, Absent
<1>2. ASSUME NEW kind \in Kinds PROVE got[kind] = OnDisk[kind]
  <2>1. OnDisk[kind] = [key \in KeysOnDisk(kind) |-> disk[CHOOSE f \in Files : Winner(kind, key, f)]]
    BY DEF OnDisk
  <2>2. ASSUME NEW key \in DOMAIN got[kind]
        PROVE  key \in KeysOnDisk(kind) /\ got[kind][key] = disk[CHOOSE f \in Files : Winner(kind, key, f)]
    <3>1. PICK f \in V \cap Files :
            /\ Keyed(f, kind, key) /\ got[kind][key] = disk[f]
            /\ \A g \in V \cap Files : Keyed(g, kind, key) => Rank[g] <= Rank[f]
      BY DEF GotFrom
    <3>2. key \in KeysOnDisk(kind)
      BY <3>1 DEF Keyed, KeysOnDisk
    <3>3. Winner(kind, key, f)
      BY <1>1, <3>1 DEF Winner, Keyed
    <3>4. ASSUME NEW g \in Files, Winner(kind, key, g) PROVE g = f
      <4>1. Rank[f] <= Rank[g] /\ Rank[g] <= Rank[f]
        BY <3>3, <3>4 DEF Winner
      <4> QED
        BY <4>1, TreeFacts
    <3>5. (CHOOSE g \in Files : Winner(kind, key, g)) = f
      BY <3>3, <3>4
    <3> QED
      BY <3>1, <3>2, <3>5
  <2>3. ASSUME NEW key \in KeysOnDisk(kind) PROVE key \in DOMAIN got[kind]
    <3>1. PICK f \in Files : KindOf[f] = kind /\ Indexed(kind, disk[f]) /\ IndexKey(kind, disk[f]) = key
      BY DEF KeysOnDisk
    <3> QED
      BY <1>1, <3>1 DEF GotFrom
  <2>4. DOMAIN got[kind] = KeysOnDisk(kind)
    BY <2>2, <2>3
  <2>5. got[kind] = [key \in DOMAIN got[kind] |-> got[kind][key]]
    BY DEF IndexFun
  <2>6. got[kind] = [key \in KeysOnDisk(kind) |-> got[kind][key]]
    BY <2>4, <2>5
  <2> QED
    BY <2>1, <2>2, <2>4, <2>6
<1>3. got = [kind \in Kinds |-> got[kind]]
  BY DEF IndexFun
<1>4. OnDisk = [kind \in Kinds |-> OnDisk[kind]]
  BY DEF OnDisk
<1> QED
  BY <1>2, <1>3, <1>4

\* A walk that begins covers the tree.
LEMMA FreshCovers == Covers({}, {}, Roots) /\ GotFrom({}, NoIndex)
BY NoIndexOK DEF Covers, GotFrom

\* Leaving the tree and the queue alone, the part of the invariant about the index stays.
LEMMA OnDiskKept ==
    ASSUME UNCHANGED << disk, dirs >>
    PROVE  OnDisk' = OnDisk /\ (Loads' <=> Loads)
<1>1. OnDisk' = OnDisk
  BY DEF OnDisk, KeysOnDisk, Winner, IndexKey, Indexed
<1>2. Loads' <=> Loads
  BY DEF Loads
<1> QED
  BY <1>1, <1>2

\* OnDisk depends on the disk alone.
LEMMA OnDiskOfDisk ==
    ASSUME disk' = disk
    PROVE  OnDisk' = OnDisk
BY DEF OnDisk, KeysOnDisk, Winner, IndexKey, Indexed

\* A walk that misses nothing still misses nothing when its state is the same.
LEMMA CoversKept ==
    ASSUME UNCHANGED << disk, dirs >>, NEW V, NEW E, NEW P
    PROVE  Covers(V, E, P)' <=> Covers(V, E, P)
BY DEF Covers, Exists

\* What a walk got is still from the disk when the disk is the same.
LEMMA GotFromKept ==
    ASSUME disk' = disk, NEW V, NEW g
    PROVE  GotFrom(V, g)' <=> GotFrom(V, g)
BY DEF GotFrom, Keyed, IndexKey, Indexed

\* A walk takes up the first entry: it comes before the others, and after what was visited.
LEMMA TurnFirst ==
    ASSUME TypeInv, NEW V, NEW E, Covers(V, E, walk.pending), NEW n, Turn(n)
    PROVE  /\ n \in Nodes /\ n \in walk.pending
           /\ \A m \in walk.pending \ {n} : Rank[n] < Rank[m]
           /\ \A m \in V : Rank[m] < Rank[n]
<1>1. walk.pending \subseteq Nodes
  BY DEF TypeInv, WalkType
<1>2. n \in walk.pending /\ \A m \in walk.pending : Rank[n] <= Rank[m]
  BY DEF Turn
<1>3. \A m \in walk.pending \ {n} : Rank[n] < Rank[m]
  BY <1>1, <1>2, TreeFacts
<1> QED
  BY <1>1, <1>2, <1>3 DEF Covers

\* Entering a directory, or passing over a root that is not there.
LEMMA DirCovers ==
    ASSUME TypeInv, NEW V, NEW E, Covers(V, E, walk.pending), NEW d \in Dirs, Turn(d),
           NEW P, \/ d \in dirs /\ P = (walk.pending \ {d}) \cup Entries(d)
                  \/ d \notin dirs /\ P = walk.pending \ {d}
    PROVE  Covers(V \cup {d}, E, P)
<1>1. /\ d \in Nodes /\ d \in walk.pending
      /\ \A m \in walk.pending \ {d} : Rank[d] < Rank[m]
      /\ \A m \in V : Rank[m] < Rank[d]
  BY TurnFirst
<1>2. V \subseteq Nodes /\ walk.pending \subseteq Nodes
  BY DEF Covers, TypeInv, WalkType
<1>3. \A n \in Entries(d) : n \in Nodes \ Roots /\ Exists(n) /\ Rank[d] < Rank[n]
  BY TreeFacts DEF Entries
<1>4. P \subseteq (walk.pending \ {d}) \cup Entries(d)
  OBVIOUS
<1>5. \A n \in P : Rank[d] < Rank[n] /\ n \in Nodes
  BY <1>1, <1>2, <1>3, <1>4
<1>6. ASSUME NEW m \in V \cup {d}, NEW n \in P PROVE Rank[m] < Rank[n]
  <2>1. m \in Nodes /\ Rank[m] <= Rank[d]
    BY <1>1, <1>2, TreeFacts
  <2> QED
    BY <1>1, <1>5, <2>1, TreeFacts
<1>7. \A n \in P \ Roots : Exists(n)
  BY <1>3, <1>4 DEF Covers
<1>8. ASSUME NEW n \in Nodes \ E, Exists(n), n \in Roots \/ Parent[n] \in V \cup {d}
      PROVE  n \in (V \cup {d}) \cup P
  <2>1. CASE n \in Roots \/ Parent[n] \in V
    <3>1. n \in V \cup walk.pending
      BY <1>8, <2>1 DEF Covers
    <3> QED
      BY <3>1
  <2>2. CASE n \notin Roots /\ Parent[n] = d
    <3>1. d \in dirs
      BY <1>8, <2>2, EntryInTree
    <3>2. n \in Entries(d)
      BY <1>8, <2>2, TreeFacts DEF Entries
    <3> QED
      BY <3>1, <3>2
  <2> QED
    BY <1>8, <2>1, <2>2
<1> QED
  BY <1>1, <1>2, <1>6, <1>7, <1>8 DEF Covers

\* Entering a directory takes no document.
LEMMA DirGot ==
    ASSUME NEW V, NEW g, GotFrom(V, g), NEW d \in Dirs
    PROVE  GotFrom(V \cup {d}, g)
<1>1. (V \cup {d}) \cap Files = V \cap Files
  BY TreeFacts
<1> QED
  BY <1>1 DEF GotFrom

\* Reading a file.
LEMMA FileCovers ==
    ASSUME TypeInv, NEW V, NEW E, Covers(V, E, walk.pending), NEW f \in Files, Turn(f)
    PROVE  Covers(V \cup {f}, E, walk.pending \ {f})
<1>1. /\ f \in Nodes /\ f \in walk.pending /\ walk.pending \subseteq Nodes /\ V \subseteq Nodes
      /\ \A m \in walk.pending \ {f} : Rank[f] < Rank[m]
  BY TurnFirst DEF Covers, TypeInv, WalkType
<1>2. \A n \in Nodes \ Roots : Parent[n] # f
  BY TreeFacts
<1>3. \A m \in V \cup {f}, n \in walk.pending \ {f} : Rank[m] < Rank[n]
  BY <1>1 DEF Covers
<1>4. ASSUME NEW n \in Nodes \ E, Exists(n), n \in Roots \/ Parent[n] \in V \cup {f}
      PROVE  n \in (V \cup {f}) \cup (walk.pending \ {f})
  <2>1. n \in V \cup walk.pending
    BY <1>2, <1>4 DEF Covers
  <2> QED
    BY <2>1
<1> QED
  BY <1>1, <1>3, <1>4 DEF Covers

\* Reading a file takes what the disk holds.
LEMMA FileGot ==
    ASSUME TypeInv, NEW V, NEW f \in Files, V \subseteq Nodes, \A m \in V : Rank[m] < Rank[f],
           NEW got, IndexOK(got), IndexFun(got), GotFrom(V, got)
    PROVE  GotFrom(V \cup {f}, Store(got, KindOf[f], disk[f]))
<1>1. PICK c \in Contents(f) : c = disk[f]
  BY DEF TypeInv, DiskInv
<1>2. PICK kind \in Kinds : kind = KindOf[f]
  BY ContentsAssumption
<1>3. PICK key : key = IndexKey(kind, c)
  OBVIOUS
<1>4. PICK new : new = Store(got, kind, c)
  OBVIOUS
<1>5. (V \cup {f}) \cap Files = (V \cap Files) \cup {f}
  OBVIOUS
<1>6. CASE ~Indexed(kind, c)
  <2>1. new = got
    BY <1>1, <1>2, <1>4, <1>6, StoreDoes
  <2>2. \A k \in Kinds : \A x : ~Keyed(f, k, x)
    BY <1>1, <1>2, <1>6 DEF Keyed
  <2>3. \A k \in Kinds : ~(KindOf[f] = k /\ Indexed(k, disk[f]))
    BY <1>1, <1>2, <1>6
  <2> QED
    BY <1>1, <1>2, <1>4, <1>5, <2>1, <2>2, <2>3 DEF GotFrom
<1>7. CASE Indexed(kind, c)
  <2>1. /\ \A k \in Kinds \ {kind} : new[k] = got[k]
        /\ DOMAIN new[kind] = DOMAIN got[kind] \cup {key}
        /\ new[kind][key] = c
        /\ \A x \in DOMAIN got[kind] \ {key} : new[kind][x] = got[kind][x]
    BY <1>1, <1>2, <1>3, <1>4, <1>7, StoreDoes
  <2>2. ASSUME NEW k \in Kinds, NEW g \in (V \cup {f}) \cap Files, KindOf[g] = k, Indexed(k, disk[g])
        PROVE  IndexKey(k, disk[g]) \in DOMAIN new[k]
    <3>1. CASE g = f
      BY <1>1, <1>2, <1>3, <2>1, <2>2, <3>1
    <3>2. CASE g # f
      <4>1. IndexKey(k, disk[g]) \in DOMAIN got[k]
        BY <2>2, <3>2 DEF GotFrom
      <4> QED
        BY <2>1, <4>1
    <3> QED
      BY <3>1, <3>2
  <2>3. ASSUME NEW k \in Kinds, NEW x \in DOMAIN new[k]
        PROVE  \E h \in (V \cup {f}) \cap Files :
                 /\ Keyed(h, k, x) /\ new[k][x] = disk[h]
                 /\ \A g \in (V \cup {f}) \cap Files : Keyed(g, k, x) => Rank[g] <= Rank[h]
    <3>1. CASE k = kind /\ x = key
      <4>1. Keyed(f, k, x) /\ new[k][x] = disk[f]
        BY <1>1, <1>2, <1>3, <1>7, <2>1, <3>1 DEF Keyed
      <4>2. \A g \in (V \cup {f}) \cap Files : Rank[g] <= Rank[f]
        BY TreeFacts
      <4> QED
        BY <1>5, <4>1, <4>2
    <3>2. CASE ~(k = kind /\ x = key)
      <4>1. x \in DOMAIN got[k] /\ new[k][x] = got[k][x]
        BY <2>1, <3>2
      <4>2. PICK h \in V \cap Files :
              /\ Keyed(h, k, x) /\ got[k][x] = disk[h]
              /\ \A g \in V \cap Files : Keyed(g, k, x) => Rank[g] <= Rank[h]
        BY <4>1 DEF GotFrom
      <4>3. ~Keyed(f, k, x)
        BY <1>1, <1>2, <1>3, <3>2 DEF Keyed
      <4> QED
        BY <1>5, <4>1, <4>2, <4>3
    <3> QED
      BY <3>1, <3>2
  <2> QED
    BY <1>1, <1>2, <1>4, <2>2, <2>3 DEF GotFrom
<1> QED
  BY <1>6, <1>7

\* A directory made while a walk is under way.
LEMMA MkdirCovers ==
    ASSUME TypeInv, NEW V, NEW E, NEW P, Covers(V, E, P), NEW d \in Dirs, d \notin dirs,
           dirs' = dirs \cup {d}, disk' = disk
    PROVE  Covers(V, E \cup {d}, P)'
<1>1. \A n \in Nodes : Exists(n)' <=> Exists(n) \/ n = d
  BY TreeFacts DEF Exists
<1>2. ASSUME NEW n \in Nodes \ Roots, Exists(n)', Parent[n] \in E \cup {d} PROVE n \in E \cup {d}
  <2>1. CASE n = d
    BY <2>1
  <2>2. CASE n # d
    <3>1. Exists(n)
      BY <1>1, <1>2, <2>2
    <3>2. Parent[n] # d
      BY <3>1, EntryInTree
    <3> QED
      BY <1>2, <3>1, <3>2 DEF Covers
  <2> QED
    BY <2>1, <2>2
<1>3. \A n \in P \ Roots : Exists(n)'
  BY DEF Covers, Exists
<1>4. \A n \in Nodes \ (E \cup {d}) :
        Exists(n)' /\ (n \in Roots \/ Parent[n] \in V) => n \in V \cup P
  BY <1>1 DEF Covers
<1> QED
  BY <1>2, <1>3, <1>4 DEF Covers

\* Nothing is watched at the start, so nothing is owed.
LEMMA WatchInit == Init => WatchInv
<1> SUFFICES ASSUME Init PROVE WatchInv
  OBVIOUS
<1>1. pc = "loading" /\ walk = [pending |-> Roots, got |-> NoIndex]
  BY DEF Init, FreshWalk
<1>2. walk.pending = Roots /\ walk.got = NoIndex
  BY <1>1
<1>3. WalkInv
  BY <1>2, FreshCovers DEF WalkInv
<1> QED
  BY <1>1, <1>3 DEF WatchInv

\* A step that moves the walk on keeps the invariant.
LEMMA WalkMovesOn ==
    ASSUME NEW V, NEW E, NEW P, NEW g, Covers(V, E, P), GotFrom(V, g),
           walk'.pending = P, walk'.got = g, UNCHANGED << disk, dirs >>, pc' \in {"loading", "reloading"}
    PROVE  WatchInv'
<1>1. Covers(V, E, P)' /\ GotFrom(V, g)'
  BY CoversKept, GotFromKept
<1>2. WalkInv'
  BY <1>1 DEF WalkInv
<1> QED
  BY <1>2 DEF WatchInv

\* A walk that fails on a tree that does not load.
LEMMA FailKeepsWatch ==
    ASSUME WalkFails, UNCHANGED << disk, dirs >>, ~Loads
    PROVE  WatchInv'
<1>1. ~Loads' /\ pc' \notin {"loading", "reloading"}
  BY OnDiskKept DEF WalkFails
<1> QED
  BY <1>1 DEF WatchInv, Walking

\* Every step keeps what the watcher owes.
LEMMA WatchStep == TypeInv /\ WatchInv /\ [Next]_vars => WatchInv'
<1> SUFFICES ASSUME TypeInv, WatchInv, [Next]_vars, Settled' PROVE WatchInv'
  BY DEF WatchInv
<1>1. ASSUME NEW d \in Dirs, VisitDir(d) PROVE WatchInv'
  <2>1. /\ Walking /\ Turn(d) /\ UNCHANGED << disk, dirs, watched, notes, index, silent, edits >>
        /\ WalkType /\ walk.pending \subseteq Nodes
    BY <1>1 DEF VisitDir, TypeInv, WalkType
  <2>2. Settled
    BY <2>1 DEF Settled
  <2>3. PICK V, E : Covers(V, E, walk.pending) /\ GotFrom(V, walk.got)
    BY <2>1, <2>2 DEF WatchInv, WalkInv
  <2>4. GotFrom(V \cup {d}, walk.got)
    BY <2>3, DirGot
  <2>5. CASE d \in dirs /\ walk' = [walk EXCEPT !.pending = (walk.pending \ {d}) \cup Entries(d)] /\ pc' = pc
    <3>1. PICK P : P = (walk.pending \ {d}) \cup Entries(d)
      OBVIOUS
    <3>2. P \subseteq Nodes
      BY <2>1, <3>1, EntriesAreNodes
    <3>3. walk'.pending = P /\ walk'.got = walk.got
      BY <2>1, <2>5, <3>1, <3>2, WalkMoves
    <3>4. Covers(V \cup {d}, E, P)
      BY <2>1, <2>3, <2>5, <3>1, DirCovers
    <3>5. pc' \in {"loading", "reloading"}
      BY <2>1, <2>5 DEF Walking
    <3> QED
      BY <2>1, <2>4, <3>3, <3>4, <3>5, WalkMovesOn
  <2>6. CASE d \notin dirs /\ walk' = [walk EXCEPT !.pending = walk.pending \ {d}] /\ pc' = pc
    <3>1. PICK P : P = walk.pending \ {d}
      OBVIOUS
    <3>2. P \subseteq Nodes
      BY <2>1, <3>1
    <3>3. walk'.pending = P /\ walk'.got = walk.got
      BY <2>1, <2>6, <3>1, <3>2, WalkMoves
    <3>4. Covers(V \cup {d}, E, P)
      BY <2>1, <2>3, <2>6, <3>1, DirCovers
    <3>5. pc' \in {"loading", "reloading"}
      BY <2>1, <2>6 DEF Walking
    <3> QED
      BY <2>1, <2>4, <3>3, <3>4, <3>5, WalkMovesOn
  <2>7. CASE d \notin dirs /\ ~Optional(d) /\ WalkFails
    <3>1. d \in walk.pending
      BY <2>1 DEF Turn
    <3>2. d \in Roots
      BY <2>3, <2>7, <3>1 DEF Covers, Exists
    <3>3. ~Loads
      BY <2>7, <3>2 DEF Optional, Loads
    <3> QED
      BY <2>1, <2>7, <3>3, FailKeepsWatch
  <2> QED
    BY <1>1, <2>5, <2>6, <2>7 DEF VisitDir
<1>2. ASSUME NEW f \in Files, VisitFile(f) PROVE WatchInv'
  <2>1. /\ Walking /\ Turn(f) /\ UNCHANGED << disk, dirs, watched, notes, index, silent, edits >>
        /\ walk.pending \subseteq Nodes /\ IndexOK(walk.got) /\ IndexFun(walk.got)
        /\ disk[f] \in Contents(f)
    BY <1>2 DEF VisitFile, TypeInv, WalkType, DiskInv
  <2>2. Settled
    BY <2>1 DEF Settled
  <2>3. PICK V, E : Covers(V, E, walk.pending) /\ GotFrom(V, walk.got)
    BY <2>1, <2>2 DEF WatchInv, WalkInv
  <2>4. V \subseteq Nodes /\ f \in walk.pending /\ \A m \in V : Rank[m] < Rank[f]
    BY <2>1, <2>3, TurnFirst DEF Covers
  <2>5. CASE /\ walk' = [pending |-> walk.pending \ {f}, got |-> Store(walk.got, KindOf[f], disk[f])]
             /\ pc' = pc
    <3>1. PICK g : g = Store(walk.got, KindOf[f], disk[f])
      OBVIOUS
    <3>2. walk'.pending = walk.pending \ {f} /\ walk'.got = g
      BY <2>5, <3>1
    <3>3. Covers(V \cup {f}, E, walk.pending \ {f})
      BY <2>1, <2>3, FileCovers
    <3>4. GotFrom(V \cup {f}, g)
      BY <2>1, <2>3, <2>4, <3>1, FileGot
    <3>5. pc' \in {"loading", "reloading"}
      BY <2>1, <2>5 DEF Walking
    <3> QED
      BY <2>1, <3>2, <3>3, <3>4, <3>5, WalkMovesOn
  <2>6. CASE ~Loadable(disk[f]) /\ WalkFails
    <3>1. disk[f] # Absent
      BY <2>3, <2>4, TreeFacts DEF Covers, Exists
    <3>2. disk[f] = Broken
      BY <2>1, <2>6, <3>1, ContentsForms DEF Loadable
    <3>3. ~Loads
      BY <3>2 DEF Loads
    <3> QED
      BY <2>1, <2>6, <3>3, FailKeepsWatch
  <2> QED
    BY <1>2, <2>5, <2>6 DEF VisitFile
<1>3. CASE Install
  <2>1. /\ Walking /\ walk.pending = {} /\ index' = walk.got /\ pc' \in {"adding", "waiting"}
        /\ UNCHANGED << disk, dirs, notes, silent >> /\ IndexFun(walk.got)
    BY <1>3 DEF Install, TypeInv, WalkType
  <2>2. Settled
    BY <2>1 DEF Settled
  <2>3. PICK V, E : Covers(V, E, {}) /\ GotFrom(V, walk.got)
    BY <2>1, <2>2 DEF WatchInv, WalkInv
  <2>4. \A f \in Files : disk[f] # Absent => f \in V
    BY <2>3, WalkEnds
  <2>5. walk.got = OnDisk
    BY <2>1, <2>3, <2>4, GotIsOnDisk
  <2>6. index' = OnDisk'
    BY <2>1, <2>5, OnDiskKept
  <2> QED
    BY <2>1, <2>6 DEF WatchInv, Walking
<1>4. CASE Start \/ Stop \/ \E n \in Nodes : AddDir(n)
  <2>1. /\ UNCHANGED << disk, dirs, notes, index, silent >>
        /\ pc \in {"adding", "waiting"} /\ pc' \in {"adding", "waiting", "stopped", "failed"}
    BY <1>4 DEF Start, Stop, AddDir
  <2>2. Settled
    BY <2>1 DEF Settled
  <2>3. Loads' => index' = OnDisk'
    BY <2>1, <2>2, OnDiskKept DEF WatchInv
  <2> QED
    BY <2>1, <2>3 DEF WatchInv, Walking
<1>5. CASE Receive
  <2>1. /\ pc = "waiting" /\ notes \in Seq(Notes) /\ notes # << >> /\ notes' = Tail(notes)
        /\ UNCHANGED << disk, dirs, index >>
    BY <1>5 DEF Receive, TypeInv
  <2>2. CASE Handled(Head(notes))
    <3>1. pc' = "reloading" /\ walk' = [pending |-> Roots, got |-> NoIndex]
      BY <1>5, <2>2 DEF Receive, FreshWalk
    <3>2. walk'.pending = Roots /\ walk'.got = NoIndex
      BY <3>1
    <3> QED
      BY <2>1, <3>1, <3>2, FreshCovers, WalkMovesOn
  <2>3. CASE ~Handled(Head(notes))
    <3>1. UNCHANGED << pc, walk, silent >>
      BY <1>5, <2>3 DEF Receive
    <3>2. ASSUME NEW i \in DOMAIN notes PROVE ~Handled(notes[i])
      <4>1. i \in 1 .. Len(notes) /\ DOMAIN notes' = 1 .. Len(notes) - 1 /\ Head(notes) = notes[1]
        BY <2>1, HeadTailProperties, LenProperties
      <4>2. CASE i = 1
        BY <2>3, <4>1, <4>2
      <4>3. CASE i # 1
        <5>1. i - 1 \in 1 .. Len(notes) - 1 /\ (i - 1) + 1 = i
          BY <2>1, <4>1, <4>3, LenProperties
        <5>2. i - 1 \in DOMAIN notes'
          BY <4>1, <5>1
        <5>3. notes'[i - 1] = notes[i]
          BY <2>1, <5>1, HeadTailProperties
        <5>4. ~Handled(notes'[i - 1])
          BY <5>2 DEF Settled
        <5> QED
          BY <5>3, <5>4
      <4> QED
        BY <4>2, <4>3
    <3>3. Settled
      BY <3>1, <3>2 DEF Settled
    <3>4. Loads' => index' = OnDisk'
      BY <2>1, <3>3, OnDiskKept DEF WatchInv
    <3> QED
      BY <2>1, <3>1, <3>4 DEF WatchInv, Walking
  <2> QED
    BY <2>2, <2>3
<1>6. ASSUME NEW f \in Files, Truncate(f) \/ Fill(f) \/ Delete(f) \/ MoveAway(f) \/ MoveIn(f) PROVE WatchInv'
  <2>1. silent' \/ \E i \in DOMAIN notes' : Handled(notes'[i])
    BY <1>6, FileEditDoes
  <2> QED
    BY <2>1 DEF Settled
<1>7. ASSUME NEW d \in Dirs, Mkdir(d) PROVE WatchInv'
  <2>1. /\ d \notin dirs /\ dirs' = dirs \cup {d} /\ silent' = (silent \/ d = SpecsDir)
        /\ UNCHANGED << disk, notes, index, walk, pc >>
    BY <1>7 DEF Mkdir
  <2>2. ~silent /\ d # SpecsDir
    BY <2>1 DEF Settled
  <2>3. Settled
    BY <2>1, <2>2 DEF Settled
  <2>4. Walking' => WalkInv'
    <3>1. SUFFICES ASSUME Walking PROVE WalkInv'
      BY <2>1 DEF Walking
    <3>2. PICK V, E : Covers(V, E, walk.pending) /\ GotFrom(V, walk.got)
      BY <2>3, <3>1 DEF WatchInv, WalkInv
    <3>3. PICK P, g : P = walk.pending /\ g = walk.got
      OBVIOUS
    <3>4. Covers(V, E, P) /\ GotFrom(V, g) /\ P = walk'.pending /\ g = walk'.got
      BY <2>1, <3>2, <3>3
    <3>5. Covers(V, E \cup {d}, P)'
      BY <2>1, <3>4, MkdirCovers
    <3>6. GotFrom(V, g)'
      BY <2>1, <3>4, GotFromKept
    <3> QED
      BY <3>4, <3>5, <3>6 DEF WalkInv
  <2>5. OnDisk' = OnDisk
    BY <2>1, OnDiskOfDisk
  <2>6. Loads' => Loads
    BY <2>1, <2>2 DEF Loads
  <2> QED
    BY <2>1, <2>3, <2>4, <2>5, <2>6 DEF WatchInv
<1>8. ASSUME NEW d \in Dirs, Rmdir(d) PROVE WatchInv'
  BY <1>8 DEF Rmdir, Settled
<1>9. CASE UNCHANGED vars
  <2>1. UNCHANGED << disk, dirs, notes, index, silent, pc, walk >>
    BY <1>9 DEF vars
  <2>2. Settled
    BY <2>1 DEF Settled
  <2>3. Loads' /\ pc' \in {"adding", "waiting"} => index' = OnDisk'
    BY <2>1, <2>2, OnDiskKept DEF WatchInv
  <2>4. Walking' => WalkInv'
    <3>1. SUFFICES ASSUME Walking PROVE WalkInv'
      BY <2>1 DEF Walking
    <3>2. PICK V, E : Covers(V, E, walk.pending) /\ GotFrom(V, walk.got)
      BY <2>2, <3>1 DEF WatchInv, WalkInv
    <3>3. PICK P, g : P = walk.pending /\ g = walk.got
      OBVIOUS
    <3>4. Covers(V, E, P) /\ GotFrom(V, g) /\ P = walk'.pending /\ g = walk'.got
      BY <2>1, <3>2, <3>3
    <3>5. Covers(V, E, P)' /\ GotFrom(V, g)'
      BY <2>1, <3>4, CoversKept, GotFromKept
    <3> QED
      BY <3>4, <3>5 DEF WalkInv
  <2> QED
    BY <2>3, <2>4 DEF WatchInv
<1> QED
  BY <1>1, <1>2, <1>3, <1>4, <1>5, <1>6, <1>7, <1>8, <1>9 DEF Next, Registry, Editors

\* registry/local/watcher.go:60-63: when the watcher waits with nothing left to handle, every
\* change raised an event it handles and the tree parses, the index is exactly what the
\* tree holds: for any tree and contents, however edits and reloads interleave.
THEOREM WatcherIsFresh == Spec => []Fresh
<1>1. WatchInv => Fresh
  BY DEF WatchInv, Settled, Fresh
<1> QED
  BY <1>1, TypeInit, TypeStep, WatchInit, WatchStep, PTL DEF Spec

-----------------------------------------------------------------------------
(* The local registry: what the queries answer.                            *)

\* The queries of the index work on finitely many definitions, each read or not.
LEMMA EventDefsRead == TypeInv => IsFiniteSet(EventDefs) /\ Readable(EventDefs)
<1> SUFFICES ASSUME TypeInv PROVE IsFiniteSet(EventDefs) /\ Readable(EventDefs)
  OBVIOUS
<1>1. PICK events : events = index["event"]
  OBVIOUS
<1>2. "event" \in Kinds
  BY DEF Kinds
<1>3. IsFiniteSet(DOMAIN events)
  BY <1>1, <1>2 DEF TypeInv, IndexFun
<1>4. EventDefs = {events[k].def : k \in DOMAIN events}
  BY <1>1 DEF EventDefs
<1>5. [k \in DOMAIN events |-> events[k].def] \in Surjection(DOMAIN events, EventDefs)
  BY <1>4 DEF Surjection
<1>6. IsFiniteSet(EventDefs)
  BY <1>3, <1>5, FS_Surjection
<1>7. ASSUME NEW k \in DOMAIN events PROVE events[k].def.ver.num \in {<< >>} \cup Numbers
  <2>1. events[k] \in Holds("event") /\ Indexed("event", events[k])
    BY <1>1, <1>2 DEF TypeInv, IndexOK
  <2>2. PICK f \in Files : KindOf[f] = "event" /\ events[k] \in Contents(f)
    BY <2>1 DEF Holds
  <2>3. events[k].form = "doc"
    BY <2>1 DEF Indexed
  <2>4. events[k].def \in Versions[f]
    BY <2>2, <2>3, ContentsForms
  <2> QED
    BY <2>2, <2>4, ContentsAssumption DEF Numbers
<1>8. Readable(EventDefs)
  BY <1>4, <1>7 DEF Readable
<1> QED
  BY <1>6, <1>8

\* registry/local/resolver.go:103-105, :115: whatever order the maps are ranged over in, the
\* queries answer the highest readable version, for any number of events and versions.
THEOREM QueriesAgree == Spec => []LatestAgrees
<1>1. TypeInv => LatestAgrees
  <2> SUFFICES ASSUME TypeInv, Distinguishable PROVE LatestAgrees
    BY DEF LatestAgrees
  <2>1. PICK S : S = EventDefs
    OBVIOUS
  <2>2. IsFiniteSet(S) /\ Readable(S)
    BY <2>1, EventDefsRead
  <2>3. Distinct(S)
    BY <2>1 DEF Distinguishable, Distinct
  <2>4. ASSUME NEW filter \in Filters, NEW answer \in ListEvents(S, filter)
        PROVE  answer = Latest(ListAllEvents(S, filter))
    <3>1. PICK A : A = ListAllEvents(S, filter)
      OBVIOUS
    <3>2. A \subseteq S
      BY <3>1 DEF ListAllEvents
    <3>3. IsFiniteSet(A)
      BY <2>2, <3>2, FS_Subset
    <3>4. Readable(A) /\ Distinct(A)
      BY <2>2, <2>3, <3>2 DEF Readable, Distinct
    <3>5. PICK order \in SetToSeqs(A) : answer = DeduplicateByLatest(order)
      BY <3>1 DEF ListEvents
    <3> QED
      BY <3>1, <3>3, <3>4, <3>5, DedupIsLatest
  <2>5. ASSUME NEW d \in S, NEW best \in GetActive(S, d.ns, d.name)
        PROVE  Range(best) = {e \in Latest({x \in S : x.status = "active"}) : e.ns = d.ns /\ e.name = d.name}
    <3>1. PICK order \in SetToSeqs(S) : best = BestLoop(order, d.ns, d.name)
      BY DEF GetActive
    <3> QED
      BY <2>2, <2>3, <3>1, ActiveIsLatest
  <2> QED
    BY <2>1, <2>4, <2>5 DEF LatestAgrees
<1> QED
  BY <1>1, TypeInit, TypeStep, PTL DEF Spec

-----------------------------------------------------------------------------
(* Versions: the suggestion (spec/diff.go).                                *)

\* The level of a set of changes is one of the three.
LEMMA LevelOfChanges ==
    ASSUME NEW changes
    PROVE  MinLevel(changes) \in {0, 1, 2}
<1> DEFINE L == {0} \cup {changeBumpLevel(c) : c \in changes}
<1>1. L \subseteq {0, 1, 2} /\ 0 \in L
  BY DEF changeBumpLevel
<1> HIDE DEF L
<1>2. \E x \in L : \A y \in L : x >= y
  <2>1. CASE 2 \in L
    BY <1>1, <2>1
  <2>2. CASE 2 \notin L /\ 1 \in L
    BY <1>1, <2>2
  <2>3. CASE 2 \notin L /\ 1 \notin L
    BY <1>1, <2>3
  <2> QED
    BY <2>1, <2>2, <2>3
<1>3. Max(L) \in L
  BY <1>2 DEF Max
<1> QED
  BY <1>1, <1>3 DEF MinLevel, L

\* A breaking change asks for a major version.
LEMMA LevelOfBreaking ==
    ASSUME NEW changes, NEW c \in changes, c.breaking = TRUE
    PROVE  MinLevel(changes) = 2
<1> DEFINE L == {0} \cup {changeBumpLevel(x) : x \in changes}
<1>1. L \subseteq {0, 1, 2} /\ 2 \in L
  BY DEF changeBumpLevel
<1> HIDE DEF L
<1>2. \E x \in L : \A y \in L : x >= y
  BY <1>1
<1>3. Max(L) \in L /\ Max(L) >= 2
  BY <1>1, <1>2 DEF Max
<1> QED
  BY <1>1, <1>3 DEF MinLevel, L

\* What SuggestVersion returns is a version that ValidateVersionBump accepts, for any
\* changes, and none of all versions that it accepts is lower.
THEOREM SuggestionIsMinimum ==
    ASSUME NEW from \in Numbers, NEW changes
    PROVE  /\ SuggestVersion(from, changes) \in Numbers
           /\ ValidateVersionBump(from, SuggestVersion(from, changes), changes)
           /\ \A v \in Numbers :
                ValidateVersionBump(from, v, changes) => ~Higher(SuggestVersion(from, changes), v)
<1>1. PICK level \in {0, 1, 2} : level = MinLevel(changes)
  BY LevelOfChanges
<1>2. PICK a \in Nat, b \in Nat, c \in Nat : from = << a, b, c >>
  BY DEF Numbers
<1>3. PICK s : s = SuggestVersion(from, changes)
  OBVIOUS
<1>4. s = IF level = 2 THEN << a + 1, 0, 0 >>
          ELSE IF level = 1 THEN << a, b + 1, 0 >> ELSE << a, b, c + 1 >>
  BY <1>1, <1>2, <1>3 DEF SuggestVersion
<1>5. s \in Numbers
  BY <1>4 DEF Numbers
<1>6. from # << >> /\ s # << >>
  BY <1>2, <1>4
<1>7. Higher(s, from)
  BY <1>2, <1>4 DEF Higher
<1>8. DeclaredLevel(from, s) >= level
  BY <1>2, <1>4 DEF DeclaredLevel
<1>9. ValidateVersionBump(from, s, changes)
  BY <1>1, <1>5, <1>6, <1>7, <1>8, ComparisonIsOrder DEF ValidateVersionBump
<1>10. ASSUME NEW v \in Numbers, ValidateVersionBump(from, v, changes) PROVE ~Higher(s, v)
  <2>1. Higher(v, from) /\ DeclaredLevel(from, v) >= level
    BY <1>1, <1>10, ComparisonIsOrder DEF ValidateVersionBump
  <2>2. PICK x \in Nat, y \in Nat, z \in Nat : v = << x, y, z >>
    BY DEF Numbers
  <2>3. x > a \/ (x = a /\ y > b) \/ (x = a /\ y = b /\ z > c)
    BY <1>2, <2>1, <2>2 DEF Higher
  <2>4. level = 2 => x > a
    BY <1>2, <2>1, <2>2 DEF DeclaredLevel
  <2>5. level = 1 => x > a \/ y > b
    BY <1>2, <2>1, <2>2 DEF DeclaredLevel
  <2> QED
    BY <1>4, <2>2, <2>3, <2>4, <2>5 DEF Higher
<1> QED
  BY <1>3, <1>5, <1>9, <1>10

-----------------------------------------------------------------------------
(* Diff: the pairing of removed and added properties.                      *)

\* The first name of a set is one of them.
LEMMA FirstNameIn ==
    ASSUME NEW S, S \subseteq Range(NameOrder), S # {}
    PROVE  FirstName(S) \in S
<1> DEFINE I == {i \in DOMAIN NameOrder : NameOrder[i] \in S}
<1>1. DOMAIN NameOrder = 1 .. Len(NameOrder) /\ Len(NameOrder) \in Nat
  BY NamesAssumption, LenProperties
<1>2. I \subseteq Nat /\ I # {}
  BY <1>1 DEF Range
<1>3. PICK least \in I : \A j \in I : least <= j
  <2> HIDE DEF I
  <2> QED
    BY <1>2, LeastNumber
<1>4. Min(I) \in I
  <2> HIDE DEF I
  <2> QED
    BY <1>3 DEF Min
<1> QED
  BY <1>4 DEF FirstName

\* What pairs holds after the turns of the first i names: a removed name goes to one added
\* name and an added one comes from one removed, and a removed name that had its turn is
\* alone only when no added name of its type is left.
PairInv(pairs, from, to, i) ==
  /\ \A p \in pairs : /\ p = << p[1], p[2] >>
                       /\ p[1] \in DOMAIN from \ DOMAIN to /\ p[2] \in DOMAIN to \ DOMAIN from
                       /\ \E j \in 1 .. i : NameOrder[j] = p[1]
  /\ \A p, q \in pairs : p[1] = q[1] \/ p[2] = q[2] => p = q
  /\ \A j \in 1 .. i :
       NameOrder[j] \in DOMAIN from \ DOMAIN to /\ (\A p \in pairs : p[1] # NameOrder[j]) =>
         \A m \in DOMAIN to \ DOMAIN from :
           (\A p \in pairs : p[2] # m) => from[NameOrder[j]].type # to[m].type

\* One turn of the rename detection keeps what pairs holds.
LEMMA PairStepInv ==
    ASSUME NEW from, NEW to, DOMAIN to \subseteq Range(NameOrder), NEW i \in Nat,
           i + 1 \in 1 .. Len(NameOrder), NameOrder[i + 1] \in DOMAIN from \ DOMAIN to,
           NEW pairs, PairInv(pairs, from, to, i)
    PROVE  PairInv(PairStep(from, to, pairs, NameOrder[i + 1]), from, to, i + 1)
<1>1. PICK rem : rem = NameOrder[i + 1]
  OBVIOUS
<1>2. 1 .. i + 1 = (1 .. i) \cup {i + 1}
  OBVIOUS
<1>3. \A p \in pairs : p[1] # rem
  <2>1. \A j \in 1 .. i : NameOrder[j] # rem
    <3>1. DOMAIN NameOrder = 1 .. Len(NameOrder) /\ Len(NameOrder) \in Nat
      BY NamesAssumption, LenProperties
    <3>2. \A j \in 1 .. i : j \in DOMAIN NameOrder /\ i + 1 \in DOMAIN NameOrder /\ j # i + 1
      BY <3>1
    <3> QED
      BY <1>1, <3>2, NamesAssumption
  <2> QED
    BY <2>1 DEF PairInv
<1>4. PICK free : free = {a \in DOMAIN to \ DOMAIN from :
                            /\ \A p \in pairs : p[2] # a
                            /\ from[rem].type = to[a].type}
  OBVIOUS
<1>5. CASE free = {}
  <2>1. PairStep(from, to, pairs, NameOrder[i + 1]) = pairs
    BY <1>1, <1>4, <1>5 DEF PairStep
  <2>2. \A m \in DOMAIN to \ DOMAIN from :
          (\A p \in pairs : p[2] # m) => from[rem].type # to[m].type
    BY <1>4, <1>5
  <2>3. \A p \in pairs : \E j \in 1 .. i + 1 : NameOrder[j] = p[1]
    BY <1>2 DEF PairInv
  <2>4. ASSUME NEW j \in 1 .. i + 1, NameOrder[j] \in DOMAIN from \ DOMAIN to,
               \A p \in pairs : p[1] # NameOrder[j]
        PROVE  \A m \in DOMAIN to \ DOMAIN from :
                 (\A p \in pairs : p[2] # m) => from[NameOrder[j]].type # to[m].type
    <3>1. CASE j = i + 1
      BY <1>1, <2>2, <3>1
    <3>2. CASE j \in 1 .. i
      BY <2>4, <3>2 DEF PairInv
    <3> QED
      BY <1>2, <3>1, <3>2
  <2> QED
    BY <2>1, <2>3, <2>4 DEF PairInv
<1>6. CASE free # {}
  <2>1. free \subseteq Range(NameOrder)
    BY <1>4
  <2>2. PICK a : a = FirstName(free)
    OBVIOUS
  <2>3. a \in free
    BY <1>6, <2>1, <2>2, FirstNameIn
  <2>4. a \in DOMAIN to \ DOMAIN from /\ \A p \in pairs : p[2] # a
    BY <1>4, <2>3
  <2>5. PICK one : one = << rem, a >>
    OBVIOUS
  <2>6. one[1] = rem /\ one[2] = a /\ one = << one[1], one[2] >>
    BY <2>5
  <2>7. PairStep(from, to, pairs, NameOrder[i + 1]) = pairs \cup {one}
    BY <1>1, <1>4, <1>6, <2>2, <2>5 DEF PairStep
  <2>8. ASSUME NEW p \in pairs \cup {one}
        PROVE  /\ p = << p[1], p[2] >>
               /\ p[1] \in DOMAIN from \ DOMAIN to /\ p[2] \in DOMAIN to \ DOMAIN from
               /\ \E j \in 1 .. i + 1 : NameOrder[j] = p[1]
    <3>1. CASE p = one
      BY <1>1, <1>2, <2>4, <2>6, <3>1
    <3>2. CASE p \in pairs
      BY <1>2, <3>2 DEF PairInv
    <3> QED
      BY <3>1, <3>2
  <2>9. ASSUME NEW p \in pairs \cup {one}, NEW q \in pairs \cup {one}, p[1] = q[1] \/ p[2] = q[2]
        PROVE  p = q
    <3>1. CASE p \in pairs /\ q \in pairs
      BY <2>9, <3>1 DEF PairInv
    <3>2. CASE p = one /\ q = one
      BY <3>2
    <3>3. CASE p = one /\ q \in pairs
      BY <1>3, <2>4, <2>6, <2>9, <3>3
    <3>4. CASE p \in pairs /\ q = one
      BY <1>3, <2>4, <2>6, <2>9, <3>4
    <3> QED
      BY <3>1, <3>2, <3>3, <3>4
  <2>10. ASSUME NEW j \in 1 .. i + 1, NameOrder[j] \in DOMAIN from \ DOMAIN to,
                \A p \in pairs \cup {one} : p[1] # NameOrder[j]
         PROVE  \A m \in DOMAIN to \ DOMAIN from :
                  (\A p \in pairs \cup {one} : p[2] # m) => from[NameOrder[j]].type # to[m].type
    <3>1. j \in 1 .. i
      BY <1>1, <1>2, <2>6, <2>10
    <3> QED
      BY <2>10, <3>1 DEF PairInv
  <2> QED
    BY <2>7, <2>8, <2>9, <2>10 DEF PairInv
<1> QED
  BY <1>5, <1>6

\* The rename detection is defined for all properties.
LEMMA RenamesDef ==
    ASSUME NEW from, NEW to, Len(NameOrder) \in Nat
    PROVE  \E pairs : /\ pairs = [i \in 0 .. Len(NameOrder) |->
                                   IF i = 0 THEN {}
                                   ELSE IF NameOrder[i] \in DOMAIN from \ DOMAIN to
                                        THEN PairStep(from, to, pairs[i - 1], NameOrder[i])
                                        ELSE pairs[i - 1]]
                     /\ Renames(from, to) = pairs[Len(NameOrder)]
<1> DEFINE Turned(ps, i) == IF NameOrder[i] \in DOMAIN from \ DOMAIN to
                            THEN PairStep(from, to, ps, NameOrder[i]) ELSE ps
<1> DEFINE Runs(pairs, n) == pairs = [i \in 0 .. n |-> IF i = 0 THEN {} ELSE Turned(pairs[i - 1], i)]
           T == {n \in Nat : \E pairs : Runs(pairs, n)}
<1>1. 0 \in T
  <2>1. Runs([i \in 0 .. 0 |-> {}], 0)
    OBVIOUS
  <2> QED
    BY <2>1
<1>2. ASSUME NEW n \in Nat, n \in T PROVE n + 1 \in T
  <2>1. PICK pairs : Runs(pairs, n)
    BY <1>2
  <2> DEFINE next == [i \in 0 .. n + 1 |-> IF i <= n THEN pairs[i] ELSE Turned(pairs[n], n + 1)]
  <2>2. ASSUME NEW i \in 0 .. n + 1
        PROVE  next[i] = IF i = 0 THEN {} ELSE Turned(next[i - 1], i)
    <3>1. CASE i = 0
      BY <2>1, <3>1
    <3>2. CASE i # 0 /\ i <= n
      <4>1. i \in 0 .. n /\ i - 1 \in 0 .. n /\ i - 1 \in 0 .. n + 1 /\ i - 1 <= n
        BY <3>2
      <4>2. next[i] = pairs[i] /\ next[i - 1] = pairs[i - 1]
        BY <3>2, <4>1
      <4> QED
        BY <2>1, <3>2, <4>1, <4>2
    <3>3. CASE i = n + 1
      <4>1. next[n] = pairs[n]
        OBVIOUS
      <4> QED
        BY <3>3, <4>1
    <3> QED
      BY <3>1, <3>2, <3>3
  <2>3. Runs(next, n + 1)
    BY <2>2
  <2> HIDE DEF next, Runs
  <2>4. \E f : Runs(f, n + 1)
    BY <2>3
  <2> QED
    BY <2>4
<1>3. Len(NameOrder) \in T
  <2> HIDE DEF T
  <2> QED
    BY <1>1, <1>2, SetInduction
<1> DEFINE it == CHOOSE pairs : Runs(pairs, Len(NameOrder))
<1>4. Runs(it, Len(NameOrder))
  BY <1>3
<1>5. Renames(from, to) = it[Len(NameOrder)]
  BY DEF Renames
<1> QED
  BY <1>4, <1>5

\* After the last turn pairs speaks of all names.
LEMMA RenamesInv ==
    ASSUME NEW from, NEW to, DOMAIN to \subseteq Range(NameOrder)
    PROVE  PairInv(Renames(from, to), from, to, Len(NameOrder))
<1>1. PICK n \in Nat : n = Len(NameOrder)
  BY NamesAssumption, LenProperties
<1>2. PICK pairs : /\ pairs = [i \in 0 .. n |->
                                 IF i = 0 THEN {}
                                 ELSE IF NameOrder[i] \in DOMAIN from \ DOMAIN to
                                      THEN PairStep(from, to, pairs[i - 1], NameOrder[i])
                                      ELSE pairs[i - 1]]
                   /\ Renames(from, to) = pairs[n]
  <2>1. Len(NameOrder) \in Nat
    BY <1>1
  <2>2. \E ps : /\ ps = [i \in 0 .. Len(NameOrder) |->
                           IF i = 0 THEN {}
                           ELSE IF NameOrder[i] \in DOMAIN from \ DOMAIN to
                                THEN PairStep(from, to, ps[i - 1], NameOrder[i])
                                ELSE ps[i - 1]]
                /\ Renames(from, to) = ps[Len(NameOrder)]
    BY <2>1, RenamesDef, Zenon
  <2> QED
    BY <1>1, <2>2, Zenon
<1> DEFINE T == {i \in Nat : i <= n => PairInv(pairs[i], from, to, i)}
<1>3. 0 \in T
  <2>1. pairs[0] = {}
    BY <1>2
  <2>2. PairInv({}, from, to, 0)
    BY DEF PairInv
  <2> QED
    BY <2>1, <2>2
<1>4. ASSUME NEW i \in Nat, i \in T PROVE i + 1 \in T
  <2> SUFFICES ASSUME i + 1 <= n PROVE PairInv(pairs[i + 1], from, to, i + 1)
    OBVIOUS
  <2>1. PairInv(pairs[i], from, to, i)
    BY <1>4
  <2>2. pairs[i + 1] = IF NameOrder[i + 1] \in DOMAIN from \ DOMAIN to
                       THEN PairStep(from, to, pairs[i], NameOrder[i + 1]) ELSE pairs[i]
    <3>1. i + 1 \in 0 .. n /\ i + 1 # 0 /\ (i + 1) - 1 = i
      OBVIOUS
    <3> QED
      BY <1>2, <3>1
  <2>3. CASE NameOrder[i + 1] \in DOMAIN from \ DOMAIN to
    <3>1. i + 1 \in 1 .. Len(NameOrder)
      BY <1>1
    <3> QED
      BY <2>1, <2>2, <2>3, <3>1, PairStepInv
  <2>4. CASE NameOrder[i + 1] \notin DOMAIN from \ DOMAIN to
    <3>1. 1 .. i + 1 = (1 .. i) \cup {i + 1} /\ pairs[i + 1] = pairs[i]
      BY <2>2, <2>4
    <3> QED
      BY <2>1, <2>4, <3>1 DEF PairInv
  <2> QED
    BY <2>3, <2>4
<1>5. n \in T
  <2> HIDE DEF T
  <2> QED
    BY <1>3, <1>4, SetInduction
<1> QED
  BY <1>1, <1>2, <1>5

-----------------------------------------------------------------------------
(* Diff: the changes of a property.                                        *)

\* The first check that hits is one that hits, and none before it does.
LEMMA MinOfHits ==
    ASSUME NEW hits, hits \subseteq 1 .. 6, hits # {}
    PROVE  Min(hits) \in hits /\ \A i \in hits : Min(hits) <= i
<1>1. hits \subseteq Nat
  OBVIOUS
<1>2. \E x \in hits : \A y \in hits : x <= y
  BY <1>1, LeastNumber
<1> QED
  BY <1>2 DEF Min

\* A report that is not a rename is about one property, and names no other.
Single(c, n) == c.property = n /\ c.kind # "rename_prop"

\* diffProp reports one change at most, of the property it looked at.
LEMMA DiffPropOne ==
    ASSUME NEW name, NEW from, NEW to, NEW c \in diffProp(name, from, to)
    PROVE  Single(c, name)
<1>1. PICK checks : checks = Checks(name, from, to)
  OBVIOUS
<1>2. PICK hits : hits = {i \in 1 .. 6 : checks[i].hit}
  OBVIOUS
<1>3. hits # {} /\ c = checks[Min(hits)].change
  BY <1>1, <1>2 DEF diffProp
<1>4. PICK i \in 1 .. 6 : c = checks[i].change
  BY <1>2, <1>3, MinOfHits
<1>5. ASSUME NEW kind, NEW breaking, c = Change(kind, name, breaking), kind # "rename_prop"
      PROVE  Single(c, name)
  BY <1>5 DEF Change, Single
<1>6. CASE i = 1
  <2>1. c = Change("type_changed", name, TRUE)
    BY <1>1, <1>4, <1>6 DEF Checks
  <2> QED
    BY <1>5, <2>1
<1>7. CASE i = 2
  <2>1. c = Change("make_required", name, TRUE)
    BY <1>1, <1>4, <1>7 DEF Checks
  <2> QED
    BY <1>5, <2>1
<1>8. CASE i = 3
  <2>1. c = Change("make_optional", name, FALSE)
    BY <1>1, <1>4, <1>8 DEF Checks
  <2> QED
    BY <1>5, <2>1
<1>9. CASE i = 4
  <2>1. c = Change("remove_enum_value", name, TRUE)
    BY <1>1, <1>4, <1>9 DEF Checks
  <2> QED
    BY <1>5, <2>1
<1>10. CASE i = 5
  <2>1. c = Change("add_enum_value", name, FALSE)
    BY <1>1, <1>4, <1>10 DEF Checks
  <2> QED
    BY <1>5, <2>1
<1>11. CASE i = 6
  <2>1. c = Change("description_only", name, FALSE)
    BY <1>1, <1>4, <1>11 DEF Checks
  <2> QED
    BY <1>5, <2>1
<1>12. i = 1 \/ i = 2 \/ i = 3 \/ i = 4 \/ i = 5 \/ i = 6
  OBVIOUS
<1> QED
  BY <1>6, <1>7, <1>8, <1>9, <1>10, <1>11, <1>12, Zenon

Harmless(name, from, to) == \A c \in diffProp(name, from, to) : c.breaking # TRUE

\* A property of which diffProp reports nothing breaking has its type, is not newly required
\* and, unless it became optional, has lost no value of its enum.
LEMMA DiffPropHarmless ==
    ASSUME NEW name, NEW from, NEW to, from.required \in BOOLEAN, to.required \in BOOLEAN,
           Harmless(name, from, to)
    PROVE  /\ from.type = to.type
           /\ to.required => from.required
           /\ from.required = to.required => from.enum \ to.enum = {}
<1>1. PICK checks : checks = Checks(name, from, to)
  OBVIOUS
<1>2. PICK hits : hits = {i \in 1 .. 6 : checks[i].hit}
  OBVIOUS
<1>3. /\ checks[1].hit <=> from.type # to.type
      /\ checks[2].hit <=> ~from.required /\ to.required
      /\ checks[3].hit <=> from.required /\ ~to.required
      /\ checks[4].hit <=> from.enum \ to.enum # {}
  BY <1>1 DEF Checks
<1>4. checks[1].change.breaking = TRUE /\ checks[2].change.breaking = TRUE /\ checks[4].change.breaking = TRUE
  BY <1>1 DEF Checks, Change
<1>5. hits # {} => checks[Min(hits)].change.breaking # TRUE
  BY <1>1, <1>2 DEF Harmless, diffProp
<1>6. hits # {} => Min(hits) \in hits /\ Min(hits) \in 1 .. 6 /\ \A i \in hits : Min(hits) <= i
  BY <1>2, MinOfHits
<1>7. 1 \notin hits
  <2> SUFFICES ASSUME 1 \in hits PROVE FALSE
    OBVIOUS
  <2>1. Min(hits) = 1
    BY <1>6
  <2> QED
    BY <1>4, <1>5, <2>1
<1>8. 2 \notin hits
  <2> SUFFICES ASSUME 2 \in hits PROVE FALSE
    OBVIOUS
  <2>1. Min(hits) = 2
    BY <1>6, <1>7
  <2> QED
    BY <1>4, <1>5, <2>1
<1>9. ASSUME 3 \notin hits PROVE 4 \notin hits
  <2> SUFFICES ASSUME 4 \in hits PROVE FALSE
    OBVIOUS
  <2>1. Min(hits) = 4
    BY <1>6, <1>7, <1>8, <1>9
  <2> QED
    BY <1>4, <1>5, <2>1
<1>10. from.type = to.type
  BY <1>2, <1>3, <1>7
<1>11. to.required => from.required
  BY <1>2, <1>3, <1>8
<1>12. ASSUME from.required = to.required PROVE from.enum \ to.enum = {}
  <2>1. 3 \notin hits
    BY <1>2, <1>3, <1>12
  <2>2. 4 \notin hits
    BY <1>9, <2>1
  <2> QED
    BY <1>2, <1>3, <2>2
<1> QED
  BY <1>10, <1>11, <1>12

\* The reports of Diff on properties, by what they are about.
Renamed(p) == [kind |-> "rename_prop", property |-> p[1], to |-> p[2], breaking |-> TRUE]
Lost(from, to) == DOMAIN from \ (DOMAIN to \cup {p[1] : p \in Renames(from, to)})
Gained(from, to) == DOMAIN to \ (DOMAIN from \cup {p[2] : p \in Renames(from, to)})
Added(to, n) == IF to[n].required THEN Change("add_required_prop", n, TRUE)
                ELSE Change("add_optional_prop", n, FALSE)

\* PropChanges by these names.
LEMMA PropReports ==
    ASSUME NEW from, NEW to
    PROVE  PropChanges(from, to) =
             {Renamed(p) : p \in Renames(from, to)}
             \cup {Change("remove_prop", n, TRUE) : n \in Lost(from, to)}
             \cup {Added(to, n) : n \in Gained(from, to)}
             \cup UNION {diffProp(n, from[n], to[n]) : n \in DOMAIN from \cap DOMAIN to}
BY DEF PropChanges, Renamed, Lost, Gained, Added

\* A change of any other kind than a rename is about its property only.
LEMMA ChangeIsSingle ==
    ASSUME NEW kind, kind # "rename_prop", NEW n, NEW breaking
    PROVE  Single(Change(kind, n, breaking), n)
BY DEF Single, Change

\* So is the report of an added property.
LEMMA AddedIsSingle ==
    ASSUME NEW to, NEW n
    PROVE  Single(Added(to, n), n)
<1>1. CASE to[n].required
  <2>1. Added(to, n) = Change("add_required_prop", n, TRUE)
    BY <1>1 DEF Added
  <2> QED
    BY <2>1, ChangeIsSingle
<1>2. CASE ~to[n].required
  <2>1. Added(to, n) = Change("add_optional_prop", n, FALSE)
    BY <1>2 DEF Added
  <2> QED
    BY <2>1, ChangeIsSingle
<1> QED
  BY <1>1, <1>2

\* A rename names both properties.
LEMMA RenamedNames ==
    ASSUME NEW p
    PROVE  Renamed(p).property = p[1] /\ Renamed(p).to = p[2] /\ Renamed(p).kind = "rename_prop"
BY DEF Renamed

\* Where each report comes from.
LEMMA ReportForms ==
    ASSUME NEW from, NEW to, NEW c \in PropChanges(from, to)
    PROVE  \/ \E p \in Renames(from, to) : c = Renamed(p)
           \/ \E n \in Lost(from, to) : c = Change("remove_prop", n, TRUE) /\ Single(c, n)
           \/ \E n \in Gained(from, to) : c = Added(to, n) /\ Single(c, n)
           \/ \E n \in DOMAIN from \cap DOMAIN to : Single(c, n)
<1>1. CASE \E p \in Renames(from, to) : c = Renamed(p)
  BY <1>1
<1>2. CASE \E n \in Lost(from, to) : c = Change("remove_prop", n, TRUE)
  <2>1. PICK n \in Lost(from, to) : c = Change("remove_prop", n, TRUE)
    BY <1>2
  <2>2. Single(c, n)
    BY <2>1, ChangeIsSingle
  <2> QED
    BY <2>1, <2>2
<1>3. CASE \E n \in Gained(from, to) : c = Added(to, n)
  BY <1>3, AddedIsSingle
<1>4. CASE \E n \in DOMAIN from \cap DOMAIN to : c \in diffProp(n, from[n], to[n])
  <2>1. PICK n \in DOMAIN from \cap DOMAIN to : c \in diffProp(n, from[n], to[n])
    BY <1>4
  <2>3. Single(c, n)
    BY <2>1, DiffPropOne, Zenon
  <2> QED
    BY <2>1, <2>3
<1> QED
  BY <1>1, <1>2, <1>3, <1>4, PropReports

\* What Diff reports of a name.
ReportsOf(from, to, n) == {c \in PropChanges(from, to) : c.property = n \/ (c.kind = "rename_prop" /\ c.to = n)}

\* A pair is the one report of its two names.
LEMMA PairReportedOnce ==
    ASSUME NEW from, NEW to, DOMAIN to \subseteq Range(NameOrder),
           NEW n, NEW p \in Renames(from, to), p[1] = n \/ p[2] = n
    PROVE  ReportsOf(from, to, n) = {Renamed(p)}
<1>1. PICK pairs : pairs = Renames(from, to)
  OBVIOUS
<1>2. PairInv(pairs, from, to, Len(NameOrder))
  BY <1>1, RenamesInv
<1>3. /\ \A q \in pairs : q[1] \in DOMAIN from \ DOMAIN to /\ q[2] \in DOMAIN to \ DOMAIN from
      /\ \A q, r \in pairs : q[1] = r[1] \/ q[2] = r[2] => q = r
  BY <1>2 DEF PairInv
<1>4. Renamed(p) \in ReportsOf(from, to, n)
  BY PropReports, RenamedNames DEF ReportsOf
<1>5. ASSUME NEW c \in ReportsOf(from, to, n) PROVE c = Renamed(p)
  <2>1. c \in PropChanges(from, to) /\ (c.property = n \/ (c.kind = "rename_prop" /\ c.to = n))
    BY DEF ReportsOf
  <2>2. CASE \E q \in pairs : c = Renamed(q)
    <3>1. PICK q \in pairs : c = Renamed(q)
      BY <2>2
    <3>2. q[1] = n \/ q[2] = n
      BY <2>1, <3>1, RenamedNames
    <3>3. q = p
      BY <1>1, <1>3, <3>2
    <3> QED
      BY <3>1, <3>3
  <2>3. ASSUME NEW m, Single(c, m) PROVE m = n
    BY <2>1, <2>3 DEF Single
  <2>4. n \notin Lost(from, to) /\ n \notin Gained(from, to) /\ n \notin DOMAIN from \cap DOMAIN to
    BY <1>1, <1>3 DEF Lost, Gained
  <2>5. \/ \E q \in Renames(from, to) : c = Renamed(q)
        \/ \E m \in Lost(from, to) : c = Change("remove_prop", m, TRUE) /\ Single(c, m)
        \/ \E m \in Gained(from, to) : c = Added(to, m) /\ Single(c, m)
        \/ \E m \in DOMAIN from \cap DOMAIN to : Single(c, m)
    BY <2>1, ReportForms, Zenon
  <2> QED
    BY <1>1, <2>2, <2>3, <2>4, <2>5, Zenon
<1> QED
  BY <1>4, <1>5

\* A name that is not half of a pair is reported once too, alone.
LEMMA LoneReportedOnce ==
    ASSUME NEW from, NEW to, DOMAIN to \subseteq Range(NameOrder),
           NEW n \in Lost(from, to) \cup Gained(from, to)
    PROVE  \E c : ReportsOf(from, to, n) = {c} /\ c.kind # "rename_prop"
<1>1. PICK pairs : pairs = Renames(from, to)
  OBVIOUS
<1>2. PairInv(pairs, from, to, Len(NameOrder))
  BY <1>1, RenamesInv
<1>3. \A q \in pairs : q[1] \in DOMAIN from \ DOMAIN to /\ q[2] \in DOMAIN to \ DOMAIN from
  BY <1>2 DEF PairInv
<1>4. \A q \in pairs : q[1] # n /\ q[2] # n
  BY <1>1, <1>3 DEF Lost, Gained
<1>5. n \notin DOMAIN from \cap DOMAIN to /\ (n \notin Lost(from, to) \/ n \notin Gained(from, to))
  BY DEF Lost, Gained
<1>6. PICK c : c = IF n \in Lost(from, to) THEN Change("remove_prop", n, TRUE) ELSE Added(to, n)
  OBVIOUS
<1>7. Single(c, n)
  <2>1. Single(Change("remove_prop", n, TRUE), n)
    BY ChangeIsSingle
  <2> QED
    BY <1>6, <2>1, AddedIsSingle
<1>8. c \in ReportsOf(from, to, n)
  <2>1. c \in PropChanges(from, to)
    BY <1>6, PropReports
  <2> QED
    BY <1>7, <2>1 DEF ReportsOf, Single
<1>9. ASSUME NEW d \in ReportsOf(from, to, n) PROVE d = c
  <2>1. d \in PropChanges(from, to) /\ (d.property = n \/ (d.kind = "rename_prop" /\ d.to = n))
    BY DEF ReportsOf
  <2>2. ASSUME NEW m, Single(d, m) PROVE m = n
    BY <2>1, <2>2 DEF Single
  <2>3. ASSUME NEW q \in pairs PROVE d # Renamed(q)
    BY <1>4, <2>1, RenamedNames
  <2>4. \/ n \in Lost(from, to) /\ d = Change("remove_prop", n, TRUE)
        \/ n \in Gained(from, to) /\ d = Added(to, n)
    <3>1. \/ \E p \in Renames(from, to) : d = Renamed(p)
          \/ \E m \in Lost(from, to) : d = Change("remove_prop", m, TRUE) /\ Single(d, m)
          \/ \E m \in Gained(from, to) : d = Added(to, m) /\ Single(d, m)
          \/ \E m \in DOMAIN from \cap DOMAIN to : Single(d, m)
      BY <2>1, ReportForms, Zenon
    <3> QED
      BY <1>1, <1>5, <2>2, <2>3, <3>1, Zenon
  <2> QED
    BY <1>5, <1>6, <2>4
<1>10. ReportsOf(from, to, n) = {c} /\ c.kind # "rename_prop"
  BY <1>7, <1>8, <1>9 DEF Single
<1> QED
  BY <1>10

Accounted(from, to) ==
  /\ \A n \in (DOMAIN from \ DOMAIN to) \cup (DOMAIN to \ DOMAIN from) :
       Cardinality(ReportsOf(from, to, n)) = 1
  /\ \A n \in DOMAIN from \ DOMAIN to, m \in DOMAIN to \ DOMAIN from :
       /\ \A c \in ReportsOf(from, to, n) : c.kind # "rename_prop"
       /\ \A c \in ReportsOf(from, to, m) : c.kind # "rename_prop"
       => from[n].type # to[m].type

\* The properties that come and go between any two definitions: each is reported once, and
\* no two of one type are left without a partner.
THEOREM RenamesAccounted ==
    ASSUME NEW from, NEW to,
           DOMAIN from \subseteq Range(NameOrder), DOMAIN to \subseteq Range(NameOrder)
    PROVE  Accounted(from, to)
<1> DEFINE gone == DOMAIN from \ DOMAIN to
           come == DOMAIN to \ DOMAIN from
<1>1. PICK pairs : pairs = Renames(from, to)
  OBVIOUS
<1>2. PairInv(pairs, from, to, Len(NameOrder))
  BY <1>1, RenamesInv
<1>3. ASSUME NEW n \in gone \cup come, NEW p \in pairs, p[1] = n \/ p[2] = n
      PROVE  ReportsOf(from, to, n) = {Renamed(p)}
  BY <1>1, <1>3, PairReportedOnce
<1>4. ASSUME NEW n \in gone \cup come PROVE Cardinality(ReportsOf(from, to, n)) = 1
  <2>1. CASE \E p \in pairs : p[1] = n \/ p[2] = n
    <3>1. \E c : ReportsOf(from, to, n) = {c}
      BY <1>3, <2>1
    <3> QED
      BY <3>1, FS_Singleton
  <2>2. CASE \A p \in pairs : p[1] # n /\ p[2] # n
    <3>1. n \in Lost(from, to) \cup Gained(from, to)
      BY <1>1, <2>2 DEF Lost, Gained
    <3>2. \E c : ReportsOf(from, to, n) = {c}
      BY <3>1, LoneReportedOnce
    <3> QED
      BY <3>2, FS_Singleton
  <2> QED
    BY <2>1, <2>2
<1>5. ASSUME NEW n \in gone, NEW m \in come,
             \A c \in ReportsOf(from, to, n) : c.kind # "rename_prop",
             \A c \in ReportsOf(from, to, m) : c.kind # "rename_prop"
      PROVE  from[n].type # to[m].type
  <2>1. \A p \in pairs : p[1] # n
    BY <1>3, <1>5, RenamedNames
  <2>2. \A p \in pairs : p[2] # m
    BY <1>3, <1>5, RenamedNames
  <2>3. PICK j \in 1 .. Len(NameOrder) : NameOrder[j] = n
    <3>1. DOMAIN NameOrder = 1 .. Len(NameOrder)
      BY NamesAssumption, LenProperties
    <3> QED
      BY <3>1 DEF Range
  <2> QED
    BY <1>2, <2>1, <2>2, <2>3 DEF PairInv
<1> QED
  BY <1>4, <1>5 DEF Accounted

-----------------------------------------------------------------------------
(* Publishing: what the store and the forms hold.                          *)

Priors == {<< >>} \cup {<< p >> : p \in {d \in Definitions : Parses(d.ver)}}

\* A form under way holds what it was compared with, and passed when it says so.
FormOK(f) ==
  \/ f = Idle
  \/ /\ f.step \in {"checked", "rejected"}
     /\ f.def \in Definitions /\ f.prev \in Priors
     /\ f.prev # << >> => f.def \in Drafts(f.prev)
     /\ f.step = "checked" => Accepts(f.prev, f.def)

PublishInv ==
  /\ IsFiniteSet(DOMAIN store) /\ \A v \in DOMAIN store : store[v] \in Definitions
  /\ form = [e \in Authors |-> form[e]] /\ \A e \in Authors : FormOK(form[e])

\* The store holds finitely many definitions, each read or not.
LEMMA StoredRead == PublishInv => IsFiniteSet(StoredDefs) /\ StoredDefs \subseteq Definitions /\ Readable(StoredDefs)
<1> SUFFICES ASSUME PublishInv
             PROVE  IsFiniteSet(StoredDefs) /\ StoredDefs \subseteq Definitions /\ Readable(StoredDefs)
  OBVIOUS
<1>1. PICK s : s = store
  OBVIOUS
<1>2. IsFiniteSet(DOMAIN s) /\ StoredDefs = {s[v] : v \in DOMAIN s}
  BY <1>1 DEF PublishInv, StoredDefs
<1>3. PICK S : S = StoredDefs
  OBVIOUS
<1>4. [v \in DOMAIN s |-> s[v]] \in Surjection(DOMAIN s, S)
  BY <1>2, <1>3 DEF Surjection
<1>5. IsFiniteSet(S)
  BY <1>2, <1>4, FS_Surjection
<1>6. S \subseteq Definitions
  BY <1>1, <1>2, <1>3 DEF PublishInv
<1>7. Readable(S)
  BY <1>6, DefinitionsAssumption DEF Readable, Numbers
<1> QED
  BY <1>3, <1>5, <1>6, <1>7

\* getEventLatest finds a version that nothing stored exceeds, or there is none to read.
LEMMA LatestFound ==
    ASSUME PublishInv, NEW l \in getEventLatest
    PROVE  \/ l = << >> /\ \A d \in StoredDefs : ~Parses(d.ver)
           \/ \E d \in Latest(StoredDefs) : l = << d >>
<1>1. PICK S : S = StoredDefs
  OBVIOUS
<1>2. IsFiniteSet(S) /\ S \subseteq Definitions /\ Readable(S)
  BY <1>1, StoredRead
<1>3. PICK filter : filter = [ns |-> NoFilter, status |-> NoFilter, tags |-> {}]
  OBVIOUS
<1>4. ListAllEvents(S, filter) = S
  <2>1. filter.ns = NoFilter /\ filter.status = NoFilter /\ filter.tags = {}
    BY <1>3
  <2> QED
    BY <2>1 DEF ListAllEvents, Matches, containsAll
<1>5. PICK answer \in ListEvents(S, filter) :
        l \in IF answer = {} THEN {<< >>} ELSE {<< d >> : d \in answer}
  BY <1>1, <1>3 DEF getEventLatest
<1>6. PICK order \in SetToSeqs(S) : answer = DeduplicateByLatest(order)
  BY <1>4, <1>5 DEF ListEvents
<1>7. /\ answer \subseteq Latest(S)
      /\ \A d \in S : Parses(d.ver) => \E e \in answer : e.ns = d.ns /\ e.name = d.name
  BY <1>2, <1>6, DedupFinds
<1>8. CASE answer = {}
  BY <1>1, <1>5, <1>7, <1>8
<1>9. CASE answer # {}
  BY <1>1, <1>5, <1>7, <1>9
<1> QED
  BY <1>8, <1>9

\* What getEventLatest finds may be compared with.
LEMMA LatestIsPrior ==
    ASSUME PublishInv, NEW l \in getEventLatest
    PROVE  l \in Priors
<1>1. CASE l = << >>
  BY <1>1 DEF Priors
<1>2. CASE \E d \in Latest(StoredDefs) : l = << d >>
  <2>1. PICK d \in Latest(StoredDefs) : l = << d >>
    BY <1>2
  <2>2. d \in StoredDefs /\ Parses(d.ver)
    BY DEF Latest
  <2> QED
    BY <2>1, <2>2, StoredRead DEF Priors
<1> QED
  BY <1>1, <1>2, LatestFound

\* What is submitted or posted over a version is a definition.
LEMMA DraftsAreDefinitions ==
    ASSUME NEW prev \in Priors, NEW d \in Drafts(prev) \cup Posts(prev)
    PROVE  d \in Definitions
<1>1. prev \in {<< >>} \cup {<< x >> : x \in Definitions}
  BY DEF Priors
<1> QED
  BY <1>1, DefinitionsAssumption

\* The upsert writes one definition.
LEMMA UpsertDoes ==
    ASSUME PublishInv, NEW def \in Definitions, Upsert(def)
    PROVE  /\ IsFiniteSet(DOMAIN store') /\ \A v \in DOMAIN store' : store'[v] \in Definitions
           /\ StoredDefs' \subseteq StoredDefs \cup {def}
<1>1. PICK s : s = store
  OBVIOUS
<1>2. PICK t : t = store'
  OBVIOUS
<1>3. t = [v \in DOMAIN s \cup {def.ver.raw} |-> IF v = def.ver.raw THEN def ELSE s[v]]
  BY <1>1, <1>2 DEF Upsert
<1>4. IsFiniteSet(DOMAIN s) /\ \A v \in DOMAIN s : s[v] \in Definitions
  BY <1>1 DEF PublishInv
<1>5. DOMAIN t = DOMAIN s \cup {def.ver.raw} /\ \A v \in DOMAIN t : t[v] = def \/ (v \in DOMAIN s /\ t[v] = s[v])
  BY <1>3
<1>6. IsFiniteSet(DOMAIN t)
  BY <1>4, <1>5, FS_AddElement
<1>7. \A v \in DOMAIN t : t[v] \in Definitions
  BY <1>4, <1>5
<1>8. {t[v] : v \in DOMAIN t} \subseteq {s[v] : v \in DOMAIN s} \cup {def}
  BY <1>5
<1> QED
  BY <1>1, <1>2, <1>6, <1>7, <1>8 DEF StoredDefs

\* The store is empty and every form closed at the start.
LEMMA PublishStart == PublishInit => PublishInv
<1> SUFFICES ASSUME PublishInit PROVE PublishInv
  OBVIOUS
<1>1. DOMAIN store = {} /\ IsFiniteSet({})
  BY FS_EmptySet DEF PublishInit
<1>2. form = [e \in Authors |-> Idle]
  BY DEF PublishInit
<1> QED
  BY <1>1, <1>2 DEF PublishInv, FormOK

\* One author's form changes.
LEMMA FormSet ==
    ASSUME PublishInv, NEW e \in Authors, NEW f, FormOK(f), form' = [form EXCEPT ![e] = f]
    PROVE  form' = [x \in Authors |-> form'[x]] /\ \A x \in Authors : FormOK(form'[x])
<1>1. PICK g : g = form
  OBVIOUS
<1>2. PICK h : h = form'
  OBVIOUS
<1>3. g = [x \in Authors |-> g[x]] /\ \A x \in Authors : FormOK(g[x])
  BY <1>1 DEF PublishInv
<1>4. h = [x \in Authors |-> IF x = e THEN f ELSE g[x]]
  BY <1>1, <1>2, <1>3
<1>5. h = [x \in Authors |-> h[x]] /\ \A x \in Authors : FormOK(h[x])
  BY <1>3, <1>4
<1> QED
  BY <1>2, <1>5

\* What Submit leaves in the form.
LEMMA SubmitDoes ==
    ASSUME PublishInv, NEW e \in Authors, Submit(e)
    PROVE  \E f : FormOK(f) /\ form' = [form EXCEPT ![e] = f]
<1>1. PICK latest \in getEventLatest : \E def \in Drafts(latest), prev \in {latest, << >>} :
        form' = [form EXCEPT ![e] =
          [step |-> IF Accepts(prev, def) THEN "checked" ELSE "rejected", prev |-> prev, def |-> def]]
  BY DEF Submit
<1>2. PICK def \in Drafts(latest), prev \in {latest, << >>} :
        form' = [form EXCEPT ![e] =
          [step |-> IF Accepts(prev, def) THEN "checked" ELSE "rejected", prev |-> prev, def |-> def]]
  BY <1>1
<1>3. latest \in Priors
  BY LatestIsPrior
<1>4. def \in Definitions
  BY <1>3, DraftsAreDefinitions
<1>5. prev \in Priors /\ (prev # << >> => def \in Drafts(prev))
  BY <1>3 DEF Priors
<1>6. PICK step : step = IF Accepts(prev, def) THEN "checked" ELSE "rejected"
  OBVIOUS
<1>7. step \in {"checked", "rejected"} /\ (step = "checked" => Accepts(prev, def))
  BY <1>6
<1>8. PICK f : f = [step |-> step, prev |-> prev, def |-> def]
  OBVIOUS
<1>9. f.step = step /\ f.prev = prev /\ f.def = def
  BY <1>8
<1>10. FormOK(f)
  BY <1>4, <1>5, <1>7, <1>9 DEF FormOK
<1>11. form' = [form EXCEPT ![e] = f]
  BY <1>2, <1>6, <1>8
<1> QED
  BY <1>10, <1>11

\* What Post writes.
LEMMA PostDoes ==
    ASSUME PublishInv, Post
    PROVE  \E def \in Definitions : Upsert(def) /\ Recorded(<< >>, def)
<1>1. PICK latest \in getEventLatest : \E def \in Posts(latest) : Upsert(def) /\ Recorded(<< >>, def)
  BY DEF Post
<1>2. latest \in Priors
  BY LatestIsPrior
<1> QED
  BY <1>1, <1>2, DraftsAreDefinitions

\* A closed form.
LEMMA IdleOK == FormOK(Idle)
BY DEF FormOK

\* What a form that passed the check holds.
LEMMA CheckedForm ==
    ASSUME PublishInv, NEW e \in Authors, form[e].step = "checked"
    PROVE  /\ form[e].def \in Definitions /\ form[e].prev \in Priors
           /\ form[e].prev # << >> => form[e].def \in Drafts(form[e].prev)
           /\ Accepts(form[e].prev, form[e].def)
BY DEF PublishInv, FormOK, Idle

\* Every step keeps what the store and the forms hold.
LEMMA PublishStep == PublishInv /\ [PublishNext]_publishVars => PublishInv'
<1> SUFFICES ASSUME PublishInv, [PublishNext]_publishVars PROVE PublishInv'
  OBVIOUS
<1> DEFINE StoreOK == IsFiniteSet(DOMAIN store) /\ \A v \in DOMAIN store : store[v] \in Definitions
           FormsOK == form = [e \in Authors |-> form[e]] /\ \A e \in Authors : FormOK(form[e])
<1>1. StoreOK /\ FormsOK
  BY DEF PublishInv
<1>2. StoreOK' /\ FormsOK' => PublishInv'
  BY DEF PublishInv
<1>3. CASE Post
  <2>1. StoreOK'
    BY <1>3, PostDoes, UpsertDoes
  <2>2. FormsOK'
    BY <1>1, <1>3 DEF Post
  <2> QED
    BY <1>2, <2>1, <2>2
<1>4. ASSUME NEW e \in Authors, Submit(e) PROVE PublishInv'
  <2>1. StoreOK'
    BY <1>1, <1>4 DEF Submit
  <2>2. FormsOK'
    BY <1>4, SubmitDoes, FormSet
  <2> QED
    BY <1>2, <2>1, <2>2
<1>5. ASSUME NEW e \in Authors, Abandon(e) PROVE PublishInv'
  <2>1. StoreOK'
    BY <1>1, <1>5 DEF Abandon
  <2>2. FormsOK'
    BY <1>5, IdleOK, FormSet DEF Abandon
  <2> QED
    BY <1>2, <2>1, <2>2
<1>6. ASSUME NEW e \in Authors, Publish(e) PROVE PublishInv'
  <2>1. StoreOK'
    <3>1. CASE Upsert(form[e].def)
      <4>1. PICK d : d = form[e].def
        OBVIOUS
      <4>2. d \in Definitions /\ Upsert(d)
        BY <1>6, <3>1, <4>1, CheckedForm DEF Publish
      <4> QED
        BY <4>2, UpsertDoes
    <3>2. CASE UNCHANGED store
      BY <1>1, <3>2
    <3> QED
      BY <1>6, <3>1, <3>2 DEF Publish
  <2>2. FormsOK'
    BY <1>6, IdleOK, FormSet DEF Publish
  <2> QED
    BY <1>2, <2>1, <2>2
<1>7. CASE UNCHANGED publishVars
  <2>1. StoreOK' /\ FormsOK'
    BY <1>1, <1>7 DEF publishVars
  <2> QED
    BY <1>2, <2>1
<1> QED
  BY <1>3, <1>4, <1>5, <1>6, <1>7 DEF PublishNext

\* The two sides of a comparison under way.
LEMMA ComparedAre ==
    ASSUME PublishInv, NEW c \in Compared
    PROVE  /\ c[1] \in Definitions /\ c[2] \in Definitions
           /\ c[1].ver.num \in Numbers
<1>1. PICK e \in Authors : form[e].step # "idle" /\ form[e].prev # << >> /\ c = << form[e].prev[1], form[e].def >>
  BY DEF Compared
<1>2. PICK f : f = form[e]
  OBVIOUS
<1>3. f # Idle
  BY <1>1, <1>2 DEF Idle
<1>4. FormOK(f)
  BY <1>2 DEF PublishInv
<1>5. f.def \in Definitions /\ f.prev \in Priors
  BY <1>3, <1>4 DEF FormOK
<1>6. PICK p \in Definitions : f.prev = << p >> /\ Parses(p.ver)
  BY <1>1, <1>2, <1>5 DEF Priors
<1>7. c[1] = p /\ c[2] = f.def
  BY <1>1, <1>2, <1>6
<1>8. p.ver.num \in Numbers
  BY <1>6, DefinitionsAssumption DEF Parses, Numbers
<1> QED
  BY <1>5, <1>7, <1>8

\* spec/diff.go:293: in every state, what a form that comes back suggests passes the check it
\* failed, and no lower version does.
THEOREM FormSuggestsMinimum == PublishSpec => []SuggestionLeast
<1>1. PublishInv => SuggestionLeast
  <2> SUFFICES ASSUME PublishInv, NEW c \in Compared
               PROVE  LET from == c[1].ver.num
                          changes == Diff(c[1], c[2])
                          suggested == SuggestVersion(from, changes)
                      IN  /\ ValidateVersionBump(from, suggested, changes)
                          /\ \A v \in VersionsUpTo(from) :
                               ValidateVersionBump(from, v, changes) => ~Higher(suggested, v)
    BY DEF SuggestionLeast
  <2>1. PICK from \in Numbers : from = c[1].ver.num
    BY ComparedAre
  <2>2. VersionsUpTo(from) \subseteq Numbers
    BY <2>1 DEF VersionsUpTo, Numbers
  <2> QED
    BY <2>1, <2>2, SuggestionIsMinimum
<1> QED
  BY <1>1, PublishStart, PublishStep, PTL DEF PublishSpec

\* spec/diff.go:172-225: in every comparison of the edit form, for any number of properties,
\* a property that comes or goes is reported once and the pairing leaves none it could pair.
THEOREM FormAccountsForProps == PublishSpec => []PropsAccounted
<1>1. PublishInv => PropsAccounted
  <2> SUFFICES ASSUME PublishInv, NEW c \in Compared
               PROVE  LET from == c[1].props
                          to == c[2].props
                          changes == PropChanges(from, to)
                          gone == DOMAIN from \ DOMAIN to
                          come == DOMAIN to \ DOMAIN from
                          reports(n) == {ch \in changes : ch.property = n \/ (ch.kind = "rename_prop" /\ ch.to = n)}
                          alone(n) == \A ch \in reports(n) : ch.kind # "rename_prop"
                      IN  /\ \A n \in gone \cup come : Cardinality(reports(n)) = 1
                          /\ \A n \in gone, m \in come : alone(n) /\ alone(m) => from[n].type # to[m].type
    BY DEF PropsAccounted
  <2>1. PICK from, to : from = c[1].props /\ to = c[2].props
    OBVIOUS
  <2>2. DOMAIN from \subseteq Range(NameOrder) /\ DOMAIN to \subseteq Range(NameOrder)
    BY <2>1, ComparedAre, DefinitionsAssumption
  <2>3. Accounted(from, to)
    BY <2>2, RenamesAccounted
  <2>4. \A n : ReportsOf(from, to, n) = {ch \in PropChanges(c[1].props, c[2].props) : ch.property = n \/ (ch.kind = "rename_prop" /\ ch.to = n)}
    BY <2>1 DEF ReportsOf
  <2>5. ASSUME NEW n \in (DOMAIN from \ DOMAIN to) \cup (DOMAIN to \ DOMAIN from)
        PROVE  Cardinality({ch \in PropChanges(c[1].props, c[2].props) : ch.property = n \/ (ch.kind = "rename_prop" /\ ch.to = n)}) = 1
    BY <2>3, <2>4 DEF Accounted
  <2>6. ASSUME NEW n \in DOMAIN from \ DOMAIN to, NEW m \in DOMAIN to \ DOMAIN from,
               \A ch \in {x \in PropChanges(c[1].props, c[2].props) : x.property = n \/ (x.kind = "rename_prop" /\ x.to = n)} :
                 ch.kind # "rename_prop",
               \A ch \in {x \in PropChanges(c[1].props, c[2].props) : x.property = m \/ (x.kind = "rename_prop" /\ x.to = m)} :
                 ch.kind # "rename_prop"
        PROVE  from[n].type # to[m].type
    BY <2>3, <2>4, <2>6 DEF Accounted
  <2> QED
    BY <2>1, <2>5, <2>6
<1> QED
  BY <1>1, PublishStart, PublishStep, PTL DEF PublishSpec

-----------------------------------------------------------------------------
(* Compatible versions: what MajorCompatible needs.                        *)

\* The properties b accept what a accepts: those of a are still there, no narrower, and
\* those that are new may be left out.
Wider(p, q) ==
  /\ p.type = q.type /\ (q.required => p.required)
  /\ q.enum = {} \/ (p.enum # {} /\ p.enum \subseteq q.enum)
  /\ q.refused \subseteq p.refused
Compat(a, b) ==
  /\ \A n \in DOMAIN a : n \in DOMAIN b /\ Wider(a[n], b[n])
  /\ \A n \in DOMAIN b \ DOMAIN a : ~b[n].required

\* A chain of compatible versions is compatible from end to end.
LEMMA CompatTransitive ==
    ASSUME NEW a, NEW b, NEW c, Compat(a, b), Compat(b, c)
    PROVE  Compat(a, c)
<1>1. ASSUME NEW p, NEW q, NEW r, Wider(p, q), Wider(q, r) PROVE Wider(p, r)
  BY <1>1 DEF Wider
<1>2. ASSUME NEW n \in DOMAIN a PROVE n \in DOMAIN c /\ Wider(a[n], c[n])
  <2>1. n \in DOMAIN b /\ Wider(a[n], b[n])
    BY DEF Compat
  <2>2. n \in DOMAIN c /\ Wider(b[n], c[n])
    BY <2>1 DEF Compat
  <2> QED
    BY <1>1, <2>1, <2>2
<1>3. ASSUME NEW n \in DOMAIN c \ DOMAIN a PROVE ~c[n].required
  <2>1. CASE n \in DOMAIN b
    BY <2>1 DEF Compat, Wider
  <2>2. CASE n \notin DOMAIN b
    BY <2>2 DEF Compat
  <2> QED
    BY <2>1, <2>2
<1> QED
  BY <1>2, <1>3 DEF Compat

\* ValidateEventPayload follows Compat.
LEMMA CompatAccepts ==
    ASSUME NEW u, NEW v, Compat(u.props, v.props),
           \A n \in DOMAIN v.props : v.props[n].type \in PropTypes,
           NEW payload \in Payloads(u), ValidateEventPayload(u, payload)
    PROVE  ValidateEventPayload(v, payload)
<1>1. PICK a, b : a = u.props /\ b = v.props
  OBVIOUS
<1>2. Compat(a, b) /\ \A n \in DOMAIN b : b[n].type \in PropTypes
  BY <1>1
<1>3. DOMAIN payload \subseteq DOMAIN a
  BY <1>1 DEF Payloads
<1>4. /\ \A n \in DOMAIN a : a[n].required => n \in DOMAIN payload
      /\ \A n \in DOMAIN a \cap DOMAIN payload :
           Satisfies(payload[n], a[n])
  BY <1>1 DEF ValidateEventPayload
<1>5. ASSUME NEW n \in DOMAIN b, b[n].required PROVE n \in DOMAIN payload
  BY <1>2, <1>4, <1>5 DEF Compat, Wider
<1>6. ASSUME NEW n \in DOMAIN b \cap DOMAIN payload
      PROVE  Satisfies(payload[n], b[n])
  <2>1. n \in DOMAIN a \cap DOMAIN payload
    BY <1>3
  <2>2. Wider(a[n], b[n])
    BY <1>2, <2>1 DEF Compat
  <2> QED
    BY <1>4, <2>1, <2>2 DEF Wider, Satisfies
<1> QED
  BY <1>1, <1>2, <1>5, <1>6 DEF ValidateEventPayload

\* A version that needs no major step is compatible with the one before, unless it narrows
\* a property in a way that diffProp overlooks.
LEMMA MinorIsCompat ==
    ASSUME NEW p \in Definitions, NEW d \in Definitions, ~Overlooks(p.props, d.props),
           MinLevel(Diff(p, d)) # 2
    PROVE  Compat(p.props, d.props)
<1>1. PICK from, to : from = p.props /\ to = d.props
  OBVIOUS
<1>2. /\ \A n \in DOMAIN from : from[n].required \in BOOLEAN
      /\ \A n \in DOMAIN to : to[n].required \in BOOLEAN
  BY <1>1, DefinitionsAssumption
<1>3. ~Overlooks(from, to)
  BY <1>1
<1>4. \A c \in PropChanges(from, to) : c.breaking # TRUE
  <2>1. PropChanges(from, to) \subseteq Diff(p, d)
    BY <1>1 DEF Diff
  <2> QED
    BY <2>1, LevelOfBreaking
<1>5. \A kind, n : Change(kind, n, TRUE).breaking = TRUE
  BY DEF Change
<1>6. Renames(from, to) = {}
  <2>1. \A q \in Renames(from, to) : Renamed(q) \in PropChanges(from, to) /\ Renamed(q).breaking = TRUE
    BY PropReports DEF Renamed
  <2> QED
    BY <1>4, <2>1
<1>7. DOMAIN from \subseteq DOMAIN to
  <2> SUFFICES ASSUME NEW n \in DOMAIN from, n \notin DOMAIN to PROVE FALSE
    OBVIOUS
  <2>1. n \in Lost(from, to)
    BY <1>6 DEF Lost
  <2>2. Change("remove_prop", n, TRUE) \in PropChanges(from, to)
    BY <2>1, PropReports
  <2> QED
    BY <1>4, <1>5, <2>2
<1>8. ASSUME NEW n \in DOMAIN to \ DOMAIN from PROVE ~to[n].required
  <2> SUFFICES ASSUME to[n].required PROVE FALSE
    OBVIOUS
  <2>1. n \in Gained(from, to)
    BY <1>6 DEF Gained
  <2>2. Change("add_required_prop", n, TRUE) \in PropChanges(from, to)
    <3>1. Added(to, n) = Change("add_required_prop", n, TRUE)
      BY DEF Added
    <3> QED
      BY <2>1, <3>1, PropReports
  <2> QED
    BY <1>4, <1>5, <2>2
<1>9. ASSUME NEW n \in DOMAIN from PROVE n \in DOMAIN to /\ Wider(from[n], to[n])
  <2>1. n \in DOMAIN from \cap DOMAIN to
    BY <1>7
  <2>2. PICK a, b : a = from[n] /\ b = to[n]
    OBVIOUS
  <2>3. a.required \in BOOLEAN /\ b.required \in BOOLEAN
    BY <1>2, <2>1, <2>2
  <2>4. Harmless(n, a, b)
    <3>1. diffProp(n, a, b) \subseteq PropChanges(from, to)
      BY <2>1, <2>2, PropReports
    <3> QED
      BY <1>4, <3>1 DEF Harmless
  <2>5. /\ a.type = b.type /\ (b.required => a.required)
        /\ a.required = b.required => a.enum \ b.enum = {}
    BY <2>3, <2>4, DiffPropHarmless
  <2>6. /\ ~(a.enum = {} /\ b.enum # {})
        /\ ~(a.required /\ ~b.required /\ b.enum # {} /\ a.enum \ b.enum # {})
        /\ b.refused \subseteq a.refused
    BY <1>3, <2>1, <2>2 DEF Overlooks
  <2>7. b.enum = {} \/ (a.enum # {} /\ a.enum \subseteq b.enum)
    <3>1. CASE a.required = b.required
      BY <2>5, <2>6, <3>1
    <3>2. CASE a.required # b.required
      BY <2>3, <2>5, <2>6, <3>2
    <3> QED
      BY <3>1, <3>2
  <2>8. Wider(a, b)
    BY <2>5, <2>6, <2>7 DEF Wider
  <2> QED
    BY <2>1, <2>2, <2>8
<1> QED
  BY <1>1, <1>7, <1>8, <1>9 DEF Compat

\* What a form that passed says of the two definitions it compared.
LEMMA AcceptedFollows ==
    ASSUME NEW p \in Definitions, Parses(p.ver),
           NEW d \in Drafts(<< p >>), Accepts(<< p >>, d)
    PROVE  /\ p.ver.num \in Numbers /\ d.ver.num \in Numbers /\ Higher(d.ver.num, p.ver.num)
           /\ \A n \in DOMAIN d.props : d.props[n].type \in PropTypes
           /\ d.ver.num[1] = p.ver.num[1] /\ ~Overlooks(p.props, d.props) => Compat(p.props, d.props)
<1>1. d \in Definitions
  <2>1. << p >> \in Priors
    BY DEF Priors
  <2> QED
    BY <2>1, DraftsAreDefinitions
<1>2. ValidateEventDef(d) /\ ValidateVersionBump(p.ver.num, d.ver.num, Diff(p, d))
  BY DEF Accepts
<1>3. PICK x, y : x = p.ver.num /\ y = d.ver.num
  OBVIOUS
<1>4. x \in Numbers /\ y \in Numbers
  BY <1>1, <1>2, <1>3, DefinitionsAssumption DEF Parses, ValidateEventDef, Numbers
<1>5. Higher(y, x) /\ DeclaredLevel(x, y) >= MinLevel(Diff(p, d))
  BY <1>2, <1>3, <1>4, ComparisonIsOrder DEF ValidateVersionBump
<1>6. ASSUME y[1] = x[1], ~Overlooks(p.props, d.props) PROVE Compat(p.props, d.props)
  <2>1. DeclaredLevel(x, y) <= 1
    BY <1>4, <1>6 DEF DeclaredLevel, Numbers
  <2>2. MinLevel(Diff(p, d)) # 2
    <3>1. MinLevel(Diff(p, d)) \in {0, 1, 2}
      BY LevelOfChanges
    <3>2. DeclaredLevel(x, y) \in {0, 1, 2}
      BY DEF DeclaredLevel
    <3> QED
      BY <1>5, <2>1, <3>1, <3>2
  <2> QED
    BY <1>1, <1>6, <2>2, MinorIsCompat
<1>7. \A n \in DOMAIN d.props : d.props[n].type \in PropTypes
  BY <1>2 DEF ValidateEventDef
<1> QED
  BY <1>3, <1>4, <1>5, <1>6, <1>7

\* Excused, for the versions U that were not compared and O that were overlooked.
Excuses(U, O, x, y) ==
  \/ \E w \in U : ~Higher(x, w) /\ ~Higher(w, y)
  \/ \E w \in O : Higher(w, x) /\ ~Higher(w, y)

\* What holds of an earlier version u and a later one v, when nothing excuses them.
Follows(u, v) ==
  /\ \A n \in DOMAIN v.props : v.props[n].type \in PropTypes
  /\ v.ver.num[1] = u.ver.num[1] => Compat(u.props, v.props)

\* The versions read from S are apart, and a higher one of the same major is compatible.
Ordered(S, U, O) ==
  \A u, v \in S :
    Parses(u.ver) /\ Parses(v.ver) =>
      /\ u.ver.num = v.ver.num => u = v \/ u.ver.num \in U
      /\ Higher(v.ver.num, u.ver.num) /\ ~Excuses(U, O, u.ver.num, v.ver.num) => Follows(u, v)

\* An excuse lasts, and reaches further pairs around it.
LEMMA ExcusesGrow ==
    ASSUME NEW U \in SUBSET Numbers, NEW O \in SUBSET Numbers,
           NEW V \in SUBSET Numbers, NEW P \in SUBSET Numbers, U \subseteq V, O \subseteq P,
           NEW x \in Numbers, NEW y \in Numbers, NEW z \in Numbers,
           z = y \/ Higher(z, y), Excuses(U, O, x, y)
    PROVE  Excuses(V, P, x, z)
<1>1. \A w \in Numbers : ~Higher(w, y) => ~Higher(w, z)
  BY HigherIsOrder
<1> QED
  BY <1>1 DEF Excuses

\* The first version that can be read has none to be ordered with.
LEMMA OrderedFirst ==
    ASSUME NEW S, \A x \in S : ~Parses(x.ver), NEW d \in Definitions, NEW U, NEW O
    PROVE  Ordered(S \cup {d}, U, O)
<1>1. Parses(d.ver) => ~Higher(d.ver.num, d.ver.num)
  <2>1. Parses(d.ver) => d.ver.num \in Numbers
    BY DefinitionsAssumption DEF Parses, Numbers
  <2> QED
    BY <2>1, HigherIsOrder
<1>2. \A x \in S \cup {d} : Parses(x.ver) => x = d
  OBVIOUS
<1> QED
  BY <1>1, <1>2 DEF Ordered

\* More excuses and fewer versions leave those in order.
LEMMA OrderedWeakens ==
    ASSUME NEW S, NEW T, T \subseteq S, S \subseteq Definitions,
           NEW U \in SUBSET Numbers, NEW O \in SUBSET Numbers,
           NEW V \in SUBSET Numbers, NEW P \in SUBSET Numbers, U \subseteq V, O \subseteq P,
           Ordered(S, U, O)
    PROVE  Ordered(T, V, P)
<1> SUFFICES ASSUME NEW u \in T, NEW v \in T, Parses(u.ver), Parses(v.ver)
             PROVE  /\ u.ver.num = v.ver.num => u = v \/ u.ver.num \in V
                    /\ Higher(v.ver.num, u.ver.num) /\ ~Excuses(V, P, u.ver.num, v.ver.num) => Follows(u, v)
  BY DEF Ordered
<1>1. /\ u.ver.num = v.ver.num => u = v \/ u.ver.num \in U
      /\ Higher(v.ver.num, u.ver.num) /\ ~Excuses(U, O, u.ver.num, v.ver.num) => Follows(u, v)
  BY DEF Ordered
<1>2. u.ver.num \in Numbers /\ v.ver.num \in Numbers
  BY DefinitionsAssumption DEF Parses, Numbers
<1>3. Excuses(U, O, u.ver.num, v.ver.num) => Excuses(V, P, u.ver.num, v.ver.num)
  BY <1>2, ExcusesGrow
<1> QED
  BY <1>1, <1>3

\* A version that was not compared excuses every pair it is in.
LEMMA OrderedUnchecked ==
    ASSUME NEW S, S \subseteq Definitions, NEW d \in Definitions,
           NEW U \in SUBSET Numbers, NEW O \in SUBSET Numbers,
           Ordered(S, U, O), Parses(d.ver) => d.ver.num \in U
    PROVE  Ordered(S \cup {d}, U, O)
<1> SUFFICES ASSUME NEW u \in S \cup {d}, NEW v \in S \cup {d}, Parses(u.ver), Parses(v.ver)
             PROVE  /\ u.ver.num = v.ver.num => u = v \/ u.ver.num \in U
                    /\ Higher(v.ver.num, u.ver.num) /\ ~Excuses(U, O, u.ver.num, v.ver.num) => Follows(u, v)
  BY DEF Ordered
<1>1. u.ver.num \in Numbers /\ v.ver.num \in Numbers
  BY DefinitionsAssumption DEF Parses, Numbers
<1>2. CASE u \in S /\ v \in S
  BY <1>2 DEF Ordered
<1>3. CASE u = d
  <2>1. Higher(v.ver.num, u.ver.num) => Excuses(U, O, u.ver.num, v.ver.num)
    BY <1>1, <1>3, HigherIsOrder DEF Excuses
  <2> QED
    BY <1>3, <2>1
<1>4. CASE v = d
  <2>1. Higher(v.ver.num, u.ver.num) => Excuses(U, O, u.ver.num, v.ver.num)
    BY <1>1, <1>4, HigherIsOrder DEF Excuses
  <2> QED
    BY <1>4, <2>1
<1> QED
  BY <1>2, <1>3, <1>4

\* What follows the latest version keeps them in order.
LEMMA OrderedNext ==
    ASSUME NEW S, S \subseteq Definitions, NEW U \in SUBSET Numbers, NEW O \in SUBSET Numbers,
           Ordered(S, U, O), NEW p \in Latest(S), NEW d \in Definitions,
           p.ver.num \in Numbers, d.ver.num \in Numbers, Higher(d.ver.num, p.ver.num),
           \A n \in DOMAIN d.props : d.props[n].type \in PropTypes,
           d.ver.num[1] = p.ver.num[1] => Compat(p.props, d.props) \/ d.ver.num \in O
    PROVE  Ordered(S \cup {d}, U, O)
<1>1. p \in S /\ Parses(p.ver)
  BY DEF Latest
<1>2. ASSUME NEW u \in S, Parses(u.ver)
      PROVE  /\ u.ver.num # d.ver.num /\ ~Higher(u.ver.num, d.ver.num)
             /\ ~Excuses(U, O, u.ver.num, d.ver.num) => Follows(u, d)
  <2>1. PICK x, y, z : x = u.ver.num /\ y = p.ver.num /\ z = d.ver.num
    OBVIOUS
  <2>2. x \in Numbers /\ y \in Numbers /\ z \in Numbers /\ Higher(z, y)
    BY <1>2, <2>1, DefinitionsAssumption DEF Parses, Numbers
  <2>3. ~Higher(x, y)
    <3>1. u.ns = p.ns /\ u.name = p.name
      <4>1. << u.ns, u.name >> = << p.ns, p.name >>
        BY <1>1, DefinitionsAssumption
      <4> QED
        BY <4>1
    <3> QED
      BY <1>2, <2>1, <3>1 DEF Latest
  <2>4. x = y \/ Higher(y, x)
    BY <2>2, <2>3, HigherIsOrder
  <2>5. Higher(z, x)
    BY <2>2, <2>4, HigherIsOrder
  <2>6. x # z /\ ~Higher(x, z)
    BY <2>2, <2>5, HigherIsOrder
  <2>7. ASSUME z[1] = x[1], ~Excuses(U, O, x, z) PROVE Compat(u.props, d.props)
    <3>1. y[1] = x[1]
      BY <2>2, <2>4, <2>7 DEF Higher, Numbers
    <3>2. Compat(p.props, d.props)
      <4>1. ~Higher(z, z)
        BY <2>2, HigherIsOrder
      <4>2. z \notin O
        BY <2>5, <2>7, <4>1 DEF Excuses
      <4> QED
        BY <2>1, <2>7, <3>1, <4>2
    <3>3. CASE x = y
      <4>1. x \notin U
        <5>1. ~Higher(x, x)
          BY <2>2, HigherIsOrder
        <5> QED
          BY <2>6, <2>7, <5>1 DEF Excuses
      <4>2. u = p
        BY <1>1, <1>2, <2>1, <3>3, <4>1 DEF Ordered
      <4> QED
        BY <3>2, <4>2
    <3>4. CASE Higher(y, x)
      <4>1. ~Excuses(U, O, x, y)
        BY <2>2, <2>7, ExcusesGrow
      <4>2. Follows(u, p)
        BY <1>1, <1>2, <2>1, <3>4, <4>1 DEF Ordered
      <4>3. Compat(u.props, p.props)
        BY <2>1, <3>1, <4>2 DEF Follows
      <4> QED
        BY <3>2, <4>3, CompatTransitive
    <3> QED
      BY <2>4, <3>3, <3>4
  <2> QED
    BY <2>1, <2>6, <2>7 DEF Follows
<1>3. ~Higher(d.ver.num, d.ver.num)
  BY HigherIsOrder
<1>4. ASSUME NEW u \in S \cup {d}, NEW v \in S \cup {d}, Parses(u.ver), Parses(v.ver)
      PROVE  /\ u.ver.num = v.ver.num => u = v \/ u.ver.num \in U
             /\ Higher(v.ver.num, u.ver.num) /\ ~Excuses(U, O, u.ver.num, v.ver.num) => Follows(u, v)
  <2>1. CASE u \in S /\ v \in S
    BY <1>4, <2>1 DEF Ordered
  <2>2. CASE u \in S /\ v = d
    BY <1>2, <1>4, <2>2
  <2>3. CASE u = d /\ v \in S
    BY <1>2, <1>4, <2>3
  <2>4. CASE u = d /\ v = d
    BY <1>3, <2>4
  <2> QED
    BY <2>1, <2>2, <2>3, <2>4
<1> QED
  BY <1>4 DEF Ordered

\* The stored versions are in order, but for what the history excuses.
HistoryInv ==
  /\ unchecked \in SUBSET Numbers /\ overlooked \in SUBSET Numbers
  /\ Ordered(StoredDefs, unchecked, overlooked)

\* Storing def, after a comparison with prev that passed or after none.
LEMMA StoringKeepsOrder ==
    ASSUME PublishInv, HistoryInv, NEW prev \in Priors, NEW def \in Definitions,
           prev # << >> => def \in Drafts(prev) /\ Accepts(prev, def),
           Upsert(def), Recorded(prev, def)
    PROVE  HistoryInv'
<1>1. PICK S, T : S = StoredDefs /\ T = StoredDefs'
  OBVIOUS
<1>2. PICK U, V : U = unchecked /\ V = unchecked'
  OBVIOUS
<1>3. PICK O, P : O = overlooked /\ P = overlooked'
  OBVIOUS
<1>4. T \subseteq S \cup {def} /\ S \subseteq Definitions
  BY <1>1, StoredRead, UpsertDoes
<1>5. U \in SUBSET Numbers /\ O \in SUBSET Numbers /\ Ordered(S, U, O)
  BY <1>1, <1>2, <1>3 DEF HistoryInv
<1>6. Version(def) \subseteq Numbers
  BY DefinitionsAssumption DEF Version, Parses, Numbers
<1>7. /\ V = IF prev \in getEventLatest THEN U ELSE U \cup Version(def)
      /\ P = IF prev # << >> /\ Overlooks(prev[1].props, def.props) THEN O \cup Version(def) ELSE O
  BY <1>2, <1>3 DEF Recorded
<1>8. V \in SUBSET Numbers /\ P \in SUBSET Numbers /\ U \subseteq V /\ O \subseteq P
  BY <1>5, <1>6, <1>7
<1>9. Ordered(S, V, P)
  BY <1>4, <1>5, <1>8, OrderedWeakens
<1>10. Ordered(S \cup {def}, V, P)
  <2>1. CASE prev \notin getEventLatest
    <3>1. Parses(def.ver) => def.ver.num \in V
      BY <1>7, <2>1 DEF Version
    <3> QED
      BY <1>4, <1>8, <1>9, <3>1, OrderedUnchecked
  <2>2. CASE prev \in getEventLatest /\ prev = << >> /\ \A x \in S : ~Parses(x.ver)
    BY <2>2, OrderedFirst
  <2>3. CASE prev \in getEventLatest /\ \E p \in Latest(S) : prev = << p >>
    <3>1. PICK p \in Latest(S) : prev = << p >>
      BY <2>3
    <3>2. p \in Definitions /\ Parses(p.ver)
      BY <1>4 DEF Latest
    <3>3. prev # << >> /\ prev[1] = p
      BY <3>1
    <3>4. def \in Drafts(<< p >>) /\ Accepts(<< p >>, def)
      BY <3>1, <3>3
    <3>5. /\ p.ver.num \in Numbers /\ def.ver.num \in Numbers /\ Higher(def.ver.num, p.ver.num)
          /\ \A n \in DOMAIN def.props : def.props[n].type \in PropTypes
          /\ def.ver.num[1] = p.ver.num[1] /\ ~Overlooks(p.props, def.props) => Compat(p.props, def.props)
      BY <3>2, <3>4, AcceptedFollows
    <3>6. Overlooks(p.props, def.props) => def.ver.num \in P
      <4>1. Parses(def.ver)
        BY <3>4 DEF Accepts, ValidateEventDef
      <4> QED
        BY <1>7, <3>3, <4>1 DEF Version
    <3> QED
      BY <1>4, <1>8, <1>9, <3>5, <3>6, OrderedNext
  <2> QED
    BY <1>1, <2>1, <2>2, <2>3, LatestFound
<1>11. S \cup {def} \subseteq Definitions
  BY <1>4
<1>12. Ordered(T, V, P)
  BY <1>4, <1>8, <1>10, <1>11, OrderedWeakens
<1>13. StoredDefs' = T /\ unchecked' = V /\ overlooked' = P
  BY <1>1, <1>2, <1>3
<1>14. HistoryInv' = (V \in SUBSET Numbers /\ P \in SUBSET Numbers /\ Ordered(T, V, P))
  BY <1>13 DEF HistoryInv
<1> QED
  BY <1>8, <1>12, <1>14

\* The empty store is in order.
LEMMA HistoryStart == PublishInit => HistoryInv
BY DEF PublishInit, HistoryInv, StoredDefs, Ordered

\* Every step keeps the order that the history tells.
LEMMA HistoryStep == PublishInv /\ HistoryInv /\ [PublishNext]_publishVars => HistoryInv'
<1> SUFFICES ASSUME PublishInv, HistoryInv, [PublishNext]_publishVars PROVE HistoryInv'
  OBVIOUS
<1>1. ASSUME UNCHANGED << store, history >> PROVE HistoryInv'
  <2>1. StoredDefs' = StoredDefs /\ unchecked' = unchecked /\ overlooked' = overlooked
    BY <1>1 DEF StoredDefs, history
  <2> QED
    BY <2>1 DEF HistoryInv, Ordered
<1>2. CASE Post
  <2>1. PICK def \in Definitions : Upsert(def) /\ Recorded(<< >>, def)
    BY <1>2, PostDoes
  <2>2. << >> \in Priors
    BY DEF Priors
  <2> QED
    BY <2>1, <2>2, StoringKeepsOrder
<1>3. ASSUME NEW e \in Authors, Submit(e) \/ Abandon(e) PROVE HistoryInv'
  BY <1>1, <1>3 DEF Submit, Abandon
<1>4. ASSUME NEW e \in Authors, Publish(e) PROVE HistoryInv'
  <2>1. CASE Upsert(form[e].def) /\ Recorded(form[e].prev, form[e].def)
    <3>1. PICK d, l : d = form[e].def /\ l = form[e].prev
      OBVIOUS
    <3>2. d \in Definitions /\ l \in Priors /\ (l # << >> => d \in Drafts(l)) /\ Accepts(l, d)
      BY <1>4, <3>1, CheckedForm DEF Publish
    <3>3. Upsert(d) /\ Recorded(l, d)
      BY <2>1, <3>1
    <3> QED
      BY <3>2, <3>3, StoringKeepsOrder
  <2> QED
    BY <1>1, <1>4, <2>1 DEF Publish
<1>5. CASE UNCHANGED publishVars
  BY <1>1, <1>5 DEF publishVars, history
<1> QED
  BY <1>2, <1>3, <1>4, <1>5 DEF PublishNext

\* docs/docs/concepts/event-contract.md:55: for any number of authors, of versions and of
\* properties, a payload that a version declares and accepts is accepted by every later one
\* of its major, unless a version from the one to the other was stored without being compared
\* with the latest, or one after the first narrows a property where diffProp does not look.
THEOREM MajorsStayCompatible == PublishSpec => []MajorCompatible
<1>1. PublishInv /\ HistoryInv => MajorCompatible
  <2> SUFFICES ASSUME HistoryInv,
                      NEW u \in StoredDefs, NEW v \in StoredDefs, Parses(u.ver), Parses(v.ver),
                      u.ver.num[1] = v.ver.num[1], Higher(v.ver.num, u.ver.num),
                      ~Excused(u.ver.num, v.ver.num),
                      NEW payload \in Payloads(u), ValidateEventPayload(u, payload)
               PROVE  ValidateEventPayload(v, payload)
    BY DEF MajorCompatible
  <2>1. ~Excuses(unchecked, overlooked, u.ver.num, v.ver.num)
    BY DEF Excused, Excuses
  <2>2. Follows(u, v)
    BY <2>1 DEF HistoryInv, Ordered
  <2>3. Compat(u.props, v.props) /\ \A n \in DOMAIN v.props : v.props[n].type \in PropTypes
    BY <2>2 DEF Follows
  <2> QED
    BY <2>3, CompatAccepts
<1>2. PublishInit => PublishInv /\ HistoryInv
  BY PublishStart, HistoryStart
<1>3. PublishInv /\ HistoryInv /\ [PublishNext]_publishVars => (PublishInv /\ HistoryInv)'
  BY PublishStep, HistoryStep
<1> QED
  BY <1>1, <1>2, <1>3, PTL DEF PublishSpec

=============================================================================
