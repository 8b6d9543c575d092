------------------------ MODULE AnalyticsClientProofs ------------------------
(***************************************************************************)
(* Proofs about AnalyticsClient, for any number of dispatches, sweeps,     *)
(* providers and hooks.                                                    *)
(***************************************************************************)
EXTENDS AnalyticsClient, SequenceTheorems, TLAPS

-----------------------------------------------------------------------------
(* The lists.  A slice lies within its array, and no element of it is nil, *)
(* although arrays are shared and have room behind their slices.           *)

Elems == Providers \cup {"nil"}

SliceOK(c) ==
    /\ providers[c].array \in 1..Len(heap)
    /\ providers[c].len \in -1..Len(heap[providers[c].array])
    /\ \A i \in 1..providers[c].len : heap[providers[c].array][i] \in Providers

ListInv ==
    /\ heap \in Seq(Seq(Elems))
    /\ providers \in [Clients -> [array : Nat, len : Int]]
    /\ \A c \in Clients : SliceOK(c)
    /\ globalHooksList \in Seq(ApiHooks)
    /\ allowDraft \in BOOLEAN

LEMMA ContentsFacts ==
    ASSUME ListInv, NEW c \in Clients
    PROVE  Contents(providers[c]) \in Seq(Providers)
  <1>1. providers[c].len \in Int /\ SliceOK(c)
    BY DEF ListInv
  <1> QED BY <1>1, SubSeqProperties DEF Contents, SliceOK

\* The array that append allocates.
LEMMA GrownFacts ==
    ASSUME NEW old \in Seq(Elems), NEW p \in Providers
    PROVE  LET new == Grown(Append(old, p), NewCap(Len(old)))
           IN  /\ new \in Seq(Elems) /\ Len(new) >= Len(old) + 1
               /\ \A i \in 1..Len(old) : new[i] = old[i]
               /\ new[Len(old) + 1] = p
  <1> DEFINE app == Append(old, p)
             m == NewCap(Len(old)) - Len(app)
             nils == [i \in 1..m |-> "nil"]
  <1>1. /\ app \in Seq(Elems) /\ Len(app) = Len(old) + 1 /\ Len(old) \in Nat
        /\ \A i \in 1..Len(old) : app[i] = old[i]
        /\ app[Len(old) + 1] = p
    BY DEF Elems
  <1>2. m \in Nat
    BY <1>1 DEF NewCap
  <1>3. nils \in Seq(Elems) /\ Len(nils) \in Nat
    <2>1. nils \in [1..m -> Elems]
      BY DEF Elems
    <2>2. nils \in Seq(Elems)
      BY <1>2, <2>1, SeqDef
    <2> HIDE DEF nils
    <2> QED BY <2>2, LenProperties
  <1>4. Grown(app, NewCap(Len(old))) = app \o nils
    BY DEF Grown
  <1> HIDE DEF app, nils
  <1>5. /\ app \o nils \in Seq(Elems) /\ Len(app \o nils) = Len(app) + Len(nils)
        /\ \A i \in 1..Len(app) + Len(nils) :
             (app \o nils)[i] = IF i <= Len(app) THEN app[i] ELSE nils[i - Len(app)]
    BY <1>1, <1>3, ConcatProperties
  <1>6. \A i \in 1..(Len(old) + 1) : (app \o nils)[i] = app[i]
    BY <1>1, <1>3, <1>5
  <1>7. /\ app \o nils \in Seq(Elems) /\ Len(app \o nils) >= Len(old) + 1
        /\ \A i \in 1..Len(old) : (app \o nils)[i] = old[i]
        /\ (app \o nils)[Len(old) + 1] = p
    BY <1>1, <1>3, <1>5, <1>6
  <1> QED BY <1>4, <1>7 DEF app

\* A new array is put at the end of the heap: the slices keep theirs.
LEMMA NewArray ==
    ASSUME ListInv, NEW new \in Seq(Elems), NEW c \in Clients, NEW len \in Nat,
           heap' = Append(heap, new), len <= Len(new), \A i \in 1..len : new[i] \in Providers,
           providers' = [providers EXCEPT ![c] = [array |-> Len(heap) + 1, len |-> len]],
           UNCHANGED <<allowDraft, globalHooksList>>
    PROVE  ListInv'
  <1>1. /\ heap' \in Seq(Seq(Elems)) /\ Len(heap) \in Nat /\ Len(heap') = Len(heap) + 1
        /\ \A i \in 1..Len(heap) : heap'[i] = heap[i]
        /\ heap'[Len(heap) + 1] = new
    BY DEF ListInv
  <1>2. providers' \in [Clients -> [array : Nat, len : Int]]
    BY <1>1 DEF ListInv
  <1>3. SliceOK(c)'
    <2>1. providers'[c].array = Len(heap) + 1 /\ providers'[c].len = len
      BY DEF ListInv
    <2>2. Len(new) \in Nat
      OBVIOUS
    <2> QED BY <1>1, <2>1, <2>2 DEF SliceOK
  <1>4. ASSUME NEW d \in Clients \ {c} PROVE SliceOK(d)'
    <2>1. providers'[d] = providers[d] /\ SliceOK(d)
      BY DEF ListInv
    <2>2. heap'[providers[d].array] = heap[providers[d].array]
      BY <1>1, <2>1 DEF SliceOK
    <2>3. providers[d].array \in 1..Len(heap')
      BY <1>1, <2>1 DEF SliceOK
    <2> QED BY <2>1, <2>2, <2>3 DEF SliceOK
  <1> QED BY <1>1, <1>2, <1>3, <1>4 DEF ListInv

LEMMA AppendLists ==
    ASSUME ListInv, NEW c \in Clients, NEW p \in Providers, Exists(c), AppendSlice(c, p),
           UNCHANGED <<allowDraft, globalHooksList>>
    PROVE  ListInv'
  <1> DEFINE a == providers[c].array
             l == providers[c].len
  <1>1. /\ a \in 1..Len(heap) /\ Len(heap) \in Nat /\ l \in Nat /\ l <= Len(heap[a])
        /\ \A i \in 1..l : heap[a][i] \in Providers
        /\ heap[a] \in Seq(Elems) /\ Len(heap[a]) \in Nat
    BY DEF ListInv, SliceOK, Exists
  <1>2. CASE /\ l < Len(heap[a])
             /\ heap' = [heap EXCEPT ![a][l + 1] = p]
             /\ providers' = [providers EXCEPT ![c].len = @ + 1]
    <2> DEFINE new == [heap[a] EXCEPT ![l + 1] = p]
    <2>1. /\ new \in Seq(Elems) /\ Len(new) = Len(heap[a])
          /\ \A i \in 1..Len(heap[a]) : new[i] = IF i = l + 1 THEN p ELSE heap[a][i]
      BY <1>1, <1>2, ExceptSeq DEF Elems
    <2>2. heap' = [heap EXCEPT ![a] = new]
      BY <1>2 DEF ListInv
    <2> HIDE DEF new
    <2>3. /\ heap' \in Seq(Seq(Elems)) /\ Len(heap') = Len(heap)
          /\ \A i \in 1..Len(heap) : heap'[i] = IF i = a THEN new ELSE heap[i]
      BY <1>1, <2>1, <2>2, ExceptSeq DEF ListInv
    <2>4. /\ providers' \in [Clients -> [array : Nat, len : Int]]
          /\ providers'[c].array = a /\ providers'[c].len = l + 1
          /\ \A d \in Clients \ {c} : providers'[d] = providers[d]
      BY <1>1, <1>2 DEF ListInv
    <2>5. ASSUME NEW d \in Clients PROVE SliceOK(d)'
      <3>1. /\ SliceOK(d) /\ providers'[d].array = providers[d].array
            /\ providers'[d].len \in Int /\ providers[d].len \in Int
        BY <2>4 DEF ListInv
      <3>2. providers'[d].len = IF d = c THEN l + 1 ELSE providers[d].len
        BY <2>4
      <3>3. CASE providers[d].array = a
        <4>1. heap'[providers'[d].array] = new
          BY <1>1, <2>3, <3>1, <3>3
        <4>2. providers'[d].len \in -1..Len(new)
          BY <1>1, <1>2, <2>1, <3>1, <3>2, <3>3 DEF SliceOK
        <4>3. ASSUME NEW i \in 1..providers'[d].len PROVE new[i] \in Providers
          <5>1. i \in 1..Len(heap[a]) /\ i \in Nat
            BY <1>1, <2>1, <3>1, <4>2
          <5>2. new[i] = IF i = l + 1 THEN p ELSE heap[a][i]
            BY <2>1, <5>1
          <5>3. i # l + 1 => i \in 1..l \/ i \in 1..providers[d].len
            BY <1>1, <3>1, <3>2, <5>1
          <5>4. \A j \in 1..providers[d].len : heap[a][j] \in Providers
            BY <3>1, <3>3 DEF SliceOK
          <5> QED BY <1>1, <5>2, <5>3, <5>4
        <4> QED BY <1>1, <2>3, <3>1, <3>3, <4>1, <4>2, <4>3 DEF SliceOK
      <3>4. CASE providers[d].array # a
        <4>1. d # c /\ heap'[providers[d].array] = heap[providers[d].array]
          BY <2>3, <3>1, <3>4 DEF SliceOK
        <4> QED BY <2>3, <3>1, <3>2, <4>1 DEF SliceOK
      <3> QED BY <3>3, <3>4
    <2> QED BY <2>3, <2>4, <2>5 DEF ListInv
  <1>3. CASE /\ l = Len(heap[a])
             /\ heap' = Append(heap, Grown(Append(heap[a], p), NewCap(Len(heap[a]))))
             /\ providers' = [providers EXCEPT ![c] = [array |-> Len(heap) + 1, len |-> l + 1]]
    <2> DEFINE new == Grown(Append(heap[a], p), NewCap(Len(heap[a])))
    <2>1. /\ new \in Seq(Elems) /\ Len(new) >= Len(heap[a]) + 1
          /\ \A i \in 1..Len(heap[a]) : new[i] = heap[a][i]
          /\ new[Len(heap[a]) + 1] = p
      BY <1>1, GrownFacts
    <2>2. heap' = Append(heap, new) /\ l + 1 \in Nat
      BY <1>1, <1>3
    <2> HIDE DEF new
    <2>3. l + 1 <= Len(new)
      BY <1>1, <1>3, <2>1
    <2>4. ASSUME NEW i \in 1..(l + 1) PROVE new[i] \in Providers
      <3>1. i \in 1..l \/ i = l + 1
        BY <1>1
      <3> QED BY <1>1, <1>3, <2>1, <3>1
    <2> QED BY <1>3, <2>1, <2>2, <2>3, <2>4, NewArray
  <1> QED BY <1>2, <1>3 DEF AppendSlice

LEMMA InitLists == Init => ListInv
  <1> SUFFICES ASSUME Init PROVE ListInv
    OBVIOUS
  <1>1. Given \in Seq(Elems) /\ Given \in Seq(Providers) /\ << >> \in Seq(Elems)
    <2>1. ToSet(Given) \subseteq Elems /\ ToSet(Given) \subseteq Providers
      BY DEF Elems, Providers, ProviderHooks
    <2> QED BY <2>1, HooksAssumption, SeqMonotonic, EmptySeq DEF HooksAssumption
  <1>2. heap \in Seq(Seq(Elems)) /\ Len(heap) = 2 /\ heap[1] = Given /\ heap[2] = << >>
    BY <1>1 DEF Init
  <1>3. Len(Given) \in Nat /\ \A i \in 1..Len(Given) : Given[i] \in Providers
    BY <1>1, ElementOfSeq, LenProperties
  <1>4. /\ providers \in [Clients -> [array : Nat, len : Int]]
        /\ providers["base"] = [array |-> 1, len |-> Len(Given)]
        /\ providers["global"] = [array |-> 2, len |-> 0]
        /\ providers["tx"] = NoSlice
    <2>1. \A c \in Clients : c \in {"base", "global", "tx"}
      BY DEF Clients
    <2>2. /\ providers["base"] = [array |-> 1, len |-> Len(Given)]
          /\ providers["global"] = [array |-> 2, len |-> 0]
          /\ providers["tx"] = NoSlice
          /\ providers = [c \in Clients |-> providers[c]]
      BY DEF Init, Clients
    <2> QED BY <1>3, <2>1, <2>2 DEF NoSlice
  <1>5. ASSUME NEW c \in Clients PROVE SliceOK(c)
    <2>1. CASE c = "base"
      BY <1>2, <1>3, <1>4, <2>1 DEF SliceOK
    <2>2. CASE c = "global"
      <3>1. providers[c].array = 2 /\ providers[c].len = 0
        BY <1>4, <2>2
      <3> QED BY <1>2, <3>1, EmptySeq DEF SliceOK
    <2>3. CASE c = "tx"
      <3>1. providers[c].array = 1 /\ providers[c].len = -1
        BY <1>4, <2>3 DEF NoSlice
      <3> QED BY <1>2, <1>3, <3>1 DEF SliceOK
    <2> QED BY <2>1, <2>2, <2>3 DEF Clients
  <1>6. globalHooksList \in Seq(ApiHooks) /\ allowDraft \in BOOLEAN
    BY EmptySeq, HooksAssumption DEF Init, HooksAssumption
  <1> QED BY <1>2, <1>4, <1>5, <1>6 DEF ListInv

LEMMA ExtraAreProviders == Extra \subseteq Providers
  BY DEF Providers, ProviderHooks

LEMMA NextLists == ListInv /\ [Next]_vars => ListInv'
  <1> SUFFICES ASSUME ListInv, [Next]_vars PROVE ListInv'
    OBVIOUS
  <1>1. CASE UNCHANGED Lists
    BY <1>1 DEF Lists, ListInv, SliceOK
  <1>2. ASSUME NEW s \in Sweeps, Sweep(s) PROVE ListInv'
    BY <1>1, <1>2 DEF Sweep, SweepBegin, SweepVisit, SweepReturn
  <1>3. ASSUME NEW k \in Calls, Begin(k) \/ Dispatch(k) \/ Goroutines(k) PROVE ListInv'
    <2>1. UNCHANGED Lists
      BY <1>3 DEF Begin, Dispatch, CollectGlobalHooks, CollectClientHooks, CollectProviderHooks,
                  Before, Start, Join, Goroutines, Unwind, CallProvider, Idle
    <2> QED BY <1>1, <2>1
  <1>4. ASSUME NEW c \in Clients, NEW p \in Extra, AddProvider(c, p) PROVE ListInv'
    BY <1>4, AppendLists, ExtraAreProviders DEF AddProvider
  <1>5. ASSUME NEW p \in Extra, SetGlobalProvider(p) PROVE ListInv'
    <2>1. <<p>> \in Seq(Elems) /\ Len(<<p>>) = 1 /\ <<p>>[1] \in Providers
      BY ExtraAreProviders DEF Elems
    <2>2. PICK new \in Seq(Elems) : new = <<p>> /\ Len(new) = 1 /\ new[1] \in Providers
      BY <2>1
    <2>3. /\ heap' = Append(heap, new)
          /\ providers' = [providers EXCEPT !["global"] = [array |-> Len(heap) + 1, len |-> 1]]
          /\ UNCHANGED <<allowDraft, globalHooksList>>
      BY <1>5, <2>2 DEF SetGlobalProvider
    <2>4. "global" \in Clients /\ 1 \in Nat /\ 1 <= Len(new) /\ \A i \in 1..1 : new[i] \in Providers
      BY <2>2 DEF Clients
    <2> QED BY <2>2, <2>3, <2>4, NewArray
  <1>6. CASE WithTransaction
    <2>1. providers' = [providers EXCEPT !["tx"] = providers["base"]]
          /\ UNCHANGED <<heap, allowDraft, globalHooksList>> /\ "base" \in Clients
      BY <1>6 DEF WithTransaction, Clients
    <2>2. /\ providers' \in [Clients -> [array : Nat, len : Int]]
          /\ \A c \in Clients : providers'[c] \in {providers[c], providers["base"]}
      BY <2>1 DEF ListInv
    <2>3. \A c \in Clients : SliceOK(c)'
      BY <2>1, <2>2 DEF ListInv, SliceOK
    <2> QED BY <2>1, <2>2, <2>3 DEF ListInv
  <1>7. ASSUME NEW h \in ApiHooks, AddGlobalHooks(h) PROVE ListInv'
    BY <1>7 DEF AddGlobalHooks, ListInv, SliceOK
  <1> QED BY <1>1, <1>2, <1>3, <1>4, <1>5, <1>6, <1>7 DEF Next, vars

-----------------------------------------------------------------------------
(* Flush and Shutdown.                                                     *)

SweepRecord ==
    [pc : {"idle", "visiting", "returned"}, client : Clients, ps : Seq(Providers),
     visited : Seq(Providers), errs : SUBSET Providers]

SweepOK(s) ==
    /\ Len(sweep[s].visited) <= Len(sweep[s].ps)
    /\ \A i \in 1..Len(sweep[s].visited) : sweep[s].visited[i] = sweep[s].ps[i]
    /\ sweep[s].pc = "idle" => sweep[s].visited = << >>
    /\ sweep[s].pc = "returned" => sweep[s].visited = sweep[s].ps
    /\ sweep[s].errs \subseteq ToSet(sweep[s].visited)

SweepInv ==
    /\ sweep \in [Sweeps -> SweepRecord]
    /\ \A s \in Sweeps : SweepOK(s)

LEMMA InitSweeps == Init => SweepInv
  <1>1. NoSweep \in SweepRecord
    BY EmptySeq DEF NoSweep, SweepRecord, Clients
  <1>2. NoSweep.pc = "idle" /\ NoSweep.visited = << >> /\ NoSweep.ps = << >> /\ NoSweep.errs = {}
    BY DEF NoSweep
  <1>3. Len(<< >>) = 0
    BY EmptySeq
  <1> QED BY <1>1, <1>2, <1>3 DEF Init, SweepInv, SweepOK

\* A sweep that goes on.
LEMMA SweepMoves ==
    ASSUME SweepInv, NEW s \in Sweeps, NEW new \in SweepRecord, sweep' = [sweep EXCEPT ![s] = new],
           Len(new.visited) <= Len(new.ps),
           \A i \in 1..Len(new.visited) : new.visited[i] = new.ps[i],
           new.pc # "idle",
           new.pc = "returned" => new.visited = new.ps,
           new.errs \subseteq ToSet(new.visited)
    PROVE  SweepInv'
  <1>1. sweep' \in [Sweeps -> SweepRecord] /\ sweep'[s] = new
        /\ \A r \in Sweeps \ {s} : sweep'[r] = sweep[r]
    BY DEF SweepInv
  <1> QED BY <1>1 DEF SweepInv, SweepOK

LEMMA AppendFacts ==
    ASSUME NEW S, NEW q \in Seq(S), NEW x \in S
    PROVE  /\ Append(q, x) \in Seq(S) /\ Len(Append(q, x)) = Len(q) + 1 /\ Len(q) \in Nat
           /\ \A i \in 1..Len(q) : Append(q, x)[i] = q[i]
           /\ Append(q, x)[Len(q) + 1] = x
           /\ ToSet(Append(q, x)) = ToSet(q) \cup {x}
  <1>1. /\ Append(q, x) \in Seq(S) /\ Len(Append(q, x)) = Len(q) + 1 /\ Len(q) \in Nat
        /\ \A i \in 1..Len(q) : Append(q, x)[i] = q[i]
        /\ Append(q, x)[Len(q) + 1] = x
    OBVIOUS
  <1>2. DOMAIN q = 1..Len(q) /\ DOMAIN Append(q, x) = 1..(Len(q) + 1)
    BY <1>1
  <1>3. 1..(Len(q) + 1) = 1..Len(q) \cup {Len(q) + 1}
    BY <1>1
  <1> QED BY <1>1, <1>2, <1>3 DEF ToSet

LEMMA NextSweeps == ListInv /\ SweepInv /\ [Next]_vars => SweepInv'
  <1> SUFFICES ASSUME ListInv, SweepInv, [Next]_vars PROVE SweepInv'
    OBVIOUS
  <1>1. CASE UNCHANGED sweep
    BY <1>1 DEF SweepInv, SweepOK
  <1>2. ASSUME NEW s \in Sweeps, Sweep(s) PROVE SweepInv'
    <2>1. sweep[s] \in SweepRecord /\ SweepOK(s)
      BY DEF SweepInv
    <2>2. ASSUME NEW c \in Clients, SweepBegin(s, c) PROVE SweepInv'
      <3>1. PICK ps \in Seq(Providers) : ps = Contents(providers[c])
        BY ContentsFacts
      <3> DEFINE new == [sweep[s] EXCEPT !.pc = "visiting", !.client = c, !.ps = ps]
      <3>2. sweep' = [sweep EXCEPT ![s] = new] /\ sweep[s].pc = "idle"
        BY <2>2, <3>1 DEF SweepBegin, SweepInv
      <3>3. /\ new \in SweepRecord /\ new.pc = "visiting" /\ new.visited = sweep[s].visited
            /\ new.ps = ps /\ new.errs = sweep[s].errs
        BY <2>1 DEF SweepRecord
      <3>4. sweep[s].visited = << >> /\ Len(<< >>) = 0 /\ Len(ps) \in Nat
        BY <2>1, <3>2, EmptySeq, LenProperties DEF SweepOK
      <3> HIDE DEF new
      <3>5. Len(new.visited) <= Len(new.ps) /\ \A i \in 1..Len(new.visited) : FALSE
        BY <3>3, <3>4
      <3>6. new.errs \subseteq ToSet(new.visited)
        BY <2>1, <3>3 DEF SweepOK
      <3> QED BY <3>2, <3>3, <3>5, <3>6, SweepMoves
    <2>3. ASSUME NEW err \in BOOLEAN, SweepVisit(s, err) PROVE SweepInv'
      <3> DEFINE n == Len(sweep[s].visited)
      <3>1. /\ sweep[s].pc = "visiting" /\ n < Len(sweep[s].ps) /\ n \in Nat
            /\ sweep[s].visited \in Seq(Providers) /\ sweep[s].ps \in Seq(Providers)
            /\ Len(sweep[s].ps) \in Nat /\ sweep[s].errs \subseteq Providers
        BY <2>1, <2>3 DEF SweepVisit, SweepRecord
      <3>2. PICK p \in Providers : p = sweep[s].ps[n + 1]
        BY <3>1
      <3>3. PICK visited \in Seq(Providers) : visited = Append(sweep[s].visited, p)
        BY <3>1, AppendFacts
      <3>4. PICK errs \in SUBSET Providers : errs = IF err THEN sweep[s].errs \cup {p}
                                                           ELSE sweep[s].errs
        BY <3>1
      <3> DEFINE new == [sweep[s] EXCEPT !.visited = visited, !.errs = errs, !.pc = "visiting"]
      <3>5. sweep' = [sweep EXCEPT ![s] = new]
        BY <2>3, <3>2, <3>3, <3>4 DEF SweepVisit, AfterVisit, SweepInv
      <3>6. /\ new \in SweepRecord /\ new.pc = "visiting" /\ new.visited = visited
            /\ new.ps = sweep[s].ps /\ new.errs = errs
        BY <2>1 DEF SweepRecord
      <3>7. /\ Len(visited) = n + 1 /\ visited[n + 1] = p
            /\ \A i \in 1..n : visited[i] = sweep[s].visited[i]
            /\ ToSet(visited) = ToSet(sweep[s].visited) \cup {p}
        BY <3>1, <3>3, AppendFacts
      <3>8. Len(visited) <= Len(sweep[s].ps) /\ errs \subseteq ToSet(visited)
        BY <2>1, <3>1, <3>4, <3>7 DEF SweepOK
      <3>9. ASSUME NEW i \in 1..Len(visited) PROVE visited[i] = sweep[s].ps[i]
        <4>1. i \in 1..n \/ i = n + 1
          BY <3>1, <3>7
        <4> QED BY <2>1, <3>2, <3>7, <4>1 DEF SweepOK
      <3> HIDE DEF new
      <3> QED BY <3>5, <3>6, <3>8, <3>9, SweepMoves
    <2>4. CASE SweepReturn(s)
      <3> DEFINE new == [sweep[s] EXCEPT !.pc = "returned"]
      <3>1. sweep' = [sweep EXCEPT ![s] = new] /\ sweep[s].visited = sweep[s].ps
        BY <2>4 DEF SweepReturn, SweepInv
      <3>2. /\ new \in SweepRecord /\ new.pc = "returned" /\ new.visited = sweep[s].visited
            /\ new.ps = sweep[s].ps /\ new.errs = sweep[s].errs
        BY <2>1 DEF SweepRecord
      <3> HIDE DEF new
      <3> QED BY <2>1, <3>1, <3>2, SweepMoves DEF SweepOK
    <2> QED BY <1>2, <2>2, <2>3, <2>4 DEF Sweep
  <1>3. ASSUME NEW k \in Calls, Begin(k) \/ Dispatch(k) \/ Goroutines(k) PROVE UNCHANGED sweep
    BY <1>3 DEF Begin, Dispatch, CollectGlobalHooks, CollectClientHooks, CollectProviderHooks,
                Before, Start, Join, Goroutines, Unwind, CallProvider, Idle
  <1> QED BY <1>1, <1>2, <1>3 DEF Next, vars, AddProvider, SetGlobalProvider, WithTransaction,
                                  AddGlobalHooks

\* A Flush or Shutdown that has returned has called each provider that was on the client's list
\* when it began, once and in order, whatever the others answered and however many dispatches,
\* sweeps and changes of the lists run beside it (analytics/client.go, analytics/api.go).
THEOREM SweepsComplete == Spec => []SweepComplete
  <1>1. SweepInv => SweepComplete
    <2> SUFFICES ASSUME SweepInv, NEW s \in Sweeps
                 PROVE  /\ IsPrefix(sweep[s].visited, sweep[s].ps)
                        /\ sweep[s].pc = "returned" => sweep[s].visited = sweep[s].ps
      BY DEF SweepComplete
    <2>1. SweepOK(s) /\ sweep[s].visited \in Seq(Providers) /\ sweep[s].ps \in Seq(Providers)
      BY DEF SweepInv, SweepRecord
    <2>2. PICK v \in Seq(Providers), ps \in Seq(Providers) : v = sweep[s].visited /\ ps = sweep[s].ps
      BY <2>1
    <2>3. Len(v) \in Nat /\ Len(ps) \in Nat /\ Len(v) <= Len(ps) /\ \A i \in 1..Len(v) : v[i] = ps[i]
      BY <2>1, <2>2 DEF SweepOK
    <2>4. \A i \in 1..Len(v) : v[i] \in Providers /\ ps[i] \in Providers
      BY <2>3, ElementOfSeq
    <2>5. /\ SubSeq(v, 1, Len(v)) \in Seq(Providers) /\ SubSeq(ps, 1, Len(v)) \in Seq(Providers)
          /\ Len(SubSeq(v, 1, Len(v))) = Len(v) /\ Len(SubSeq(ps, 1, Len(v))) = Len(v)
          /\ \A i \in 1..Len(v) : /\ SubSeq(v, 1, Len(v))[i] = v[i]
                                  /\ SubSeq(ps, 1, Len(v))[i] = ps[i]
      BY <2>3, <2>4, SubSeqProperties
    <2>6. SubSeq(v, 1, Len(v)) = SubSeq(ps, 1, Len(v))
      BY <2>3, <2>5, SeqEqual
    <2> QED BY <2>1, <2>2, <2>3, <2>6 DEF IsPrefix, SweepOK
  <1> QED BY <1>1, InitLists, NextLists, InitSweeps, NextSweeps, PTL DEF Spec

-----------------------------------------------------------------------------
(* Dispatch.  The hooks that a dispatch collected are sorted by rank; the  *)
(* Before hooks that ran are the first of them, and all of them once a     *)
(* provider is called; the calls a goroutine has made to unwind are the    *)
(* first of those that are due.                                            *)

HookSet == ApiHooks \cup ToSet(ClientHooks) \cup Providers

CallRecord ==
    [pc : {"idle", "collect", "collectProviders", "readHooks", "before", "wait", "returned"},
     client : Clients, noop : BOOLEAN, hooks : Seq(HookSet), ran : Seq(HookSet),
     result : {"none", "noop", "cancelled", "empty", "some", "all_failed"}]

GoRecord ==
    [provider : Providers, stage : {"call", "after", "error", "finally", "done"}, left : Nat,
     err : BOOLEAN, trail : Seq({"after", "error", "finally"} \X HookSet)]

Sorted(hooks) == \A i, j \in 1..Len(hooks) : i < j => Rank(hooks[i]) <= Rank(hooks[j])

\* The j-th call that a goroutine owes its hooks.
Due(hooks, err, j) ==
    IF j <= Len(hooks)
    THEN <<IF err THEN "error" ELSE "after", hooks[Len(hooks) - j + 1]>>
    ELSE <<"finally", hooks[Len(hooks) + Len(hooks) - j + 1]>>

GoOK(hooks, g) ==
    /\ \A j \in 1..Len(g.trail) : g.trail[j] = Due(hooks, g.err, j)
    /\ g.stage = "call" => Len(g.trail) = 0
    /\ g.stage \in {"after", "error"} =>
         /\ g.stage = (IF g.err THEN "error" ELSE "after") /\ g.left \in 1..Len(hooks)
         /\ Len(g.trail) = Len(hooks) - g.left
    /\ g.stage = "finally" =>
         g.left \in 1..Len(hooks) /\ Len(g.trail) = Len(hooks) + Len(hooks) - g.left
    /\ g.stage = "done" => Len(g.trail) = Len(hooks) + Len(hooks)

Complete(c, gs) == c.pc = "returned" => \A i \in DOMAIN gs : gs[i].stage = "done"

ChainOK(c, gs) ==
    /\ Sorted(c.hooks)
    /\ c.pc \in {"idle", "collect"} => c.hooks = << >>
    /\ c.pc = "collectProviders" => c.hooks \in Seq(ApiHooks)
    /\ Len(c.ran) <= Len(c.hooks)
    /\ \A i \in 1..Len(c.ran) : c.ran[i] = c.hooks[i]
    /\ c.pc \in {"idle", "collect", "collectProviders", "readHooks"} => c.ran = << >>
    /\ c.pc # "returned" => c.result = "none"
    /\ c.pc \notin {"wait", "returned"} => gs = << >>
    /\ gs # << >> => c.ran = c.hooks /\ c.result # "cancelled"
    /\ Complete(c, gs)
    /\ \A i \in 1..Len(gs) : GoOK(c.hooks, gs[i])

CallInv ==
    /\ call \in [Calls -> CallRecord] /\ routine \in [Calls -> Seq(GoRecord)]
    /\ \A k \in Calls : ChainOK(call[k], routine[k])

\* The slice that a dispatch follows without a lock has no element that is nil.
ReadOK(k) ==
    /\ reading[k].array \in 1..Len(heap)
    /\ reading[k].len \in -1..Len(heap[reading[k].array])
    /\ reading[k].next \in Nat \ {0}
    /\ \A i \in 1..reading[k].len : heap[reading[k].array][i] \in Providers

ReadInv ==
    /\ reading \in [Calls -> [array : Nat, len : Int, next : Nat]]
    /\ \A k \in Calls : ReadOK(k)

LEMMA EmptyRoutine ==
    ASSUME NEW c
    PROVE  Complete(c, << >>)
  <1>1. DOMAIN << >> = {}
    OBVIOUS
  <1> QED BY <1>1 DEF Complete

LEMMA InitCalls == Init => CallInv
  <1> SUFFICES ASSUME Init PROVE CallInv
    OBVIOUS
  <1>1. NoCall \in CallRecord /\ << >> \in Seq(GoRecord)
    BY EmptySeq DEF NoCall, CallRecord, Clients
  <1>2. /\ NoCall.pc = "idle" /\ NoCall.hooks = << >> /\ NoCall.ran = << >>
        /\ NoCall.result = "none"
    BY DEF NoCall
  <1>3. Len(<< >>) = 0
    BY EmptySeq
  <1>4. ChainOK(NoCall, << >>)
    BY <1>2, <1>3, EmptyRoutine DEF ChainOK, Sorted
  <1> QED BY <1>1, <1>4 DEF Init, CallInv

\* A step of one dispatch.
LEMMA CallMoves ==
    ASSUME CallInv, NEW k \in Calls, NEW new \in CallRecord, NEW gs \in Seq(GoRecord),
           call' = [call EXCEPT ![k] = new], routine' = [routine EXCEPT ![k] = gs],
           ChainOK(new, gs)
    PROVE  CallInv'
  <1>1. /\ call' \in [Calls -> CallRecord] /\ routine' \in [Calls -> Seq(GoRecord)]
        /\ call'[k] = new /\ routine'[k] = gs
        /\ \A d \in Calls \ {k} : call'[d] = call[d] /\ routine'[d] = routine[d]
    BY DEF CallInv
  <1> QED BY <1>1 DEF CallInv

LEMMA Ranks ==
    /\ \A h \in ApiHooks : Rank(h) = 1
    /\ \A h \in ToSet(ClientHooks) : Rank(h) = 2
    /\ \A h \in Providers : Rank(h) = 3
    /\ \A h \in HookSet : Rank(h) \in 1..3
  BY HooksAssumption DEF HooksAssumption, Rank, Providers, HookSet

\* The hooks of the api and then the client's are sorted.
LEMMA ChainSorted ==
    ASSUME NEW api \in Seq(ApiHooks), NEW own \in Seq(ToSet(ClientHooks))
    PROVE  api \o own \in Seq(HookSet) /\ Sorted(api \o own)
  <1>1. api \in Seq(HookSet) /\ own \in Seq(HookSet)
    BY SeqMonotonic DEF HookSet
  <1>2. Len(api) \in Nat /\ Len(own) \in Nat
    OBVIOUS
  <1> DEFINE both == api \o own
  <1>3. /\ both \in Seq(HookSet) /\ Len(both) = Len(api) + Len(own)
        /\ \A i \in 1..Len(api) + Len(own) : both[i] = IF i <= Len(api) THEN api[i]
                                                                     ELSE own[i - Len(api)]
    BY <1>1, ConcatProperties
  <1> HIDE DEF both
  <1>4. /\ \A i \in 1..Len(api) : Rank(api[i]) = 1
        /\ \A i \in 1..Len(own) : Rank(own[i]) = 2
    BY Ranks, ElementOfSeq
  <1>5. ASSUME NEW i \in 1..Len(both) PROVE Rank(both[i]) = IF i <= Len(api) THEN 1 ELSE 2
    <2>1. CASE i <= Len(api)
      BY <1>2, <1>3, <1>4, <2>1
    <2>2. CASE i > Len(api)
      <3>1. both[i] = own[i - Len(api)] /\ i - Len(api) \in 1..Len(own)
        BY <1>2, <1>3, <2>2
      <3> QED BY <1>2, <1>4, <2>2, <3>1
    <2> QED BY <1>2, <1>3, <2>1, <2>2
  <1>6. Sorted(both)
    BY <1>2, <1>3, <1>5 DEF Sorted
  <1> QED BY <1>3, <1>6 DEF both

\* A provider's hook comes last.
LEMMA ProviderSorted ==
    ASSUME NEW hooks \in Seq(HookSet), Sorted(hooks), NEW p \in Providers
    PROVE  Append(hooks, p) \in Seq(HookSet) /\ Sorted(Append(hooks, p))
  <1>1. p \in HookSet
    BY DEF HookSet
  <1>2. PICK new : new = Append(hooks, p)
    OBVIOUS
  <1>3. /\ new \in Seq(HookSet) /\ Len(new) = Len(hooks) + 1 /\ Len(hooks) \in Nat
        /\ \A i \in 1..Len(hooks) : new[i] = hooks[i]
        /\ new[Len(hooks) + 1] = p
    BY <1>1, <1>2, AppendFacts
  <1>4. \A i \in 1..Len(hooks) : Rank(hooks[i]) \in 1..3
    BY Ranks, ElementOfSeq
  <1>5. ASSUME NEW i \in 1..Len(new), NEW j \in 1..Len(new), i < j
        PROVE  Rank(new[i]) <= Rank(new[j])
    <2>1. i \in 1..Len(hooks)
      BY <1>3, <1>5
    <2>2. CASE j \in 1..Len(hooks)
      BY <1>3, <1>5, <2>1, <2>2 DEF Sorted
    <2>3. CASE j = Len(hooks) + 1
      <3>1. Rank(new[j]) = 3
        BY <1>3, <2>3, Ranks
      <3> QED BY <1>3, <1>4, <2>1, <3>1
    <2> QED BY <1>3, <2>2, <2>3
  <1> QED BY <1>2, <1>3, <1>5 DEF Sorted

\* The provider's answer starts the unwinding.
LEMMA CallGo ==
    ASSUME NEW hooks \in Seq(HookSet), NEW g \in GoRecord, GoOK(hooks, g), g.stage = "call",
           NEW err \in BOOLEAN
    PROVE  LET new == Enter([g EXCEPT !.err = err], IF err THEN "error" ELSE "after", Len(hooks))
           IN  new \in GoRecord /\ GoOK(hooks, new)
  <1>1. Len(hooks) \in Nat /\ Len(g.trail) = 0
    BY DEF GoOK
  <1>2. CASE Len(hooks) = 0
    <2> DEFINE new == [g EXCEPT !.err = err, !.stage = "done"]
    <2>1. Enter([g EXCEPT !.err = err], IF err THEN "error" ELSE "after", Len(hooks)) = new
      BY <1>2 DEF Enter, GoRecord
    <2>2. new \in GoRecord /\ new.trail = g.trail /\ new.stage = "done"
      BY DEF GoRecord
    <2> HIDE DEF new
    <2>3. GoOK(hooks, new)
      BY <1>1, <1>2, <2>2 DEF GoOK
    <2> QED BY <2>1, <2>2, <2>3
  <1>3. CASE Len(hooks) # 0
    <2>1. PICK stage \in {"error", "after"} : stage = IF err THEN "error" ELSE "after"
      OBVIOUS
    <2>2. PICK n \in Nat : n = Len(hooks)
      BY <1>1
    <2> DEFINE new == [g EXCEPT !.err = err, !.stage = stage, !.left = n]
    <2>3. Enter([g EXCEPT !.err = err], IF err THEN "error" ELSE "after", Len(hooks)) = new
      BY <1>3, <2>1, <2>2 DEF Enter, GoRecord
    <2>4. /\ new \in GoRecord /\ new.trail = g.trail /\ new.stage = stage /\ new.left = n
          /\ new.err = err
      BY DEF GoRecord
    <2> HIDE DEF new
    <2>5. GoOK(hooks, new)
      BY <1>1, <1>3, <2>1, <2>2, <2>4 DEF GoOK
    <2> QED BY <2>3, <2>4, <2>5
  <1> QED BY <1>2, <1>3

\* One call of After, Error or Finally.
Unwinding(hooks, g) ==
    LET called == [g EXCEPT !.trail = Append(@, <<g.stage, hooks[g.left]>>), !.left = @ - 1]
    IN  IF g.left > 1 THEN called
        ELSE IF g.stage = "finally" THEN [called EXCEPT !.stage = "done"]
        ELSE Enter(called, "finally", Len(hooks))

LEMMA UnwindGo ==
    ASSUME NEW hooks \in Seq(HookSet), NEW g \in GoRecord, GoOK(hooks, g),
           g.stage \in {"after", "error", "finally"}
    PROVE  Unwinding(hooks, g) \in GoRecord /\ GoOK(hooks, Unwinding(hooks, g))
  <1> DEFINE n == Len(hooks)
             Trail == {"after", "error", "finally"} \X HookSet
  <1>1. /\ n \in Nat /\ g.left \in 1..n /\ g.trail \in Seq(Trail) /\ Len(g.trail) \in Nat
        /\ g.err \in BOOLEAN /\ hooks[g.left] \in HookSet /\ n # 0
    BY DEF GoOK, GoRecord
  <1>2. PICK e \in Trail : e = <<g.stage, hooks[g.left]>>
    BY <1>1
  <1>3. PICK trail \in Seq(Trail) : trail = Append(g.trail, e)
    BY <1>1, <1>2, AppendFacts
  <1>4. PICK left \in Nat : left = g.left - 1
    BY <1>1
  <1>5. /\ Len(trail) = Len(g.trail) + 1 /\ trail[Len(g.trail) + 1] = e
        /\ \A j \in 1..Len(g.trail) : trail[j] = g.trail[j]
    BY <1>1, <1>3, AppendFacts
  <1>6. e = Due(hooks, g.err, Len(g.trail) + 1)
    <2>1. CASE g.stage = "finally"
      <3>1. Len(g.trail) = n + n - g.left
        BY <2>1 DEF GoOK
      <3>2. ~(Len(g.trail) + 1 <= n) /\ n + n - (Len(g.trail) + 1) + 1 = g.left
        BY <1>1, <3>1
      <3> QED BY <1>2, <2>1, <3>2 DEF Due
    <2>2. CASE g.stage # "finally"
      <3>1. Len(g.trail) = n - g.left /\ g.stage = (IF g.err THEN "error" ELSE "after")
        BY <2>2 DEF GoOK
      <3>2. Len(g.trail) + 1 <= n /\ n - (Len(g.trail) + 1) + 1 = g.left
        BY <1>1, <3>1
      <3> QED BY <1>2, <3>1, <3>2 DEF Due
    <2> QED BY <2>1, <2>2
  <1>7. ASSUME NEW j \in 1..Len(trail) PROVE trail[j] = Due(hooks, g.err, j)
    <2>1. j \in 1..Len(g.trail) \/ j = Len(g.trail) + 1
      BY <1>1, <1>5
    <2> QED BY <1>5, <1>6, <2>1 DEF GoOK
  <1> DEFINE called == [g EXCEPT !.trail = trail, !.left = left]
  <1>8. /\ called \in GoRecord /\ called.trail = trail /\ called.left = left
        /\ called.stage = g.stage /\ called.err = g.err
    BY DEF GoRecord
  <1>9. Unwinding(hooks, g) = IF g.left > 1 THEN called
                              ELSE IF g.stage = "finally" THEN [called EXCEPT !.stage = "done"]
                              ELSE Enter(called, "finally", n)
    BY <1>2, <1>3, <1>4 DEF Unwinding, GoRecord
  <1> HIDE DEF called
  <1>10. CASE g.left > 1
    <2>1. left \in 1..n
      BY <1>1, <1>4, <1>10
    <2>2. /\ g.stage = "finally" => Len(trail) = n + n - left
          /\ g.stage # "finally" => /\ Len(trail) = n - left
                                    /\ g.stage = (IF g.err THEN "error" ELSE "after")
      <3>1. /\ g.stage = "finally" => Len(g.trail) = n + n - g.left
            /\ g.stage # "finally" => /\ Len(g.trail) = n - g.left
                                      /\ g.stage = (IF g.err THEN "error" ELSE "after")
        BY DEF GoOK
      <3>2. g.left \in Nat
        BY <1>1
      <3>3. ASSUME NEW m \in Nat, Len(g.trail) = m - g.left PROVE Len(trail) = m - left
        BY <1>4, <1>5, <3>2, <3>3
      <3>4. n + n \in Nat
        BY <1>1
      <3> QED BY <1>1, <3>1, <3>3, <3>4
    <2>3. GoOK(hooks, called)
      BY <1>7, <1>8, <2>1, <2>2 DEF GoOK
    <2> QED BY <1>8, <1>9, <1>10, <2>3
  <1>11. CASE g.left = 1 /\ g.stage = "finally"
    <2> DEFINE new == [called EXCEPT !.stage = "done"]
    <2>1. /\ new \in GoRecord /\ new.trail = trail /\ new.stage = "done" /\ new.err = g.err
      BY <1>8 DEF GoRecord
    <2> HIDE DEF new
    <2>2. Len(trail) = n + n
      BY <1>1, <1>5, <1>11 DEF GoOK
    <2>3. GoOK(hooks, new)
      BY <1>7, <2>1, <2>2 DEF GoOK
    <2> QED BY <1>9, <1>11, <2>1, <2>3 DEF new
  <1>12. CASE g.left = 1 /\ g.stage # "finally"
    <2>1. PICK m \in Nat : m = n
      BY <1>1
    <2> DEFINE new == [called EXCEPT !.stage = "finally", !.left = m]
    <2>2. /\ new \in GoRecord /\ new.trail = trail /\ new.stage = "finally" /\ new.err = g.err
          /\ new.left = m
      BY <1>8 DEF GoRecord
    <2>3. Unwinding(hooks, g) = new
      BY <1>1, <1>9, <1>12, <2>1 DEF Enter
    <2> HIDE DEF new
    <2>4. Len(trail) = n
      BY <1>1, <1>5, <1>12 DEF GoOK
    <2>5. GoOK(hooks, new)
      BY <1>1, <1>7, <2>1, <2>2, <2>4 DEF GoOK
    <2> QED BY <2>2, <2>3, <2>5
  <1> QED BY <1>1, <1>10, <1>11, <1>12

\* A goroutine's step: its dispatch waits for it.
LEMMA GoMoves ==
    ASSUME CallInv, NEW k \in Calls, NEW i \in DOMAIN routine[k], routine[k][i].stage # "done",
           NEW new \in GoRecord, GoOK(call[k].hooks, new),
           routine' = [routine EXCEPT ![k][i] = new], UNCHANGED call
    PROVE  CallInv'
  <1>1. /\ routine[k] \in Seq(GoRecord) /\ call[k] \in CallRecord /\ ChainOK(call[k], routine[k])
    BY DEF CallInv
  <1>2. DOMAIN routine[k] = 1..Len(routine[k]) /\ Len(routine[k]) \in Nat
    BY <1>1
  <1> DEFINE gs == [routine[k] EXCEPT ![i] = new]
  <1>3. /\ gs \in Seq(GoRecord) /\ Len(gs) = Len(routine[k])
        /\ \A j \in 1..Len(routine[k]) : gs[j] = IF j = i THEN new ELSE routine[k][j]
    BY <1>1, <1>2, ExceptSeq
  <1>4. routine' = [routine EXCEPT ![k] = gs] /\ call' = [call EXCEPT ![k] = call[k]]
    BY DEF CallInv
  <1> HIDE DEF gs
  <1>5. routine[k] # << >>
    <2>1. DOMAIN << >> = {}
      OBVIOUS
    <2> QED BY <2>1
  <1>6. call[k].pc = "wait"
    BY <1>1, <1>5 DEF ChainOK, Complete
  <1>7. \A j \in 1..Len(gs) : GoOK(call[k].hooks, gs[j])
    BY <1>1, <1>3 DEF ChainOK
  <1>8. ChainOK(call[k], gs)
    BY <1>1, <1>5, <1>6, <1>7 DEF ChainOK, Complete
  <1> QED BY <1>1, <1>3, <1>4, <1>8, CallMoves

LEMMA GoroutinesStep ==
    ASSUME CallInv, NEW k \in Calls, Goroutines(k)
    PROVE  CallInv'
  <1>1. PICK i \in DOMAIN routine[k] : Unwind(k, i) \/ \E err \in BOOLEAN : CallProvider(k, i, err)
    BY DEF Goroutines
  <1>2. call[k].hooks \in Seq(HookSet) /\ routine[k] \in Seq(GoRecord)
    BY DEF CallInv, CallRecord
  <1>3. routine[k][i] \in GoRecord /\ GoOK(call[k].hooks, routine[k][i])
    <2>1. i \in 1..Len(routine[k])
      BY <1>2
    <2> QED BY <1>2, <2>1 DEF CallInv, ChainOK
  <1>4. ASSUME NEW err \in BOOLEAN, CallProvider(k, i, err) PROVE CallInv'
    <2> DEFINE new == Enter([routine[k][i] EXCEPT !.err = err], IF err THEN "error" ELSE "after",
                            Len(call[k].hooks))
    <2>1. routine[k][i].stage = "call" /\ UNCHANGED call
      BY <1>4 DEF CallProvider
    <2>2. new \in GoRecord /\ GoOK(call[k].hooks, new)
      BY <1>2, <1>3, <2>1, CallGo
    <2>3. routine' = [routine EXCEPT ![k][i] = new]
      BY <1>4 DEF CallProvider
    <2> HIDE DEF new
    <2> QED BY <2>1, <2>2, <2>3, GoMoves
  <1>5. CASE Unwind(k, i)
    <2> DEFINE new == Unwinding(call[k].hooks, routine[k][i])
    <2>1. routine[k][i].stage \in {"after", "error", "finally"} /\ UNCHANGED call
      BY <1>5 DEF Unwind
    <2>2. new \in GoRecord /\ GoOK(call[k].hooks, new)
      BY <1>2, <1>3, <2>1, UnwindGo
    <2>3. routine' = [routine EXCEPT ![k][i] = new]
      BY <1>5 DEF Unwind, Unwinding, UnwoundHook
    <2> HIDE DEF new
    <2> QED BY <2>1, <2>2, <2>3, GoMoves
  <1> QED BY <1>1, <1>4, <1>5

\* A step of the dispatch itself, before its goroutines are there.
LEMMA DispatchMoves ==
    ASSUME CallInv, NEW k \in Calls, NEW new \in CallRecord,
           call' = [call EXCEPT ![k] = new], UNCHANGED routine, routine[k] = << >>,
           Sorted(new.hooks), Len(new.ran) <= Len(new.hooks),
           new.pc \notin {"idle", "wait"},
           new.pc = "collect" => new.hooks = << >>,
           new.pc = "collectProviders" => new.hooks \in Seq(ApiHooks),
           \A i \in 1..Len(new.ran) : new.ran[i] = new.hooks[i],
           new.pc \in {"collect", "collectProviders", "readHooks"} => new.ran = << >>,
           new.pc # "returned" => new.result = "none"
    PROVE  CallInv'
  <1>1. << >> \in Seq(GoRecord) /\ Len(<< >>) = 0
    BY EmptySeq
  <1>2. routine' = [routine EXCEPT ![k] = << >>]
    BY DEF CallInv
  <1>3. ChainOK(new, << >>)
    BY <1>1, EmptyRoutine DEF ChainOK
  <1> QED BY <1>1, <1>2, <1>3, CallMoves

LEMMA BeginStep ==
    ASSUME CallInv, NEW k \in Calls, Begin(k)
    PROVE  CallInv'
  <1>1. call[k].pc = "idle" /\ call[k] \in CallRecord /\ ChainOK(call[k], routine[k])
    BY DEF Begin, CallInv
  <1>2. UNCHANGED routine
    BY DEF Begin
  <1>3. PICK c \in Clients, noop \in BOOLEAN, pc \in {"returned", "collect"},
             res \in {"noop", "none"} :
          /\ call' = [call EXCEPT ![k] = [@ EXCEPT !.client = c, !.noop = noop, !.pc = pc,
                                                   !.result = res]]
          /\ pc = "collect" => res = "none"
    BY DEF Begin
  <1> DEFINE new == [call[k] EXCEPT !.client = c, !.noop = noop, !.pc = pc, !.result = res]
  <1>4. call' = [call EXCEPT ![k] = new]
    BY <1>3
  <1>5. /\ new \in CallRecord /\ new.pc = pc /\ new.result = res
        /\ new.hooks = call[k].hooks /\ new.ran = call[k].ran
    BY <1>1 DEF CallRecord
  <1> HIDE DEF new
  <1>6. /\ call[k].hooks = << >> /\ call[k].ran = << >> /\ routine[k] = << >> /\ Len(<< >>) = 0
        /\ Sorted(call[k].hooks)
    BY <1>1, EmptySeq DEF ChainOK
  <1>7. /\ new.hooks = << >> /\ new.ran = << >> /\ Sorted(new.hooks)
        /\ Len(new.ran) <= Len(new.hooks) /\ \A i \in 1..Len(new.ran) : FALSE
    BY <1>5, <1>6
  <1> QED BY <1>2, <1>3, <1>4, <1>5, <1>6, <1>7, DispatchMoves

LEMMA CollectStep ==
    ASSUME ListInv, ReadInv, CallInv, NEW k \in Calls,
           CollectGlobalHooks(k) \/ CollectClientHooks(k) \/ CollectProviderHooks(k)
    PROVE  CallInv'
  <1>1. /\ call[k] \in CallRecord /\ ChainOK(call[k], routine[k]) /\ call[k].client \in Clients
        /\ call[k].hooks \in Seq(HookSet)
    BY DEF CallInv, CallRecord
  <1>2. /\ call[k].pc \in {"collect", "collectProviders", "readHooks"} /\ UNCHANGED routine
    BY DEF CollectGlobalHooks, CollectClientHooks, CollectProviderHooks
  <1>3. /\ call[k].ran = << >> /\ routine[k] = << >> /\ call[k].result = "none" /\ Len(<< >>) = 0
    BY <1>1, <1>2, EmptySeq DEF ChainOK
  <1>4. ASSUME NEW pc \in {"collectProviders", "readHooks", "before"}, NEW hooks \in Seq(HookSet),
               Sorted(hooks), pc = "collectProviders" => hooks \in Seq(ApiHooks),
               call' = [call EXCEPT ![k] = [call[k] EXCEPT !.pc = pc, !.hooks = hooks]]
        PROVE  CallInv'
    <2> DEFINE new == [call[k] EXCEPT !.pc = pc, !.hooks = hooks]
    <2>1. call' = [call EXCEPT ![k] = new]
      BY <1>4
    <2>2. /\ new \in CallRecord /\ new.pc = pc /\ new.result = call[k].result
          /\ new.hooks = hooks /\ new.ran = call[k].ran
      BY <1>1 DEF CallRecord
    <2> HIDE DEF new
    <2>3. Len(hooks) \in Nat
      OBVIOUS
    <2>4. /\ new.ran = << >> /\ Sorted(new.hooks) /\ Len(new.ran) <= Len(new.hooks)
          /\ \A i \in 1..Len(new.ran) : FALSE
      BY <1>3, <1>4, <2>2, <2>3
    <2> QED BY <1>2, <1>3, <1>4, <2>1, <2>2, <2>4, DispatchMoves
  <1>5. CASE CollectGlobalHooks(k)
    <2>1. globalHooksList \in Seq(ApiHooks) /\ globalHooksList \in Seq(HookSet)
      BY SeqMonotonic DEF ListInv, HookSet
    <2>2. Sorted(globalHooksList)
      <3>1. \A i \in 1..Len(globalHooksList) : Rank(globalHooksList[i]) = 1
        BY <2>1, ElementOfSeq DEF Rank
      <3> QED BY <3>1 DEF Sorted
    <2>3. call' = [call EXCEPT ![k] = [call[k] EXCEPT !.pc = "collectProviders",
                                                      !.hooks = globalHooksList]]
      BY <1>5 DEF CollectGlobalHooks, CallInv
    <2> QED BY <1>4, <2>1, <2>2, <2>3
  <1>6. CASE CollectClientHooks(k)
    <2>1. call[k].hooks \in Seq(ApiHooks)
      BY <1>1, <1>6 DEF CollectClientHooks, ChainOK
    <2>2. HooksOf(call[k].client) \in Seq(ToSet(ClientHooks))
      BY HooksAssumption, EmptySeq DEF HooksAssumption, HooksOf
    <2>3. PICK hooks \in Seq(HookSet) :
            hooks = call[k].hooks \o HooksOf(call[k].client) /\ Sorted(hooks)
      BY <2>1, <2>2, ChainSorted
    <2>4. call' = [call EXCEPT ![k] = [call[k] EXCEPT !.pc = "readHooks", !.hooks = hooks]]
      BY <1>6, <2>3 DEF CollectClientHooks, CallInv
    <2> QED BY <1>4, <2>3, <2>4
  <1>7. CASE CollectProviderHooks(k)
    <2>1. Sorted(call[k].hooks) /\ call[k].pc = "readHooks"
      BY <1>1, <1>7 DEF ChainOK, CollectProviderHooks
    <2>2. CASE /\ MoreProviders(k)
               /\ call' = [call EXCEPT
                             ![k].hooks = Append(@, heap[reading[k].array][reading[k].next])]
      <3>1. PICK p \in Providers : p = heap[reading[k].array][reading[k].next]
        BY <2>2 DEF ReadInv, ReadOK, MoreProviders
      <3>2. PICK hooks \in Seq(HookSet) : hooks = Append(call[k].hooks, p) /\ Sorted(hooks)
        BY <1>1, <2>1, ProviderSorted
      <3>3. call' = [call EXCEPT ![k] = [call[k] EXCEPT !.pc = "readHooks", !.hooks = hooks]]
        BY <1>1, <2>1, <2>2, <3>1, <3>2 DEF CallInv, CallRecord
      <3> QED BY <1>4, <3>2, <3>3
    <2>3. CASE call' = [call EXCEPT ![k].pc = "before"]
      <3>1. PICK hooks \in Seq(HookSet) : hooks = call[k].hooks /\ Sorted(hooks)
        BY <1>1, <2>1
      <3>2. call' = [call EXCEPT ![k] = [call[k] EXCEPT !.pc = "before", !.hooks = hooks]]
        BY <1>1, <2>3, <3>1 DEF CallInv, CallRecord
      <3> QED BY <1>4, <3>1, <3>2
    <2> QED BY <1>7, <2>2, <2>3 DEF CollectProviderHooks
  <1> QED BY <1>5, <1>6, <1>7

LEMMA BeforeStep ==
    ASSUME CallInv, NEW k \in Calls, Before(k)
    PROVE  CallInv'
  <1>1. call[k] \in CallRecord /\ ChainOK(call[k], routine[k])
    BY DEF CallInv
  <1>2. /\ call[k].pc = "before" /\ UNCHANGED routine
        /\ Len(call[k].ran) < Len(call[k].hooks)
    BY DEF Before
  <1>3. /\ routine[k] = << >> /\ call[k].result = "none" /\ Sorted(call[k].hooks)
        /\ \A i \in 1..Len(call[k].ran) : call[k].ran[i] = call[k].hooks[i]
    BY <1>1, <1>2 DEF ChainOK
  <1>4. /\ call[k].ran \in Seq(HookSet) /\ Len(call[k].ran) \in Nat
        /\ call[k].hooks \in Seq(HookSet) /\ Len(call[k].hooks) \in Nat
    BY <1>1 DEF CallRecord
  <1>5. PICK h \in HookSet : h = call[k].hooks[Len(call[k].ran) + 1]
    BY <1>2, <1>4
  <1>6. CASE call' = [call EXCEPT ![k].ran = Append(@, h)]
    <2>1. PICK ran \in Seq(HookSet) : ran = Append(call[k].ran, h)
      BY <1>4, AppendFacts
    <2> DEFINE new == [call[k] EXCEPT !.ran = ran]
    <2>2. call' = [call EXCEPT ![k] = new]
      BY <1>6, <2>1 DEF CallInv
    <2>3. /\ new \in CallRecord /\ new.pc = "before" /\ new.result = "none"
          /\ new.hooks = call[k].hooks /\ new.ran = ran
      BY <1>1, <1>2, <1>3 DEF CallRecord
    <2> HIDE DEF new
    <2>4. /\ Len(ran) = Len(call[k].ran) + 1 /\ ran[Len(call[k].ran) + 1] = h
          /\ \A i \in 1..Len(call[k].ran) : ran[i] = call[k].ran[i]
      BY <1>4, <2>1, AppendFacts
    <2>5. ASSUME NEW i \in 1..Len(ran) PROVE ran[i] = call[k].hooks[i]
      <3>1. i \in 1..Len(call[k].ran) \/ i = Len(call[k].ran) + 1
        BY <1>4, <2>4
      <3> QED BY <1>3, <1>5, <2>4, <3>1
    <2>6. Len(ran) <= Len(call[k].hooks)
      BY <1>2, <1>4, <2>4
    <2> QED BY <1>2, <1>3, <2>2, <2>3, <2>5, <2>6, DispatchMoves
  <1>7. CASE call' = [call EXCEPT ![k].pc = "returned", ![k].result = "cancelled"]
    <2> DEFINE new == [call[k] EXCEPT !.pc = "returned", !.result = "cancelled"]
    <2>1. call' = [call EXCEPT ![k] = new]
      BY <1>7 DEF CallInv
    <2>2. /\ new \in CallRecord /\ new.pc = "returned" /\ new.result = "cancelled"
          /\ new.hooks = call[k].hooks /\ new.ran = call[k].ran
      BY <1>1 DEF CallRecord
    <2> HIDE DEF new
    <2>3. /\ Sorted(new.hooks) /\ Len(new.ran) <= Len(new.hooks)
          /\ \A i \in 1..Len(new.ran) : new.ran[i] = new.hooks[i]
      BY <1>2, <1>3, <1>4, <2>2
    <2> QED BY <1>2, <1>3, <2>1, <2>2, <2>3, DispatchMoves
  <1> QED BY <1>5, <1>6, <1>7 DEF Before, BeforeError

LEMMA StartStep ==
    ASSUME ListInv, CallInv, NEW k \in Calls, Start(k)
    PROVE  CallInv'
  <1>1. call[k] \in CallRecord /\ ChainOK(call[k], routine[k]) /\ call[k].client \in Clients
    BY DEF CallInv, CallRecord
  <1>2. call[k].pc = "before" /\ Len(call[k].ran) = Len(call[k].hooks)
    BY DEF Start
  <1>3. /\ routine[k] = << >> /\ call[k].result = "none" /\ Sorted(call[k].hooks)
        /\ \A i \in 1..Len(call[k].ran) : call[k].ran[i] = call[k].hooks[i]
    BY <1>1, <1>2 DEF ChainOK
  <1>4. /\ call[k].ran \in Seq(HookSet) /\ Len(call[k].ran) \in Nat
        /\ call[k].hooks \in Seq(HookSet) /\ Len(call[k].hooks) \in Nat
    BY <1>1 DEF CallRecord
  <1>5. PICK ps \in Seq(Providers) : ps = Contents(providers[call[k].client])
    BY <1>1, ContentsFacts
  <1>6. CASE /\ call' = [call EXCEPT ![k].pc = "returned", ![k].result = "empty"]
             /\ UNCHANGED routine
    <2> DEFINE new == [call[k] EXCEPT !.pc = "returned", !.result = "empty"]
    <2>1. call' = [call EXCEPT ![k] = new]
      BY <1>6 DEF CallInv
    <2>2. /\ new \in CallRecord /\ new.pc = "returned" /\ new.result = "empty"
          /\ new.hooks = call[k].hooks /\ new.ran = call[k].ran
      BY <1>1 DEF CallRecord
    <2> HIDE DEF new
    <2>3. /\ Sorted(new.hooks) /\ Len(new.ran) <= Len(new.hooks)
          /\ \A i \in 1..Len(new.ran) : new.ran[i] = new.hooks[i]
      BY <1>2, <1>3, <1>4, <2>2
    <2> QED BY <1>3, <1>6, <2>1, <2>2, <2>3, DispatchMoves
  <1>7. CASE /\ call' = [call EXCEPT ![k].pc = "wait"]
             /\ routine' = [routine EXCEPT ![k] = [i \in 1..Len(ps) |-> Goroutine(ps[i])]]
    <2> DEFINE new == [call[k] EXCEPT !.pc = "wait"]
               gs == [i \in 1..Len(ps) |-> Goroutine(ps[i])]
    <2>1. call' = [call EXCEPT ![k] = new] /\ routine' = [routine EXCEPT ![k] = gs]
      BY <1>7 DEF CallInv
    <2>2. /\ new \in CallRecord /\ new.pc = "wait" /\ new.result = "none"
          /\ new.hooks = call[k].hooks /\ new.ran = call[k].ran
      BY <1>1, <1>3 DEF CallRecord
    <2> HIDE DEF new
    <2>3. ASSUME NEW p \in Providers
          PROVE  /\ Goroutine(p) \in GoRecord /\ Goroutine(p).stage = "call"
                 /\ Len(Goroutine(p).trail) = 0
      BY EmptySeq DEF Goroutine, GoRecord
    <2>4. Len(ps) \in Nat /\ \A i \in 1..Len(ps) : ps[i] \in Providers
      BY ElementOfSeq
    <2>5. gs \in [1..Len(ps) -> GoRecord] /\ \A i \in 1..Len(ps) : gs[i] = Goroutine(ps[i])
      BY <2>3, <2>4
    <2> HIDE DEF gs
    <2>6. gs \in Seq(GoRecord)
      BY <2>4, <2>5, SeqDef
    <2>7. Len(gs) = Len(ps)
      BY <2>4, <2>5, <2>6
    <2>8. ASSUME NEW i \in 1..Len(gs) PROVE GoOK(call[k].hooks, gs[i])
      <3>1. gs[i].stage = "call" /\ Len(gs[i].trail) = 0
        BY <2>3, <2>4, <2>5, <2>7
      <3> QED BY <3>1 DEF GoOK
    <2>9. call[k].ran = call[k].hooks
      BY <1>2, <1>3, <1>4, SeqEqual
    <2>10. ChainOK(new, gs)
      BY <1>3, <1>4, <2>2, <2>8, <2>9 DEF ChainOK, Complete
    <2> QED BY <2>1, <2>2, <2>6, <2>10, CallMoves
  <1> QED BY <1>5, <1>6, <1>7 DEF Start

LEMMA JoinStep ==
    ASSUME CallInv, NEW k \in Calls, Join(k)
    PROVE  CallInv'
  <1>1. call[k] \in CallRecord /\ ChainOK(call[k], routine[k]) /\ routine[k] \in Seq(GoRecord)
    BY DEF CallInv
  <1>2. call[k].pc = "wait" /\ AllDone(k) /\ UNCHANGED routine
    BY DEF Join
  <1>3. PICK res \in {"some", "all_failed"} :
          /\ res = IF PartialSuccess(k) THEN "some" ELSE "all_failed"
          /\ call' = [call EXCEPT ![k].pc = "returned", ![k].result = res]
    BY DEF Join
  <1> DEFINE new == [call[k] EXCEPT !.pc = "returned", !.result = res]
  <1>4. call' = [call EXCEPT ![k] = new] /\ routine' = [routine EXCEPT ![k] = routine[k]]
    BY <1>2, <1>3 DEF CallInv
  <1>5. /\ new \in CallRecord /\ new.pc = "returned" /\ new.result = res
        /\ new.hooks = call[k].hooks /\ new.ran = call[k].ran
    BY <1>1 DEF CallRecord
  <1> HIDE DEF new
  <1>6. Complete(new, routine[k])
    BY <1>2, <1>3, <1>5 DEF Complete, AllDone, PartialSuccess
  <1>7. ChainOK(new, routine[k])
    BY <1>1, <1>2, <1>3, <1>5, <1>6 DEF ChainOK
  <1> QED BY <1>1, <1>4, <1>5, <1>7, CallMoves

LEMMA NextCalls == ListInv /\ ReadInv /\ CallInv /\ [Next]_vars => CallInv'
  <1> SUFFICES ASSUME ListInv, ReadInv, CallInv, [Next]_vars PROVE CallInv'
    OBVIOUS
  <1>1. CASE UNCHANGED <<call, routine>>
    BY <1>1 DEF CallInv
  <1>2. ASSUME NEW k \in Calls, Begin(k) \/ Dispatch(k) \/ Goroutines(k) PROVE CallInv'
    BY <1>2, BeginStep, CollectStep, BeforeStep, StartStep, JoinStep, GoroutinesStep DEF Dispatch
  <1> QED BY <1>1, <1>2 DEF Next, vars, Sweep, SweepBegin, SweepVisit, SweepReturn, AddProvider,
                            SetGlobalProvider, WithTransaction, AddGlobalHooks

-----------------------------------------------------------------------------
(* What the changes of the lists do to the arrays.                         *)

\* The list of client c grows or is replaced: nothing within a slice is overwritten.
Moved(c) ==
    /\ Len(heap) \in Nat /\ Len(heap') \in Nat /\ Len(heap) <= Len(heap')
    /\ \A a \in 1..Len(heap) : Len(heap'[a]) = Len(heap[a])
    /\ \A a \in 1..Len(heap) : \A i \in 1..Len(heap[a]) :
          \/ heap'[a][i] = heap[a][i]
          \/ /\ heap'[a][i] \in Providers /\ Exists(c)
             /\ a = providers[c].array /\ i > providers[c].len
    /\ \A d \in Clients \ {c} : providers'[d] = providers[d]
    /\ providers'[c].len \in Nat
    /\ \/ /\ Exists(c) /\ providers'[c].array = providers[c].array
          /\ providers'[c].len >= providers[c].len
       \/ providers'[c].array = Len(heap) + 1

LEMMA NewArrayMoves ==
    ASSUME ListInv, NEW new \in Seq(Elems), NEW c \in Clients, NEW len \in Nat,
           heap' = Append(heap, new),
           providers' = [providers EXCEPT ![c] = [array |-> Len(heap) + 1, len |-> len]]
    PROVE  Moved(c)
  <1>1. /\ heap' \in Seq(Seq(Elems)) /\ Len(heap) \in Nat /\ Len(heap') = Len(heap) + 1
        /\ \A i \in 1..Len(heap) : heap'[i] = heap[i]
    BY DEF ListInv
  <1>2. /\ providers'[c].array = Len(heap) + 1 /\ providers'[c].len = len
        /\ \A d \in Clients \ {c} : providers'[d] = providers[d]
    BY DEF ListInv
  <1> QED BY <1>1, <1>2 DEF Moved

LEMMA AppendMoves ==
    ASSUME ListInv, NEW c \in Clients, NEW p \in Providers, Exists(c), AppendSlice(c, p)
    PROVE  Moved(c)
  <1> DEFINE a == providers[c].array
             l == providers[c].len
  <1>1. /\ a \in 1..Len(heap) /\ Len(heap) \in Nat /\ l \in Nat /\ l <= Len(heap[a])
        /\ heap[a] \in Seq(Elems) /\ Len(heap[a]) \in Nat
    BY DEF ListInv, SliceOK, Exists
  <1>2. CASE /\ l < Len(heap[a])
             /\ heap' = [heap EXCEPT ![a][l + 1] = p]
             /\ providers' = [providers EXCEPT ![c].len = @ + 1]
    <2> DEFINE new == [heap[a] EXCEPT ![l + 1] = p]
    <2>1. /\ new \in Seq(Elems) /\ Len(new) = Len(heap[a])
          /\ \A i \in 1..Len(heap[a]) : new[i] = IF i = l + 1 THEN p ELSE heap[a][i]
      BY <1>1, <1>2, ExceptSeq DEF Elems
    <2>2. heap' = [heap EXCEPT ![a] = new]
      BY <1>2 DEF ListInv
    <2> HIDE DEF new
    <2>3. /\ heap' \in Seq(Seq(Elems)) /\ Len(heap') = Len(heap)
          /\ \A i \in 1..Len(heap) : heap'[i] = IF i = a THEN new ELSE heap[i]
      BY <1>1, <2>1, <2>2, ExceptSeq DEF ListInv
    <2>4. /\ providers'[c].array = a /\ providers'[c].len = l + 1
          /\ \A d \in Clients \ {c} : providers'[d] = providers[d]
      BY <1>1, <1>2 DEF ListInv
    <2>5. ASSUME NEW b \in 1..Len(heap)
          PROVE  /\ Len(heap'[b]) = Len(heap[b])
                 /\ \A i \in 1..Len(heap[b]) :
                      \/ heap'[b][i] = heap[b][i]
                      \/ heap'[b][i] \in Providers /\ b = a /\ i > l
      <3>1. CASE b = a
        <4>1. heap'[b] = new
          BY <2>3, <3>1
        <4> QED BY <1>1, <2>1, <3>1, <4>1
      <3>2. CASE b # a
        BY <2>3, <3>2
      <3> QED BY <3>1, <3>2
    <2> QED BY <1>1, <2>3, <2>4, <2>5 DEF Moved
  <1>3. CASE /\ l = Len(heap[a])
             /\ heap' = Append(heap, Grown(Append(heap[a], p), NewCap(Len(heap[a]))))
             /\ providers' = [providers EXCEPT ![c] = [array |-> Len(heap) + 1, len |-> l + 1]]
    <2>1. PICK new \in Seq(Elems) : new = Grown(Append(heap[a], p), NewCap(Len(heap[a])))
      BY <1>1, GrownFacts
    <2>2. heap' = Append(heap, new) /\ l + 1 \in Nat
      BY <1>1, <1>3, <2>1
    <2> QED BY <1>3, <2>1, <2>2, NewArrayMoves
  <1> QED BY <1>2, <1>3 DEF AppendSlice

\* Every step: it leaves the lists alone, adds a global hook, makes the clone or moves one list.
LEMMA ListSteps ==
    ASSUME ListInv, [Next]_vars
    PROVE  \/ UNCHANGED <<heap, providers>>
           \/ WithTransaction
           \/ /\ UNCHANGED <<call, reading, routine>> /\ Follow
              /\ \E c \in Clients : Moved(c)
  <1>1. CASE UNCHANGED vars
    BY <1>1 DEF vars, Lists
  <1>2. ASSUME NEW s \in Sweeps, Sweep(s) PROVE UNCHANGED <<heap, providers>>
    BY <1>2 DEF Sweep, SweepBegin, SweepVisit, SweepReturn, Lists
  <1>3. ASSUME NEW k \in Calls, Begin(k) \/ Dispatch(k) \/ Goroutines(k)
        PROVE  UNCHANGED <<heap, providers>>
    BY <1>3 DEF Begin, Dispatch, CollectGlobalHooks, CollectClientHooks, CollectProviderHooks,
                Before, Start, Join, Goroutines, Unwind, CallProvider, Idle, Lists
  <1>4. ASSUME NEW c \in Clients, NEW p \in Extra, AddProvider(c, p)
        PROVE  /\ UNCHANGED <<call, reading, routine>> /\ Follow
               /\ \E d \in Clients : Moved(d)
    BY <1>4, AppendMoves, ExtraAreProviders DEF AddProvider
  <1>5. ASSUME NEW p \in Extra, SetGlobalProvider(p)
        PROVE  /\ UNCHANGED <<call, reading, routine>> /\ Follow
               /\ \E d \in Clients : Moved(d)
    <2>1. <<p>> \in Seq(Elems) /\ "global" \in Clients /\ 1 \in Nat
      BY ExtraAreProviders DEF Elems, Clients
    <2>2. PICK new \in Seq(Elems) : new = <<p>>
      BY <2>1
    <2>3. Moved("global")
      BY <1>5, <2>1, <2>2, NewArrayMoves DEF SetGlobalProvider
    <2> QED BY <1>5, <2>1, <2>3 DEF SetGlobalProvider
  <1>6. ASSUME NEW h \in ApiHooks, AddGlobalHooks(h) PROVE UNCHANGED <<heap, providers>>
    BY <1>6 DEF AddGlobalHooks
  <1> QED BY <1>1, <1>2, <1>3, <1>4, <1>5, <1>6 DEF Next

\* Only the clone shares an array.
ShareInv ==
    /\ Exists("base") /\ Exists("global")
    /\ \A d \in {"base", "tx"} : Exists(d) => providers[d].array # providers["global"].array

LEMMA InitShares == Init => ShareInv
  <1> SUFFICES ASSUME Init PROVE ShareInv
    OBVIOUS
  <1>1. Len(Given) \in Nat
    BY HooksAssumption, LenProperties DEF HooksAssumption
  <1>2. /\ providers["base"].array = 1 /\ providers["base"].len = Len(Given)
        /\ providers["global"].array = 2 /\ providers["global"].len = 0
        /\ providers["tx"].len = -1
    BY DEF Init, Clients, NoSlice
  <1> QED BY <1>1, <1>2 DEF ShareInv, Exists

LEMMA NextShares == ListInv /\ ShareInv /\ [Next]_vars => ShareInv'
  <1> SUFFICES ASSUME ListInv, ShareInv, [Next]_vars PROVE ShareInv'
    OBVIOUS
  <1>1. CASE UNCHANGED <<heap, providers>>
    BY <1>1 DEF ShareInv, Exists
  <1>2. CASE WithTransaction
    <2>1. /\ providers'["tx"] = providers["base"] /\ providers'["base"] = providers["base"]
          /\ providers'["global"] = providers["global"]
      BY <1>2 DEF WithTransaction, ListInv, Clients
    <2> QED BY <2>1 DEF ShareInv, Exists
  <1>3. ASSUME NEW c \in Clients, Moved(c) PROVE ShareInv'
    <2>1. \A d \in Clients : providers[d].array \in 1..Len(heap) /\ providers[d].len \in Int
      BY DEF ListInv, SliceOK
    <2>2. /\ \A d \in Clients \ {c} : providers'[d] = providers[d]
          /\ providers'[c].len \in Nat /\ Len(heap) \in Nat
          /\ \/ Exists(c) /\ providers'[c].array = providers[c].array
             \/ providers'[c].array = Len(heap) + 1
      BY <1>3 DEF Moved
    <2>3. Exists("base")' /\ Exists("global")'
      BY <2>1, <2>2 DEF ShareInv, Exists, Clients
    <2>4. ASSUME NEW d \in {"base", "tx"}, Exists(d)'
          PROVE  providers'[d].array # providers'["global"].array
      <3>1. d \in Clients /\ "global" \in Clients /\ d # "global"
        BY DEF Clients
      <3>2. CASE providers'[c].array = Len(heap) + 1
        <4>1. /\ d # c => providers'[d].array \in 1..Len(heap)
              /\ "global" # c => providers'["global"].array \in 1..Len(heap)
          BY <2>1, <2>2, <3>1
        <4>2. CASE c = d
          BY <2>2, <3>1, <3>2, <4>1, <4>2
        <4>3. CASE c = "global"
          BY <2>2, <3>1, <3>2, <4>1, <4>3
        <4>4. CASE c # d /\ c # "global"
          BY <2>2, <2>4, <3>1, <4>4 DEF ShareInv, Exists
        <4> QED BY <4>2, <4>3, <4>4
      <3>3. CASE Exists(c) /\ providers'[c].array = providers[c].array
        <4>1. Exists(d)
          BY <2>2, <2>4, <3>1, <3>3 DEF Exists
        <4>2. /\ providers'[d].array = providers[d].array
              /\ providers'["global"].array = providers["global"].array
          BY <2>2, <3>1, <3>3
        <4> QED BY <4>1, <4>2 DEF ShareInv
      <3> QED BY <2>2, <3>2, <3>3
    <2> QED BY <2>3, <2>4 DEF ShareInv
  <1> QED BY <1>1, <1>2, <1>3, ListSteps

-----------------------------------------------------------------------------
(* The slice a dispatch follows.                                           *)

LEMMA InitReads == Init => ReadInv
  <1> SUFFICES ASSUME Init PROVE ReadInv
    OBVIOUS
  <1>1. ListInv /\ Len(heap) = 2 /\ heap[1] = Given /\ Len(Given) \in Nat
    BY InitLists, HooksAssumption, LenProperties DEF Init, HooksAssumption
  <1>2. /\ NoReading \in [array : Nat, len : Int, next : Nat]
        /\ NoReading.array = 1 /\ NoReading.len = 0 /\ NoReading.next = 1
    BY DEF NoReading
  <1>3. \A k \in Calls : reading[k] = NoReading
    BY DEF Init
  <1>4. reading \in [Calls -> [array : Nat, len : Int, next : Nat]]
    BY <1>2 DEF Init
  <1>5. \A k \in Calls : ReadOK(k)
    BY <1>1, <1>2, <1>3 DEF ReadOK
  <1> QED BY <1>4, <1>5 DEF ReadInv

\* What the steps of a dispatch do to it.
LEMMA ReadSteps ==
    ASSUME ListInv, ReadInv, CallInv, [Next]_vars
    PROVE  \/ UNCHANGED reading
           \/ \E k \in Calls : CollectClientHooks(k)
           \/ \E k \in Calls : /\ CollectProviderHooks(k)
                               /\ reading' = [reading EXCEPT ![k].next = @ + 1]
  <1>1. ASSUME NEW k \in Calls, Begin(k) \/ Goroutines(k) PROVE UNCHANGED reading
    BY <1>1 DEF Begin, Goroutines, Unwind, CallProvider
  <1>2. ASSUME NEW k \in Calls, Dispatch(k)
        PROVE  \/ UNCHANGED reading
               \/ CollectClientHooks(k)
               \/ CollectProviderHooks(k) /\ reading' = [reading EXCEPT ![k].next = @ + 1]
    BY <1>2 DEF Dispatch, CollectGlobalHooks, CollectProviderHooks, Before, Start, Join
  <1> QED BY <1>1, <1>2 DEF Next, vars, Sweep, SweepBegin, SweepVisit, SweepReturn, AddProvider,
                            SetGlobalProvider, WithTransaction, AddGlobalHooks

LEMMA NextReads == ListInv /\ ReadInv /\ CallInv /\ [Next]_vars => ReadInv'
  <1> SUFFICES ASSUME ListInv, ReadInv, CallInv, [Next]_vars PROVE ReadInv'
    OBVIOUS
  <1>1. CASE UNCHANGED reading /\ heap' = heap
    BY <1>1 DEF ReadInv, ReadOK
  <1>2. ASSUME NEW c \in Clients, Moved(c), UNCHANGED reading PROVE ReadInv'
    <2>1. ASSUME NEW k \in Calls PROVE ReadOK(k)'
      <3>1. ReadOK(k) /\ reading'[k] = reading[k]
        BY <1>2 DEF ReadInv
      <3>2. PICK a \in 1..Len(heap) : a = reading[k].array
        BY <3>1 DEF ReadOK
      <3>3. /\ a \in 1..Len(heap') /\ Len(heap'[a]) = Len(heap[a])
            /\ \A i \in 1..Len(heap[a]) : heap'[a][i] = heap[a][i] \/ heap'[a][i] \in Providers
        <4>1. Len(heap) \in Nat /\ Len(heap') \in Nat /\ Len(heap) <= Len(heap')
          BY <1>2 DEF Moved
        <4>2. a \in 1..Len(heap')
          BY <4>1
        <4> QED BY <1>2, <4>2 DEF Moved
      <3>4. \A i \in 1..reading[k].len : i \in 1..Len(heap[a])
        <4>1. heap[a] \in Seq(Elems)
          BY DEF ListInv
        <4>2. Len(heap[a]) \in Nat /\ reading[k].len \in -1..Len(heap[a])
          BY <3>1, <3>2, <4>1 DEF ReadOK
        <4> QED BY <4>2
      <3> QED BY <3>1, <3>2, <3>3, <3>4 DEF ReadOK
    <2> QED BY <1>2, <2>1 DEF ReadInv
  <1>3. ASSUME NEW k \in Calls, CollectClientHooks(k) PROVE ReadInv'
    <2>1. call[k].client \in Clients
      BY DEF CallInv, CallRecord
    <2>2. PICK s \in [array : Nat, len : Int] :
            s = providers[call[k].client] /\ SliceOK(call[k].client)
      BY <2>1 DEF ListInv
    <2> DEFINE new == [array |-> s.array, len |-> s.len, next |-> 1]
    <2>3. reading' = [reading EXCEPT ![k] = new] /\ heap' = heap
      BY <1>3, <2>2 DEF CollectClientHooks, Idle, Lists
    <2>4. /\ new \in [array : Nat, len : Int, next : Nat]
          /\ new.array = s.array /\ new.len = s.len /\ new.next = 1
      OBVIOUS
    <2> HIDE DEF new
    <2>5. /\ reading' \in [Calls -> [array : Nat, len : Int, next : Nat]]
          /\ reading'[k] = new /\ \A d \in Calls \ {k} : reading'[d] = reading[d]
      BY <2>3, <2>4 DEF ReadInv
    <2>6. ReadOK(k)'
      BY <2>2, <2>3, <2>4, <2>5 DEF SliceOK, ReadOK
    <2>7. \A d \in Calls \ {k} : ReadOK(d)'
      BY <2>3, <2>5 DEF ReadInv, ReadOK
    <2> QED BY <2>5, <2>6, <2>7 DEF ReadInv
  <1>4. ASSUME NEW k \in Calls, CollectProviderHooks(k),
               reading' = [reading EXCEPT ![k].next = @ + 1]
        PROVE  ReadInv'
    <2>1. heap' = heap
      BY <1>4 DEF CollectProviderHooks, Idle, Lists
    <2>2. reading[k].next \in Nat \ {0}
      BY DEF ReadInv, ReadOK
    <2>3. /\ reading' \in [Calls -> [array : Nat, len : Int, next : Nat]]
          /\ reading'[k].array = reading[k].array /\ reading'[k].len = reading[k].len
          /\ reading'[k].next = reading[k].next + 1
          /\ \A d \in Calls \ {k} : reading'[d] = reading[d]
      BY <1>4, <2>2 DEF ReadInv
    <2>4. ReadOK(k)'
      BY <2>1, <2>2, <2>3 DEF ReadInv, ReadOK
    <2>5. \A d \in Calls \ {k} : ReadOK(d)'
      BY <2>1, <2>3 DEF ReadInv, ReadOK
    <2> QED BY <2>3, <2>4, <2>5 DEF ReadInv
  <1>5. CASE UNCHANGED reading
    BY <1>1, <1>2, <1>5, ListSteps DEF WithTransaction
  <1> QED BY <1>3, <1>4, <1>5, ReadSteps

-----------------------------------------------------------------------------
(* The providers that stay on the list of a dispatch.                      *)

\* What the loop over the slice has still to read.
ToRead(k) == {heap[reading[k].array][i] : i \in reading[k].next..reading[k].len}

\* Nobody writes into the slice: its array is the dispatch's own client's or nobody's.
Apart(k) ==
    \A d \in Clients :
       Exists(d) /\ providers[d].array = reading[k].array =>
          d = call[k].client /\ providers[d].len >= reading[k].len

Launched(k) == call[k].pc = "wait" \/ call[k].result \in {"some", "all_failed"}

Called(k) == \A p \in kept[k] : \E i \in DOMAIN routine[k] : routine[k][i].provider = p

KeptOK(k) ==
    /\ Collecting(k) => Exists(call[k].client) /\ kept[k] \subseteq OnList(k)
    /\ call[k].pc = "readHooks" /\ Alone(call[k].client) =>
         Apart(k) /\ kept[k] \subseteq ToSet(call[k].hooks) \cup ToRead(k)
    /\ (call[k].pc = "before" \/ Launched(k)) /\ Alone(call[k].client) =>
         kept[k] \subseteq ToSet(call[k].hooks)
    /\ Launched(k) => Called(k)
    /\ call[k].result = "empty" => kept[k] = {}

KeepInv ==
    /\ kept \in [Calls -> SUBSET Providers]
    /\ \A k \in Calls : KeptOK(k)

LEMMA OnListIs ==
    ASSUME ListInv, NEW c \in Clients
    PROVE  ToSet(Contents(providers[c])) =
             {heap[providers[c].array][i] : i \in 1..providers[c].len}
  <1>1. PICK s \in [array : Nat, len : Int] : s = providers[c] /\ SliceOK(c)
    BY DEF ListInv
  <1>2. PICK ps : ps = SubSeq(heap[s.array], 1, s.len)
    OBVIOUS
  <1>3. /\ ps \in Seq(Providers) /\ Len(ps) = IF 1 <= s.len THEN s.len ELSE 0
        /\ \A i \in 1..s.len : ps[i] = heap[s.array][i]
    <2>1. /\ SubSeq(heap[s.array], 1, s.len) \in Seq(Providers)
          /\ Len(SubSeq(heap[s.array], 1, s.len)) = IF 1 <= s.len THEN s.len - 1 + 1 ELSE 0
          /\ \A i \in 1..(s.len - 1 + 1) : SubSeq(heap[s.array], 1, s.len)[i] = heap[s.array][1 + i - 1]
      BY <1>1, SubSeqProperties DEF SliceOK
    <2>2. s.len \in Int
      OBVIOUS
    <2>3. \A i \in 1..s.len : i \in 1..(s.len - 1 + 1) /\ 1 + i - 1 = i
      BY <2>2
    <2> QED BY <1>2, <2>1, <2>2, <2>3
  <1>4. DOMAIN ps = 1..s.len
    BY <1>3
  <1> QED BY <1>1, <1>2, <1>3, <1>4 DEF Contents, ToSet

LEMMA ContentsOK ==
    ASSUME ListInv, NEW c \in Clients
    PROVE  ToSet(Contents(providers[c])) \subseteq Providers
  <1>1. \A i \in 1..providers[c].len : heap[providers[c].array][i] \in Providers
    BY DEF ListInv, SliceOK
  <1>2. PICK a, l : a = providers[c].array /\ l = providers[c].len
    OBVIOUS
  <1>3. {heap[a][i] : i \in 1..l} \subseteq Providers
    BY <1>1, <1>2
  <1> QED BY <1>2, <1>3, OnListIs

LEMMA InitKeeps == Init => KeepInv
  <1> SUFFICES ASSUME Init PROVE KeepInv
    OBVIOUS
  <1>1. NoCall.pc = "idle" /\ NoCall.result = "none"
    BY DEF NoCall
  <1>2. \A k \in Calls : call[k] = NoCall
    BY DEF Init
  <1>3. kept \in [Calls -> SUBSET Providers]
    BY DEF Init
  <1> QED BY <1>1, <1>2, <1>3 DEF KeepInv, KeptOK, Collecting, Launched

\* A step of one dispatch, or of one of its goroutines.
LEMMA KeepMoves ==
    ASSUME KeepInv, NEW k \in Calls, UNCHANGED <<heap, providers>>,
           \A d \in Calls \ {k} : /\ call'[d] = call[d] /\ reading'[d] = reading[d]
                                  /\ routine'[d] = routine[d] /\ kept'[d] = kept[d],
           kept' \in [Calls -> SUBSET Providers], KeptOK(k)'
    PROVE  KeepInv'
  <1>1. ASSUME NEW d \in Calls \ {k} PROVE KeptOK(d)'
    <2>1. KeptOK(d)
      BY DEF KeepInv
    <2>2. /\ Collecting(d)' <=> Collecting(d)
          /\ OnList(d)' = OnList(d)
          /\ ToRead(d)' = ToRead(d)
          /\ Apart(d)' <=> Apart(d)
          /\ Launched(d)' <=> Launched(d)
          /\ Called(d)' <=> Called(d)
          /\ Alone(call[d].client)' <=> Alone(call[d].client)
          /\ Exists(call[d].client)' <=> Exists(call[d].client)
      BY DEF Collecting, OnList, ToRead, Apart, Launched, Called, Alone, Exists, Contents
    <2> QED BY <2>1, <2>2 DEF KeptOK
  <1> QED BY <1>1 DEF KeepInv

\* A list grows or is replaced.
LEMMA ListsKeep ==
    ASSUME ListInv, ReadInv, CallInv, KeepInv, UNCHANGED <<call, reading, routine>>, Follow,
           NEW c \in Clients, Moved(c)
    PROVE  KeepInv'
  <1>1. /\ \A d \in Clients \ {c} : providers'[d] = providers[d]
        /\ providers'[c].len \in Nat /\ Len(heap) \in Nat
        /\ \/ /\ Exists(c) /\ providers'[c].array = providers[c].array
              /\ providers'[c].len >= providers[c].len
           \/ providers'[c].array = Len(heap) + 1
    BY DEF Moved
  <1>2. \A d \in Clients : providers[d].array \in 1..Len(heap) /\ providers[d].len \in Int
    BY DEF ListInv, SliceOK
  <1>3. \A d \in Clients : Exists(d) => Exists(d)'
    BY <1>1 DEF Exists
  <1>4. \A d \in Clients : Alone(d)' => Alone(d)
    BY <1>3 DEF Alone, Clients
  <1>5. ASSUME NEW k \in Calls
        PROVE  /\ kept'[k] \subseteq kept[k]
               /\ Collecting(k) => kept'[k] \subseteq OnList(k)'
               /\ ~Collecting(k) => kept'[k] = kept[k]
    BY DEF Follow
  <1>6. kept' \in [Calls -> SUBSET Providers]
    BY <1>5 DEF Follow, KeepInv
  <1>7. ASSUME NEW k \in Calls, Apart(k) PROVE Apart(k)' /\ ToRead(k)' = ToRead(k)
    <2>1. ReadOK(k) /\ reading[k] \in [array : Nat, len : Int, next : Nat]
      BY DEF ReadInv
    <2>2. PICK a \in 1..Len(heap), l \in Int, n \in Nat \ {0} :
            a = reading[k].array /\ l = reading[k].len /\ n = reading[k].next
      BY <2>1 DEF ReadOK
    <2>3. heap[a] \in Seq(Elems) /\ Len(heap[a]) \in Nat /\ l <= Len(heap[a])
      <3>1. heap[a] \in Seq(Elems)
        BY DEF ListInv
      <3>2. Len(heap[a]) \in Nat
        BY <3>1
      <3> QED BY <2>1, <2>2, <3>1, <3>2 DEF ReadOK
    <2>4. ASSUME NEW d \in Clients, Exists(d)', providers'[d].array = a
          PROVE  d = call[k].client /\ providers'[d].len >= l
      <3>1. CASE d # c
        BY <1>1, <1>7, <2>2, <2>4, <3>1 DEF Apart, Exists
      <3>2. CASE d = c
        <4>1. /\ Exists(c) /\ providers[c].array = a /\ providers'[c].len >= providers[c].len
          BY <1>1, <2>2, <2>4, <3>2
        <4>2. c = call[k].client /\ providers[c].len >= l
          BY <1>7, <2>2, <4>1 DEF Apart
        <4> QED BY <1>1, <1>2, <3>2, <4>1, <4>2
      <3> QED BY <3>1, <3>2
    <2>5. ASSUME NEW i \in n..l PROVE heap'[a][i] = heap[a][i]
      <3>1. i \in 1..Len(heap[a])
        BY <2>2, <2>3
      <3>2. \/ heap'[a][i] = heap[a][i]
            \/ Exists(c) /\ a = providers[c].array /\ i > providers[c].len
        BY <3>1 DEF Moved
      <3>3. Exists(c) /\ a = providers[c].array => providers[c].len >= l
        BY <1>7, <2>2 DEF Apart
      <3> QED BY <1>2, <3>2, <3>3
    <2>6. Apart(k)'
      BY <2>2, <2>4 DEF Apart
    <2>7. ToRead(k)' = ToRead(k)
      <3>1. ToRead(k)' = {heap'[a][i] : i \in n..l} /\ ToRead(k) = {heap[a][i] : i \in n..l}
        BY <2>2 DEF ToRead
      <3> QED BY <2>5, <3>1
    <2> QED BY <2>6, <2>7
  <1>8. ASSUME NEW k \in Calls PROVE KeptOK(k)'
    <2>1. KeptOK(k) /\ call'[k] = call[k] /\ call[k].client \in Clients
      BY DEF KeepInv, CallInv, CallRecord
    <2>2. /\ Collecting(k)' <=> Collecting(k)
          /\ Launched(k)' <=> Launched(k)
      BY DEF Collecting, Launched
    <2>3. Called(k) => Called(k)'
      BY <1>5 DEF Called
    <2>4. Alone(call[k].client)' => Alone(call[k].client)
      BY <1>4, <2>1
    <2>5. Exists(call[k].client) => Exists(call[k].client)'
      BY <1>3, <2>1
    <2> QED BY <1>5, <1>7, <2>1, <2>2, <2>3, <2>4, <2>5 DEF KeptOK
  <1> QED BY <1>6, <1>8 DEF KeepInv

\* The clone is made: the dispatches of "base" are no longer alone.
LEMMA TransactionKeeps ==
    ASSUME ListInv, ShareInv, CallInv, KeepInv, WithTransaction
    PROVE  KeepInv'
  <1>1. /\ UNCHANGED <<heap, call, reading, routine, kept>> /\ ~Exists("tx")
        /\ providers'["tx"] = providers["base"]
        /\ \A d \in Clients \ {"tx"} : providers'[d] = providers[d]
    BY DEF WithTransaction, ListInv, Clients
  <1>2. ASSUME NEW k \in Calls PROVE KeptOK(k)'
    <2>1. KeptOK(k) /\ call'[k] = call[k] /\ call[k].client \in Clients
      BY <1>1 DEF KeepInv, CallInv, CallRecord
    <2>2. /\ Collecting(k)' <=> Collecting(k)
          /\ Launched(k)' <=> Launched(k)
          /\ Called(k)' <=> Called(k)
          /\ ToRead(k)' = ToRead(k)
      BY <1>1 DEF Collecting, Launched, Called, ToRead
    <2>3. Collecting(k) => OnList(k)' = OnList(k) /\ Exists(call[k].client)'
      <3>1. Collecting(k) => call[k].client \in Clients \ {"tx"} /\ Exists(call[k].client)
        BY <1>1, <2>1 DEF KeptOK
      <3> QED BY <1>1, <3>1 DEF OnList, Contents, Exists
    <2>4. Alone(call[k].client)' => Alone(call[k].client) /\ call[k].client = "global"
      <3>1. Exists("tx")'
        BY <1>1 DEF ShareInv, Exists
      <3> QED BY <2>1, <3>1 DEF Alone
    <2>5. Alone(call[k].client)' /\ Apart(k) => Apart(k)'
      <3>1. SUFFICES ASSUME call[k].client = "global", Apart(k), NEW d \in Clients,
                            Exists(d)', providers'[d].array = reading[k].array
                     PROVE  d = "global" /\ providers'[d].len >= reading[k].len
        BY <1>1, <2>4 DEF Apart
      <3>2. CASE d # "tx"
        BY <1>1, <3>1, <3>2 DEF Apart, Exists
      <3>3. CASE d = "tx"
        <4>1. Exists("base") /\ providers["base"].array = reading[k].array /\ "base" \in Clients
          BY <1>1, <3>1, <3>3 DEF ShareInv, Clients
        <4>2. "base" = "global"
          BY <3>1, <4>1 DEF Apart
        <4> QED BY <4>2
      <3> QED BY <3>2, <3>3
    <2> QED BY <1>1, <2>1, <2>2, <2>3, <2>4, <2>5 DEF KeptOK
  <1> QED BY <1>1, <1>2 DEF KeepInv

LEMMA BeginKeeps ==
    ASSUME ListInv, CallInv, KeepInv, NEW k \in Calls, Begin(k)
    PROVE  KeepInv'
  <1>1. PICK c \in Clients, noop \in BOOLEAN, pc \in {"returned", "collect"},
             res \in {"noop", "none"} :
          /\ call' = [call EXCEPT ![k] = [@ EXCEPT !.client = c, !.noop = noop, !.pc = pc,
                                                   !.result = res]]
          /\ Exists(c)
          /\ kept' = [kept EXCEPT ![k] = ToSet(Contents(providers[c]))]
    BY DEF Begin
  <1>2. UNCHANGED <<heap, providers, reading, routine>>
    BY DEF Begin, Lists
  <1>3. PICK S \in SUBSET Providers : S = ToSet(Contents(providers[c]))
    <2>1. ToSet(Contents(providers[c])) \subseteq Providers
      BY ContentsOK
    <2> QED BY <2>1
  <1>4. kept' \in [Calls -> SUBSET Providers] /\ kept'[k] = S
        /\ \A d \in Calls \ {k} : kept'[d] = kept[d]
    BY <1>1, <1>3 DEF KeepInv
  <1>5. /\ call'[k].pc = pc /\ call'[k].client = c /\ call'[k].result = res
        /\ \A d \in Calls \ {k} : call'[d] = call[d]
    BY <1>1 DEF CallInv, CallRecord
  <1>6. OnList(k)' = S /\ Exists(c)'
    BY <1>1, <1>2, <1>3, <1>5 DEF OnList, Contents, Exists
  <1>7. KeptOK(k)'
    BY <1>4, <1>5, <1>6 DEF KeptOK, Launched
  <1> QED BY <1>2, <1>4, <1>5, <1>7, KeepMoves

\* The steps of a dispatch change neither the lists nor what it has kept.
LEMMA DispatchKeeps ==
    ASSUME ListInv, ShareInv, ReadInv, CallInv, KeepInv, NEW k \in Calls, Dispatch(k)
    PROVE  KeepInv'
  <1>1. UNCHANGED <<heap, providers, kept>>
    BY DEF Dispatch, CollectGlobalHooks, CollectClientHooks, CollectProviderHooks, Before, Start,
           Join, Idle, Lists
  <1>2. kept' \in [Calls -> SUBSET Providers] /\ kept'[k] = kept[k]
    BY <1>1 DEF KeepInv
  <1>3. /\ KeptOK(k) /\ call[k] \in CallRecord /\ call[k].client \in Clients
        /\ call[k].hooks \in Seq(HookSet) /\ ChainOK(call[k], routine[k])
    BY DEF KeepInv, CallInv, CallRecord
  <1>4. PICK c \in Clients : c = call[k].client
    BY <1>3
  <1>5. Alone(c)' <=> Alone(c)
    BY <1>1 DEF Alone, Exists
  <1>6. ASSUME call'[k].client = c
        PROVE  OnList(k)' = OnList(k) /\ Exists(c)' = Exists(c)
    BY <1>1, <1>4, <1>6 DEF OnList, Contents, Exists
  <1>7. ASSUME \A d \in Calls \ {k} : /\ call'[d] = call[d] /\ reading'[d] = reading[d]
                                      /\ routine'[d] = routine[d],
               KeptOK(k)'
        PROVE  KeepInv'
    BY <1>1, <1>2, <1>7, KeepMoves
  <1>8. CASE CollectGlobalHooks(k)
    <2>1. /\ call'[k].pc = "collectProviders" /\ call'[k].client = c
          /\ call'[k].result = call[k].result /\ call[k].pc = "collect"
          /\ \A d \in Calls \ {k} : call'[d] = call[d]
          /\ UNCHANGED <<reading, routine>>
      BY <1>4, <1>8 DEF CollectGlobalHooks, CallInv, CallRecord
    <2>2. call[k].result = "none" /\ Collecting(k)
      BY <1>3, <2>1 DEF ChainOK, Collecting
    <2>3. KeptOK(k)'
      BY <1>2, <1>3, <1>4, <1>6, <2>1, <2>2 DEF KeptOK, Launched
    <2> QED BY <1>7, <2>1, <2>3
  <1>9. CASE CollectClientHooks(k)
    <2>1. /\ call'[k].pc = "readHooks" /\ call'[k].client = c
          /\ call'[k].result = call[k].result /\ call[k].pc = "collectProviders"
          /\ \A d \in Calls \ {k} : call'[d] = call[d]
          /\ UNCHANGED routine
      BY <1>4, <1>9 DEF CollectClientHooks, CallInv, CallRecord
    <2>2. call[k].result = "none" /\ Collecting(k)
      BY <1>3, <2>1 DEF ChainOK, Collecting
    <2>3. /\ reading'[k].array = providers[c].array /\ reading'[k].len = providers[c].len
          /\ reading'[k].next = 1
          /\ \A d \in Calls \ {k} : reading'[d] = reading[d]
      BY <1>4, <1>9 DEF CollectClientHooks, ReadInv
    <2>4. ToRead(k)' = OnList(k)
      <3>1. ToRead(k)' = {heap[providers[c].array][i] : i \in 1..providers[c].len}
        BY <1>1, <2>3 DEF ToRead
      <3> QED BY <1>4, <3>1, OnListIs DEF OnList
    <2>5. Alone(c) => Apart(k)'
      <3>1. SUFFICES ASSUME Alone(c), NEW d \in Clients, Exists(d),
                            providers[d].array = providers[c].array
                     PROVE  d = c
        <4>1. providers[c].len \in Int
          BY DEF ListInv
        <4> QED BY <1>1, <2>1, <2>3, <3>1, <4>1 DEF Apart, Exists
      <3> QED BY <3>1 DEF Alone, ShareInv, Clients
    <2>6. KeptOK(k)'
      BY <1>2, <1>3, <1>4, <1>5, <1>6, <2>1, <2>2, <2>4, <2>5 DEF KeptOK, Launched
    <2> QED BY <1>7, <2>1, <2>3, <2>6
  <1>10. CASE CollectProviderHooks(k)
    <2>1. call[k].pc = "readHooks" /\ call[k].result = "none" /\ UNCHANGED routine /\ Collecting(k)
      BY <1>3, <1>10 DEF CollectProviderHooks, ChainOK, Collecting
    <2>2. ReadOK(k) /\ reading[k] \in [array : Nat, len : Int, next : Nat]
      BY DEF ReadInv
    <2>3. PICK a \in Nat, l \in Int, n \in Nat \ {0} :
            a = reading[k].array /\ l = reading[k].len /\ n = reading[k].next
      BY <2>2 DEF ReadOK
    <2>4. ToRead(k) = {heap[a][i] : i \in n..l}
      BY <2>3 DEF ToRead
    <2>5. CASE /\ MoreProviders(k)
               /\ call' = [call EXCEPT ![k].hooks = Append(@, heap[reading[k].array][reading[k].next])]
               /\ reading' = [reading EXCEPT ![k].next = @ + 1]
      <3>1. PICK p \in Providers : p = heap[a][n]
        BY <2>2, <2>3, <2>5 DEF ReadOK, MoreProviders
      <3>2. /\ call'[k].pc = "readHooks" /\ call'[k].client = c /\ call'[k].result = "none"
            /\ call'[k].hooks = Append(call[k].hooks, p)
            /\ \A d \in Calls \ {k} : call'[d] = call[d]
        BY <1>3, <1>4, <2>1, <2>3, <2>5, <3>1 DEF CallInv, CallRecord
      <3>3. /\ reading'[k].array = a /\ reading'[k].len = l /\ reading'[k].next = n + 1
            /\ \A d \in Calls \ {k} : reading'[d] = reading[d]
        BY <2>3, <2>5 DEF ReadInv
      <3>4. ToSet(call'[k].hooks) = ToSet(call[k].hooks) \cup {p}
        BY <1>3, <3>1, <3>2, AppendFacts DEF HookSet
      <3>5. ToRead(k) \subseteq {p} \cup ToRead(k)'
        <4>1. ToRead(k)' = {heap[a][i] : i \in (n + 1)..l}
          BY <1>1, <3>3 DEF ToRead
        <4>2. \A i \in n..l : i = n \/ i \in (n + 1)..l
          BY <2>3
        <4> QED BY <2>4, <3>1, <4>1, <4>2
      <3>6. Apart(k) => Apart(k)'
        BY <1>1, <1>4, <2>3, <3>2, <3>3 DEF Apart, Exists
      <3>7. KeptOK(k)'
        BY <1>2, <1>3, <1>4, <1>5, <1>6, <2>1, <3>2, <3>4, <3>5, <3>6 DEF KeptOK, Launched
      <3> QED BY <1>7, <2>1, <3>2, <3>3, <3>7
    <2>6. CASE /\ ~MoreProviders(k)
               /\ call' = [call EXCEPT ![k].pc = "before"] /\ UNCHANGED reading
      <3>1. /\ call'[k].pc = "before" /\ call'[k].client = c /\ call'[k].result = "none"
            /\ call'[k].hooks = call[k].hooks
            /\ \A d \in Calls \ {k} : call'[d] = call[d]
        BY <1>3, <1>4, <2>1, <2>6 DEF CallInv, CallRecord
      <3>2. ToRead(k) = {}
        <4>1. ~(n <= l)
          BY <2>3, <2>6 DEF MoreProviders
        <4>2. n..l = {}
          BY <2>3, <4>1
        <4> QED BY <2>4, <4>2
      <3>3. KeptOK(k)'
        BY <1>2, <1>3, <1>4, <1>5, <1>6, <2>1, <3>1, <3>2 DEF KeptOK, Launched
      <3> QED BY <1>7, <2>1, <2>6, <3>1, <3>3
    <2> QED BY <1>10, <2>5, <2>6 DEF CollectProviderHooks
  <1>11. CASE Before(k)
    <2>1. /\ call[k].pc = "before" /\ UNCHANGED <<reading, routine>>
          /\ call[k].result = "none" /\ Collecting(k)
      BY <1>3, <1>11 DEF Before, ChainOK, Collecting
    <2>2. /\ call'[k].client = c /\ call'[k].hooks = call[k].hooks
          /\ \A d \in Calls \ {k} : call'[d] = call[d]
          /\ \/ call'[k].pc = "before" /\ call'[k].result = "none"
             \/ call'[k].pc = "returned" /\ call'[k].result = "cancelled"
      BY <1>3, <1>4, <1>11, <2>1 DEF Before, BeforeError, CallInv, CallRecord
    <2>3. KeptOK(k)'
      BY <1>2, <1>3, <1>4, <1>5, <1>6, <2>1, <2>2 DEF KeptOK, Launched, Collecting
    <2> QED BY <1>7, <2>1, <2>2, <2>3
  <1>12. CASE Start(k)
    <2>1. /\ call[k].pc = "before" /\ UNCHANGED reading
          /\ call[k].result = "none" /\ Collecting(k)
      BY <1>3, <1>12 DEF Start, ChainOK, Collecting
    <2>2. PICK ps \in Seq(Providers) : ps = Contents(providers[c])
      BY ContentsFacts
    <2>3. kept[k] \subseteq ToSet(ps)
      BY <1>3, <1>4, <2>1, <2>2 DEF KeptOK, OnList
    <2>4. CASE /\ ps = << >>
               /\ call' = [call EXCEPT ![k].pc = "returned", ![k].result = "empty"]
               /\ UNCHANGED routine
      <3>1. /\ call'[k].pc = "returned" /\ call'[k].result = "empty"
            /\ \A d \in Calls \ {k} : call'[d] = call[d]
        BY <2>4 DEF CallInv, CallRecord
      <3>2. kept[k] = {}
        BY <2>3, <2>4 DEF ToSet
      <3>3. KeptOK(k)'
        BY <1>2, <3>1, <3>2 DEF KeptOK, Launched, Collecting
      <3> QED BY <1>7, <2>1, <2>4, <3>1, <3>3
    <2>5. CASE /\ call' = [call EXCEPT ![k].pc = "wait"]
               /\ routine' = [routine EXCEPT ![k] = [i \in 1..Len(ps) |-> Goroutine(ps[i])]]
      <3>1. /\ call'[k].pc = "wait" /\ call'[k].client = c /\ call'[k].result = "none"
            /\ call'[k].hooks = call[k].hooks
            /\ \A d \in Calls \ {k} : call'[d] = call[d]
        BY <1>3, <1>4, <2>1, <2>5 DEF CallInv, CallRecord
      <3>2. /\ routine'[k] = [i \in 1..Len(ps) |-> Goroutine(ps[i])]
            /\ \A d \in Calls \ {k} : routine'[d] = routine[d]
        BY <2>5 DEF CallInv
      <3>3. /\ DOMAIN routine'[k] = 1..Len(ps)
            /\ \A i \in 1..Len(ps) : routine'[k][i].provider = ps[i]
        BY <3>2 DEF Goroutine
      <3>4. ASSUME NEW p \in kept[k] PROVE \E i \in DOMAIN routine'[k] : routine'[k][i].provider = p
        <4>1. PICK i \in DOMAIN ps : ps[i] = p
          BY <2>3 DEF ToSet
        <4>2. i \in 1..Len(ps)
          BY <4>1
        <4> QED BY <3>3, <4>1, <4>2
      <3>5. Called(k)'
        BY <1>2, <3>4 DEF Called
      <3>6. KeptOK(k)'
        BY <1>2, <1>3, <1>4, <1>5, <2>1, <3>1, <3>5 DEF KeptOK, Launched, Collecting
      <3> QED BY <1>7, <2>1, <3>1, <3>2, <3>6
    <2> QED BY <1>4, <1>12, <2>2, <2>4, <2>5 DEF Start
  <1>13. CASE Join(k)
    <2>1. /\ call[k].pc = "wait" /\ UNCHANGED <<reading, routine>>
      BY <1>13 DEF Join
    <2>2. /\ call'[k].client = c /\ call'[k].hooks = call[k].hooks /\ call'[k].pc = "returned"
          /\ call'[k].result \in {"some", "all_failed"}
          /\ \A d \in Calls \ {k} : call'[d] = call[d]
      BY <1>3, <1>4, <1>13 DEF Join, CallInv, CallRecord
    <2>3. Called(k) /\ (Called(k) => Called(k)')
      BY <1>2, <1>3, <2>1 DEF KeptOK, Launched, Called
    <2>4. KeptOK(k)'
      BY <1>2, <1>3, <1>4, <1>5, <2>1, <2>2, <2>3 DEF KeptOK, Launched, Collecting
    <2> QED BY <1>7, <2>1, <2>2, <2>4
  <1> QED BY <1>8, <1>9, <1>10, <1>11, <1>12, <1>13 DEF Dispatch

LEMMA EnterKeeps ==
    ASSUME NEW g \in GoRecord, NEW stage, NEW n
    PROVE  Enter(g, stage, n).provider = g.provider
  BY DEF Enter, GoRecord

\* A goroutine's step: its provider stays.
LEMMA GoroutinesKeep ==
    ASSUME CallInv, KeepInv, NEW k \in Calls, Goroutines(k)
    PROVE  KeepInv'
  <1>1. PICK i \in DOMAIN routine[k] : Unwind(k, i) \/ \E err \in BOOLEAN : CallProvider(k, i, err)
    BY DEF Goroutines
  <1>2. UNCHANGED <<heap, providers, kept, call, reading>>
    BY <1>1 DEF Unwind, CallProvider, Idle, Lists
  <1>3. routine[k] \in Seq(GoRecord) /\ routine[k][i] \in GoRecord
    BY DEF CallInv
  <1>4. PICK g \in GoRecord : g = routine[k][i]
    BY <1>3
  <1>5. PICK new : routine' = [routine EXCEPT ![k][i] = new] /\ new.provider = g.provider
    <2>1. ASSUME NEW err \in BOOLEAN, CallProvider(k, i, err)
          PROVE  \E new : routine' = [routine EXCEPT ![k][i] = new] /\ new.provider = g.provider
      <3> DEFINE h == [g EXCEPT !.err = err]
                 new == Enter(h, IF err THEN "error" ELSE "after", Len(call[k].hooks))
      <3>1. routine' = [routine EXCEPT ![k][i] = new]
        BY <1>4, <2>1 DEF CallProvider
      <3>2. h \in GoRecord /\ h.provider = g.provider
        BY DEF GoRecord
      <3> HIDE DEF h
      <3>3. new.provider = g.provider
        BY <3>2, EnterKeeps
      <3> QED BY <3>1, <3>3
    <2>2. CASE Unwind(k, i)
      <3>1. g.stage \in {"after", "error", "finally"} /\ GoOK(call[k].hooks, g)
            /\ call[k].hooks \in Seq(HookSet)
        <4>1. i \in 1..Len(routine[k])
          BY <1>3
        <4> QED BY <1>4, <2>2, <4>1 DEF Unwind, CallInv, ChainOK, CallRecord
      <3>2. routine' = [routine EXCEPT ![k][i] = Unwinding(call[k].hooks, g)]
        BY <1>4, <2>2 DEF Unwind, Unwinding, UnwoundHook
      <3>3. Unwinding(call[k].hooks, g).provider = g.provider
        BY DEF Unwinding, Enter, GoRecord
      <3> QED BY <3>2, <3>3
    <2> QED BY <1>1, <2>1, <2>2
  <1>6. /\ \A d \in Calls \ {k} : routine'[d] = routine[d]
        /\ DOMAIN routine'[k] = DOMAIN routine[k]
        /\ \A j \in DOMAIN routine[k] : routine'[k][j] = IF j = i THEN new ELSE routine[k][j]
    BY <1>5 DEF CallInv
  <1>7. Called(k) => Called(k)'
    BY <1>2, <1>4, <1>5, <1>6 DEF Called
  <1>8. KeptOK(k)'
    <2>1. KeptOK(k)
      BY DEF KeepInv
    <2>2. /\ Collecting(k)' <=> Collecting(k)
          /\ OnList(k)' = OnList(k)
          /\ ToRead(k)' = ToRead(k)
          /\ Apart(k)' <=> Apart(k)
          /\ Launched(k)' <=> Launched(k)
          /\ Alone(call[k].client)' <=> Alone(call[k].client)
          /\ Exists(call[k].client)' <=> Exists(call[k].client)
      BY <1>2 DEF Collecting, OnList, ToRead, Apart, Launched, Alone, Exists, Contents
    <2> QED BY <1>2, <1>7, <2>1, <2>2 DEF KeptOK
  <1>9. kept' \in [Calls -> SUBSET Providers]
    BY <1>2 DEF KeepInv
  <1> QED BY <1>2, <1>6, <1>8, <1>9, KeepMoves

LEMMA NextKeeps ==
    ListInv /\ ShareInv /\ ReadInv /\ CallInv /\ KeepInv /\ [Next]_vars => KeepInv'
  <1> SUFFICES ASSUME ListInv, ShareInv, ReadInv, CallInv, KeepInv, [Next]_vars PROVE KeepInv'
    OBVIOUS
  <1>1. CASE UNCHANGED <<heap, providers, call, reading, routine, kept>>
    <2>1. ASSUME NEW k \in Calls PROVE KeptOK(k)'
      <3>1. KeptOK(k)
        BY DEF KeepInv
      <3>2. /\ Collecting(k)' <=> Collecting(k)
            /\ OnList(k)' = OnList(k)
            /\ ToRead(k)' = ToRead(k)
            /\ Apart(k)' <=> Apart(k)
            /\ Launched(k)' <=> Launched(k)
            /\ Called(k)' <=> Called(k)
            /\ Alone(call[k].client)' <=> Alone(call[k].client)
            /\ Exists(call[k].client)' <=> Exists(call[k].client)
        BY <1>1 DEF Collecting, OnList, ToRead, Apart, Launched, Called, Alone, Exists, Contents
      <3> QED BY <1>1, <3>1, <3>2 DEF KeptOK
    <2> QED BY <1>1, <2>1 DEF KeepInv
  <1>2. ASSUME NEW s \in Sweeps, Sweep(s) PROVE KeepInv'
    BY <1>1, <1>2 DEF Sweep, SweepBegin, SweepVisit, SweepReturn, Lists
  <1>3. ASSUME NEW k \in Calls, Begin(k) \/ Dispatch(k) \/ Goroutines(k) PROVE KeepInv'
    BY <1>3, BeginKeeps, DispatchKeeps, GoroutinesKeep
  <1>4. ASSUME NEW c \in Clients, NEW p \in Extra, AddProvider(c, p) PROVE KeepInv'
    <2>1. Moved(c)
      BY <1>4, AppendMoves, ExtraAreProviders DEF AddProvider
    <2> QED BY <1>4, <2>1, ListsKeep DEF AddProvider
  <1>5. ASSUME NEW p \in Extra, SetGlobalProvider(p) PROVE KeepInv'
    <2>1. <<p>> \in Seq(Elems) /\ "global" \in Clients /\ 1 \in Nat
      BY ExtraAreProviders DEF Elems, Clients
    <2>2. PICK new \in Seq(Elems) : new = <<p>>
      BY <2>1
    <2>3. Moved("global")
      BY <1>5, <2>1, <2>2, NewArrayMoves DEF SetGlobalProvider
    <2> QED BY <1>5, <2>1, <2>3, ListsKeep DEF SetGlobalProvider
  <1>6. CASE WithTransaction
    BY <1>6, TransactionKeeps
  <1>7. ASSUME NEW h \in ApiHooks, AddGlobalHooks(h) PROVE KeepInv'
    BY <1>1, <1>7 DEF AddGlobalHooks
  <1>8. CASE UNCHANGED vars
    BY <1>1, <1>8 DEF vars, Lists
  <1> QED BY <1>2, <1>3, <1>4, <1>5, <1>6, <1>7, <1>8 DEF Next

-----------------------------------------------------------------------------
(* What follows.                                                           *)

LEMMA Invariants == Spec => [](ListInv /\ ShareInv /\ ReadInv /\ CallInv /\ KeepInv /\ SweepInv)
  BY InitLists, InitShares, InitReads, InitCalls, InitKeeps, InitSweeps, NextLists, NextShares,
     NextReads, NextCalls, NextKeeps, NextSweeps, PTL DEF Spec

\* Every variable keeps its type; no slice reaches beyond its array or has an element nobody
\* put there.
THEOREM TypeCorrect == Spec => []TypeOK
  <1>1. ASSUME ListInv, ReadInv, CallInv, KeepInv, SweepInv PROVE TypeOK
    <2>1. ASSUME NEW i \in 1..Len(heap) PROVE ToSet(heap[i]) \subseteq Providers \cup {"nil"}
      <3>1. heap[i] \in Seq(Elems)
        BY <1>1 DEF ListInv
      <3>2. PICK s \in Seq(Elems) : s = heap[i]
        BY <3>1
      <3>3. \A j \in DOMAIN s : s[j] \in Elems
        OBVIOUS
      <3> QED BY <3>2, <3>3 DEF ToSet, Elems
    <2>2. ASSUME NEW c \in Clients
          PROVE  /\ providers[c] \in [array : 1..Len(heap), len : Nat \cup {-1}]
                 /\ providers[c].len <= Len(heap[providers[c].array])
      <3>1. /\ providers[c].array \in 1..Len(heap)
            /\ providers[c].len \in -1..Len(heap[providers[c].array])
            /\ providers[c] \in [array : Nat, len : Int]
            /\ heap[providers[c].array] \in Seq(Elems)
        BY <1>1 DEF ListInv, SliceOK
      <3>2. Len(heap[providers[c].array]) \in Nat
        BY <3>1
      <3> QED BY <3>1, <3>2
    <2>3. providers \in [Clients -> Slices]
      BY <1>1, <2>2 DEF ListInv, Slices
    <2>4. allowDraft \in BOOLEAN /\ ToSet(globalHooksList) \subseteq ApiHooks
      BY <1>1 DEF ListInv, ToSet
    <2>5. ASSUME NEW k \in Calls
          PROVE  /\ call[k].pc \in {"idle", "collect", "collectProviders", "readHooks", "before",
                                    "wait", "returned"}
                 /\ call[k].client \in Clients
                 /\ reading[k] \in [array : 1..Len(heap), len : Nat \cup {-1}, next : Nat]
                 /\ kept[k] \subseteq Providers
                 /\ call[k].result \in {"none", "noop", "cancelled", "empty", "some", "all_failed"}
                 /\ \A i \in DOMAIN routine[k] :
                       /\ routine[k][i].provider \in Providers
                       /\ routine[k][i].stage \in {"call", "after", "error", "finally", "done"}
      <3>1. call[k] \in CallRecord /\ routine[k] \in Seq(GoRecord)
        BY <1>1 DEF CallInv
      <3>2. \A i \in DOMAIN routine[k] : routine[k][i] \in GoRecord
        BY <3>1
      <3>3. reading[k] \in [array : 1..Len(heap), len : Nat \cup {-1}, next : Nat]
        <4>1. /\ reading[k].array \in 1..Len(heap)
              /\ reading[k].len \in -1..Len(heap[reading[k].array])
              /\ reading[k] \in [array : Nat, len : Int, next : Nat]
              /\ heap[reading[k].array] \in Seq(Elems)
          BY <1>1 DEF ListInv, ReadInv, ReadOK
        <4>2. Len(heap[reading[k].array]) \in Nat
          BY <4>1
        <4> QED BY <4>1, <4>2
      <3>4. kept[k] \subseteq Providers
        BY <1>1 DEF KeepInv
      <3> QED BY <3>1, <3>2, <3>3, <3>4 DEF CallRecord, GoRecord
    <2>6. ASSUME NEW s \in Sweeps
          PROVE  /\ sweep[s].pc \in {"idle", "visiting", "returned"}
                 /\ sweep[s].client \in Clients
                 /\ ToSet(sweep[s].ps) \subseteq Providers
                 /\ sweep[s].errs \subseteq ToSet(sweep[s].visited)
      <3>1. sweep[s] \in SweepRecord /\ SweepOK(s) /\ sweep[s].ps \in Seq(Providers)
        BY <1>1 DEF SweepInv, SweepRecord
      <3>2. \A i \in DOMAIN sweep[s].ps : sweep[s].ps[i] \in Providers
        BY <3>1
      <3> QED BY <3>1, <3>2 DEF SweepRecord, SweepOK, ToSet
    <2> QED BY <2>1, <2>2, <2>3, <2>4, <2>5, <2>6 DEF TypeOK
  <1> QED BY <1>1, Invariants, PTL

\* Before hooks run in the order api, client, provider, and a provider is called only after
\* every hook of the chain let the event pass, whatever is added to the lists while the event
\* is on its way: collectAllHooks and dispatchAll in analytics/client.go.
THEOREM BeforeHooksGate == Spec => []BeforeGates
  <1>1. ASSUME CallInv PROVE BeforeGates
    <2> SUFFICES ASSUME NEW k \in Calls
                 PROVE  /\ \A i, j \in DOMAIN call[k].ran :
                             i < j => Rank(call[k].ran[i]) <= Rank(call[k].ran[j])
                        /\ routine[k] # << >> =>
                             call[k].ran = call[k].hooks /\ call[k].result # "cancelled"
      BY DEF BeforeGates
    <2>1. /\ ChainOK(call[k], routine[k])
          /\ call[k].ran \in Seq(HookSet) /\ call[k].hooks \in Seq(HookSet)
      BY <1>1 DEF CallInv, CallRecord
    <2>2. /\ DOMAIN call[k].ran = 1..Len(call[k].ran)
          /\ Len(call[k].ran) \in Nat /\ Len(call[k].hooks) \in Nat
      BY <2>1
    <2> QED BY <2>1, <2>2 DEF ChainOK, Sorted
  <1> QED BY <1>1, Invariants, PTL

\* For each provider, every hook whose Before ran gets exactly one After or one Error, as the
\* provider's answer demands, and then exactly one Finally, in the reverse order, for any
\* number of hooks and providers: the goroutines of dispatchAll in analytics/client.go.
THEOREM HooksUnwound == Spec => []Unwound
  <1>1. ASSUME CallInv PROVE Unwound
    <2> SUFFICES ASSUME NEW k \in Calls, NEW i \in DOMAIN routine[k], routine[k][i].stage = "done"
                 PROVE  routine[k][i].trail =
                          Tagged(IF routine[k][i].err THEN "error" ELSE "after",
                                 Reverse(call[k].ran))
                            \o Tagged("finally", Reverse(call[k].ran))
      BY DEF Unwound
    <2>1. /\ ChainOK(call[k], routine[k]) /\ routine[k] \in Seq(GoRecord)
          /\ call[k].hooks \in Seq(HookSet)
      BY <1>1 DEF CallInv, CallRecord
    <2>2. i \in 1..Len(routine[k])
      BY <2>1
    <2>3. PICK g \in GoRecord : g = routine[k][i]
      BY <2>1, <2>2
    <2>4. PICK hooks \in Seq(HookSet) : hooks = call[k].hooks
      BY <2>1
    <2>5. GoOK(hooks, g)
      BY <2>1, <2>2, <2>3, <2>4 DEF ChainOK
    <2>6. call[k].ran = hooks
      <3>1. DOMAIN << >> = {}
        OBVIOUS
      <3> QED BY <2>1, <2>4, <3>1 DEF ChainOK
    <2> DEFINE n == Len(hooks)
               Trail == {"after", "error", "finally"} \X HookSet
    <2>7. n \in Nat /\ \A j \in 1..n : hooks[n - j + 1] \in HookSet
      OBVIOUS
    <2>8. ASSUME NEW stage \in {"after", "error", "finally"}
          PROVE  /\ Tagged(stage, Reverse(hooks)) \in Seq(Trail)
                 /\ Len(Tagged(stage, Reverse(hooks))) = n
                 /\ \A j \in 1..n : Tagged(stage, Reverse(hooks))[j] = <<stage, hooks[n - j + 1]>>
      <3>1. PICK back : back = Reverse(hooks)
        OBVIOUS
      <3>2. back \in [1..n -> HookSet] /\ \A j \in 1..n : back[j] = hooks[n - j + 1]
        BY <2>7, <3>1 DEF Reverse
      <3>3. back \in Seq(HookSet)
        BY <2>7, <3>2, SeqDef
      <3>4. Len(back) = n
        BY <2>7, <3>2, <3>3
      <3>5. PICK tagged : tagged = Tagged(stage, back)
        OBVIOUS
      <3>6. tagged \in [1..n -> Trail] /\ \A j \in 1..n : tagged[j] = <<stage, back[j]>>
        BY <3>2, <3>4, <3>5 DEF Tagged
      <3>7. tagged \in Seq(Trail)
        BY <2>7, <3>6, SeqDef
      <3>8. Len(tagged) = n
        BY <2>7, <3>6, <3>7
      <3> QED BY <3>1, <3>2, <3>5, <3>6, <3>7, <3>8
    <2>9. PICK stage \in {"after", "error"} : stage = IF g.err THEN "error" ELSE "after"
      OBVIOUS
    <2>10. PICK first \in Seq(Trail), last \in Seq(Trail) :
             /\ first = Tagged(stage, Reverse(hooks)) /\ last = Tagged("finally", Reverse(hooks))
             /\ Len(first) = n /\ \A j \in 1..n : first[j] = <<stage, hooks[n - j + 1]>>
             /\ Len(last) = n /\ \A j \in 1..n : last[j] = <<"finally", hooks[n - j + 1]>>
      BY <2>8
    <2>11. /\ first \o last \in Seq(Trail) /\ Len(first \o last) = n + n
           /\ \A j \in 1..(n + n) : (first \o last)[j] = IF j <= n THEN first[j] ELSE last[j - n]
      <3> HIDE DEF Trail
      <3>1. /\ first \o last \in Seq(Trail) /\ Len(first \o last) = Len(first) + Len(last)
            /\ \A j \in 1..Len(first) + Len(last) :
                 (first \o last)[j] = IF j <= Len(first) THEN first[j] ELSE last[j - Len(first)]
        BY ConcatProperties
      <3> QED BY <2>10, <3>1
    <2>12. g.trail \in Seq(Trail) /\ Len(g.trail) = n + n
      BY <2>3, <2>5 DEF GoOK, GoRecord
    <2>13. ASSUME NEW j \in 1..(n + n) PROVE g.trail[j] = (first \o last)[j]
      <3>1. g.trail[j] = Due(hooks, g.err, j)
        BY <2>5, <2>12 DEF GoOK
      <3>2. CASE j <= n
        BY <2>7, <2>9, <2>10, <2>11, <3>1, <3>2 DEF Due
      <3>3. CASE ~(j <= n)
        <4>1. j - n \in 1..n /\ n - (j - n) + 1 = n + n - j + 1
          BY <2>7, <3>3
        <4>2. last[j - n] = <<"finally", hooks[n + n - j + 1]>>
          BY <2>10, <4>1
        <4> QED BY <2>11, <3>1, <3>3, <4>2 DEF Due
      <3> QED BY <3>2, <3>3
    <2>14. g.trail = first \o last
      <3> HIDE DEF Trail
      <3>1. PICK both \in Seq(Trail) : both = first \o last
        BY <2>11
      <3>2. Len(both) = Len(g.trail) /\ \A j \in 1..Len(g.trail) : g.trail[j] = both[j]
        BY <2>11, <2>12, <2>13, <3>1
      <3> QED BY <2>12, <3>1, <3>2, SeqEqual
    <2> QED BY <2>3, <2>6, <2>9, <2>10, <2>14
  <1> QED BY <1>1, Invariants, PTL

\* A provider that stays on the list from the beginning of a dispatch until it starts its
\* goroutines is called, and while no clone shares the list its Before hook ran, although
\* dispatchAll reads the list twice and the first time without a lock: for any number of
\* dispatches, providers and changes of the lists (collectAllHooks and dispatchAll).
THEOREM ProvidersServed == Spec => []Served
  <1>1. ASSUME CallInv, KeepInv PROVE Served
    <2> SUFFICES ASSUME NEW k \in Calls,
                        call[k].pc = "wait" \/ call[k].result \in {"empty", "some", "all_failed"},
                        NEW p \in kept[k]
                 PROVE  /\ \E i \in DOMAIN routine[k] : routine[k][i].provider = p
                        /\ Alone(call[k].client) => p \in ToSet(call[k].ran)
      BY DEF Served
    <2>1. KeptOK(k) /\ ChainOK(call[k], routine[k])
      BY <1>1 DEF KeepInv, CallInv
    <2>2. Launched(k)
      BY <2>1 DEF KeptOK, Launched
    <2>3. PICK i \in DOMAIN routine[k] : routine[k][i].provider = p
      BY <2>1, <2>2 DEF KeptOK, Called
    <2>4. routine[k] # << >>
      <3>1. DOMAIN << >> = {}
        OBVIOUS
      <3> QED BY <2>3, <3>1
    <2>5. call[k].ran = call[k].hooks
      BY <2>1, <2>4 DEF ChainOK
    <2> QED BY <2>1, <2>2, <2>3, <2>5 DEF KeptOK
  <1> QED BY <1>1, Invariants, PTL
=============================================================================
