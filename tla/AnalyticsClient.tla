--------------------------- MODULE AnalyticsClient ---------------------------
(***************************************************************************)
(* analytics/client.go and the global state of analytics/api.go: how an    *)
(* event travels through the hook chain to the providers.                  *)
(*                                                                         *)
(* "global" is the client of the package-level functions, "base" one made  *)
(* by NewClient, and "tx" what WithTransaction returns for "base".         *)
(* Dispatch, Flush and Shutdown calls run concurrently with each other and *)
(* with the calls that change the provider lists and the global hooks.  A  *)
(* step is one critical section, one hook call or one provider call.       *)
(*                                                                         *)
(* Go slices are modelled as such: a header (array, length) over an array  *)
(* in heap that other headers may share.  Envelopes and contexts are left  *)
(* out: nothing here depends on their content.                             *)
(***************************************************************************)
EXTENDS Integers, Sequences, SequencesExt

CONSTANTS
    Calls,        \* calls of Track, Identify, Group, Page or Alias
    Sweeps,       \* calls of Client.Flush or of the package's Shutdown
    Given,        \* the providers passed to WithProviders, a sequence
    Extra,        \* providers that may be added later
    ApiHooks,     \* hooks that may be added with AddGlobalHooks
    ClientHooks,  \* the hooks passed to WithHooks, a sequence
    AllowDraft    \* values WithDraftDispatch may have

Clients == {"global", "base", "tx"}

\* Every provider has one hook of its own, which bears its name.
ProviderHooks == ToSet(Given) \cup Extra

ASSUME HooksAssumption ==
    /\ ApiHooks \cap ToSet(ClientHooks) = {}
    /\ (ApiHooks \cup ToSet(ClientHooks)) \cap ProviderHooks = {}
    /\ ToSet(Given) \cap Extra = {}
    /\ Given \in Seq(ToSet(Given)) /\ ClientHooks \in Seq(ToSet(ClientHooks))
    /\ AllowDraft \subseteq BOOLEAN

VARIABLES
    heap,        \* the arrays behind the slices; "nil" where nothing was written
    providers,   \* each client's slice; length -1 while "tx" does not exist
    allowDraft,  \* the allowDraft flag of "base", which its clone inherits
    globalHooksList,
    call,        \* each dispatch call
    reading,     \* each dispatch call's loop over its providers' hooks
    routine,     \* each dispatch call's goroutines, one per provider
    sweep,       \* each Flush or Shutdown call
    kept         \* history: providers on the list since the dispatch call began

Lists == <<heap, providers, allowDraft, globalHooksList>>

vars == <<Lists, call, reading, routine, sweep, kept>>

NoSlice == [array |-> 1, len |-> -1]

-----------------------------------------------------------------------------
(* Slices.                                                                 *)

Contents(s) == SubSeq(heap[s.array], 1, s.len)

\* Go doubles the capacity of a small slice that is full.
NewCap(cap) == IF cap = 0 THEN 1 ELSE 2 * cap

Grown(elems, cap) == elems \o [i \in 1..(cap - Len(elems)) |-> "nil"]

\* providers = append(providers, p): in place if the array has room.
AppendSlice(c, p) ==
    LET s == providers[c]
        old == heap[s.array]
    IN  \/ /\ s.len < Len(old)
           /\ heap' = [heap EXCEPT ![s.array][s.len + 1] = p]
           /\ providers' = [providers EXCEPT ![c].len = @ + 1]
        \/ /\ s.len = Len(old)
           /\ heap' = Append(heap, Grown(Append(old, p), NewCap(Len(old))))
           /\ providers' = [providers EXCEPT ![c] = [array |-> Len(heap) + 1, len |-> s.len + 1]]

-----------------------------------------------------------------------------
\* What NewClient was given; the global client is &Client{}.
HooksOf(c) == IF c = "global" THEN << >> ELSE ClientHooks

NoSweep == [pc |-> "idle", client |-> "base", ps |-> << >>, visited |-> << >>, errs |-> {}]

NoReading == [array |-> 1, len |-> 0, next |-> 1]

NoCall == [pc |-> "idle", client |-> "base", noop |-> FALSE, hooks |-> << >>,
           ran |-> << >>, result |-> "none"]

Init ==
    /\ heap = <<Given, << >> >>
    /\ providers = [c \in Clients |-> CASE c = "base" -> [array |-> 1, len |-> Len(Given)]
                                        [] c = "global" -> [array |-> 2, len |-> 0]
                                        [] c = "tx" -> NoSlice]
    /\ allowDraft \in AllowDraft
    /\ globalHooksList = << >>
    /\ call = [k \in Calls |-> NoCall]
    /\ reading = [k \in Calls |-> NoReading]
    /\ routine = [k \in Calls |-> << >>]
    /\ kept = [k \in Calls |-> {}]
    /\ sweep = [s \in Sweeps |-> NoSweep]

Exists(c) == providers[c].len >= 0

Added(p) == \E i \in 1..Len(heap) : \E j \in 1..Len(heap[i]) : heap[i][j] = p

\* A dispatch that has not started its goroutines.
Collecting(k) == call[k].pc \in {"collect", "collectProviders", "readHooks", "before"}

OnList(k) == ToSet(Contents(providers[call[k].client]))

Follow == kept' = [k \in Calls |-> IF Collecting(k) THEN kept[k] \cap OnList(k)' ELSE kept[k]]

\* Client.AddProvider and AddGlobalProvider; each provider is added at most once.
AddProvider(c, p) ==
    /\ Exists(c)
    /\ ~Added(p)
    /\ AppendSlice(c, p)
    /\ UNCHANGED <<allowDraft, globalHooksList, call, reading, routine, sweep>>
    /\ Follow

\* SetGlobalProvider: the global client gets a new list.
SetGlobalProvider(p) ==
    /\ ~Added(p)
    /\ heap' = Append(heap, <<p>>)
    /\ providers' = [providers EXCEPT !["global"] = [array |-> Len(heap) + 1, len |-> 1]]
    /\ UNCHANGED <<allowDraft, globalHooksList, call, reading, routine, sweep>>
    /\ Follow

\* WithTransaction: the clone shares the array of the provider list.
WithTransaction ==
    /\ ~Exists("tx")
    /\ providers' = [providers EXCEPT !["tx"] = providers["base"]]
    /\ UNCHANGED <<heap, allowDraft, globalHooksList, call, reading, routine, sweep, kept>>

AddGlobalHooks(h) ==
    /\ h \notin ToSet(globalHooksList)
    /\ globalHooksList' = Append(globalHooksList, h)
    /\ UNCHANGED <<heap, providers, allowDraft, call, reading, routine, sweep, kept>>

-----------------------------------------------------------------------------
(* dispatchAll.                                                            *)

Idle == UNCHANGED <<Lists, sweep, kept>>

\* An event that goes nowhere: WithNoop or a draft, unless drafts are allowed.
Suppressed(c, noop, draft) ==
    (noop \/ draft) /\ (~draft \/ c = "global" \/ ~allowDraft)

Begin(k) ==
    /\ call[k].pc = "idle"
    /\ \E c \in Clients, noop, draft \in BOOLEAN :
          /\ Exists(c)
          /\ call' = [call EXCEPT ![k] =
                [@ EXCEPT !.client = c, !.noop = noop,
                          !.pc = IF Suppressed(c, noop, draft) THEN "returned" ELSE "collect",
                          !.result = IF Suppressed(c, noop, draft) THEN "noop" ELSE "none"]]
          /\ kept' = [kept EXCEPT ![k] = ToSet(Contents(providers[c]))]
    /\ UNCHANGED <<Lists, reading, routine, sweep>>

\* collectAllHooks reads the global hooks first, under globalMu ...
CollectGlobalHooks(k) ==
    /\ call[k].pc = "collect"
    /\ call' = [call EXCEPT ![k].pc = "collectProviders", ![k].hooks = globalHooksList]
    /\ Idle
    /\ UNCHANGED <<reading, routine>>

\* ... then, under the client's mu, its hooks and the slice of its providers ...
CollectClientHooks(k) ==
    /\ call[k].pc = "collectProviders"
    /\ call' = [call EXCEPT ![k].pc = "readHooks", ![k].hooks = @ \o HooksOf(call[k].client)]
    /\ LET s == providers[call[k].client]
       IN  reading' = [reading EXCEPT ![k] = [array |-> s.array, len |-> s.len, next |-> 1]]
    /\ Idle
    /\ UNCHANGED routine

\* Mutant: the loop stops before the last provider.
MoreProvidersButOne(k) == reading[k].next < reading[k].len

MoreProviders(k) == reading[k].next <= reading[k].len

\* ... and then, without a lock, the hooks of what is in that slice, one after the other.
CollectProviderHooks(k) ==
    /\ call[k].pc = "readHooks"
    /\ \/ /\ MoreProviders(k)
          /\ call' = [call EXCEPT ![k].hooks = Append(@, heap[reading[k].array][reading[k].next])]
          /\ reading' = [reading EXCEPT ![k].next = @ + 1]
       \/ /\ ~MoreProviders(k)
          /\ call' = [call EXCEPT ![k].pc = "before"]
          /\ UNCHANGED reading
    /\ Idle
    /\ UNCHANGED routine

\* Mutant: an error of a Before hook is ignored.
BeforeErrorIgnored(k) == "before"

BeforeError(k) == "returned"

\* The next hook's Before lets the event pass or cancels it.
Before(k) ==
    /\ call[k].pc = "before"
    /\ Len(call[k].ran) < Len(call[k].hooks)
    /\ LET h == call[k].hooks[Len(call[k].ran) + 1]
       IN  \/ call' = [call EXCEPT ![k].ran = Append(@, h)]
           \/ call' = [call EXCEPT ![k].pc = BeforeError(k), ![k].result = "cancelled"]
    /\ Idle
    /\ UNCHANGED <<reading, routine>>

Goroutine(p) == [provider |-> p, stage |-> "call", left |-> 0, err |-> FALSE, trail |-> << >>]

\* The provider list is read again; one goroutine is started for each of them.
Start(k) ==
    /\ call[k].pc = "before"
    /\ Len(call[k].ran) = Len(call[k].hooks)
    /\ LET ps == Contents(providers[call[k].client])
       IN  \/ /\ ps = << >>
              /\ call' = [call EXCEPT ![k].pc = "returned", ![k].result = "empty"]
              /\ UNCHANGED routine
           \/ /\ ps # << >>
              /\ call' = [call EXCEPT ![k].pc = "wait"]
              /\ routine' = [routine EXCEPT ![k] = [i \in 1..Len(ps) |-> Goroutine(ps[i])]]
    /\ Idle
    /\ UNCHANGED reading

\* A stage with no hook to call is over at once.
Enter(g, stage, n) ==
    IF n = 0 THEN [g EXCEPT !.stage = "done"] ELSE [g EXCEPT !.stage = stage, !.left = n]

\* fn(ctx, p, ...): the provider call succeeds or fails.
CallProvider(k, i, err) ==
    /\ i \in DOMAIN routine[k]
    /\ routine[k][i].stage = "call"
    /\ routine' = [routine EXCEPT ![k][i] =
          Enter([@ EXCEPT !.err = err], IF err THEN "error" ELSE "after", Len(call[k].hooks))]
    /\ Idle
    /\ UNCHANGED <<call, reading>>

\* Mutant: the hooks are unwound in the order in which they ran.
UnwoundHookForward(k, left) == call[k].hooks[Len(call[k].hooks) - left + 1]

UnwoundHook(k, left) == call[k].hooks[left]

\* One call of After, Error or Finally, the last hook of the chain first.
Unwind(k, i) ==
    /\ i \in DOMAIN routine[k]
    /\ LET g == routine[k][i]
           called == [g EXCEPT !.trail = Append(@, <<g.stage, UnwoundHook(k, g.left)>>),
                               !.left = @ - 1]
       IN  /\ g.stage \in {"after", "error", "finally"}
           /\ routine' = [routine EXCEPT ![k][i] =
                 IF g.left > 1 THEN called
                 ELSE IF g.stage = "finally" THEN [called EXCEPT !.stage = "done"]
                 ELSE Enter(called, "finally", Len(call[k].hooks))]
    /\ Idle
    /\ UNCHANGED <<call, reading>>

\* Mutant: a goroutine whose provider failed never calls wg.Done().
DoneOnSuccess(k) == \A i \in DOMAIN routine[k] : routine[k][i].stage = "done" /\ ~routine[k][i].err

\* wg.Wait(): every goroutine has called its last hook.
AllDone(k) == \A i \in DOMAIN routine[k] : routine[k][i].stage = "done"

PartialSuccess(k) == \E i \in DOMAIN routine[k] : ~routine[k][i].err

\* The results are aggregated: PartialSuccess if one provider succeeded.
Join(k) ==
    /\ call[k].pc = "wait"
    /\ AllDone(k)
    /\ call' = [call EXCEPT ![k].pc = "returned",
                            ![k].result = IF PartialSuccess(k) THEN "some" ELSE "all_failed"]
    /\ Idle
    /\ UNCHANGED <<reading, routine>>

-----------------------------------------------------------------------------
(* Client.Flush and, on the global client, Shutdown: the provider list is  *)
(* copied under mu and every provider is called in turn.                   *)

SweepBegin(s, c) ==
    /\ sweep[s].pc = "idle"
    /\ Exists(c)
    /\ sweep' = [sweep EXCEPT ![s].pc = "visiting", ![s].client = c,
                              ![s].ps = Contents(providers[c])]
    /\ UNCHANGED <<Lists, call, reading, routine, kept>>

\* Mutant: the first error ends the loop.
AfterErrorReturn(s, err) == IF err THEN "returned" ELSE "visiting"

AfterVisit(s, err) == "visiting"

\* The next provider's Flush or Shutdown succeeds or fails.
SweepVisit(s, err) ==
    /\ sweep[s].pc = "visiting"
    /\ Len(sweep[s].visited) < Len(sweep[s].ps)
    /\ LET p == sweep[s].ps[Len(sweep[s].visited) + 1]
       IN  sweep' = [sweep EXCEPT ![s].visited = Append(@, p),
                                  ![s].errs = IF err THEN @ \cup {p} ELSE @,
                                  ![s].pc = AfterVisit(s, err)]
    /\ UNCHANGED <<Lists, call, reading, routine, kept>>

SweepReturn(s) ==
    /\ sweep[s].pc = "visiting"
    /\ sweep[s].visited = sweep[s].ps
    /\ sweep' = [sweep EXCEPT ![s].pc = "returned"]
    /\ UNCHANGED <<Lists, call, reading, routine, kept>>

-----------------------------------------------------------------------------
Dispatch(k) ==
    \/ CollectGlobalHooks(k) \/ CollectClientHooks(k) \/ CollectProviderHooks(k)
    \/ Before(k) \/ Start(k) \/ Join(k)

Goroutines(k) ==
    \E i \in DOMAIN routine[k] :
       Unwind(k, i) \/ \E err \in BOOLEAN : CallProvider(k, i, err)

Sweep(s) ==
    \/ \E c \in Clients : SweepBegin(s, c)
    \/ \E err \in BOOLEAN : SweepVisit(s, err)
    \/ SweepReturn(s)

Next ==
    \/ \E s \in Sweeps : Sweep(s)
    \/ \E k \in Calls : Begin(k) \/ Dispatch(k) \/ Goroutines(k)
    \/ \E c \in Clients, p \in Extra : AddProvider(c, p)
    \/ \E p \in Extra : SetGlobalProvider(p)
    \/ WithTransaction
    \/ \E h \in ApiHooks : AddGlobalHooks(h)

Spec == Init /\ [][Next]_vars

\* Goroutines that can run do, and hooks and providers return.
FairSpec == Spec /\ \A k \in Calls : WF_vars(Dispatch(k)) /\ WF_vars(Goroutines(k))

-----------------------------------------------------------------------------
Providers == ProviderHooks

Slices == [array : 1..Len(heap), len : Nat \cup {-1}]

TypeOK ==
    /\ \A i \in 1..Len(heap) : ToSet(heap[i]) \subseteq Providers \cup {"nil"}
    /\ providers \in [Clients -> Slices]
    /\ \A c \in Clients : providers[c].len <= Len(heap[providers[c].array])
    /\ allowDraft \in BOOLEAN
    /\ ToSet(globalHooksList) \subseteq ApiHooks
    /\ \A k \in Calls :
          /\ call[k].pc \in {"idle", "collect", "collectProviders", "readHooks", "before", "wait",
                            "returned"}
          /\ call[k].client \in Clients
          /\ reading[k] \in [array : 1..Len(heap), len : Nat \cup {-1}, next : Nat]
          /\ kept[k] \subseteq Providers
          /\ call[k].result \in {"none", "noop", "cancelled", "empty", "some", "all_failed"}
          /\ \A i \in DOMAIN routine[k] :
                /\ routine[k][i].provider \in Providers
                /\ routine[k][i].stage \in {"call", "after", "error", "finally", "done"}
    /\ \A s \in Sweeps :
          /\ sweep[s].pc \in {"idle", "visiting", "returned"}
          /\ sweep[s].client \in Clients
          /\ ToSet(sweep[s].ps) \subseteq Providers
          /\ sweep[s].errs \subseteq ToSet(sweep[s].visited)

\* Governance first: Before hooks run in the order api, client, provider, whatever is
\* added to the lists while the event is on its way; a provider is called only after
\* every hook of the chain let the event pass, and a hook that cancelled it keeps it
\* from all of them.
Rank(h) == IF h \in ApiHooks THEN 1 ELSE IF h \in ToSet(ClientHooks) THEN 2 ELSE 3

BeforeGates ==
    \A k \in Calls :
       /\ \A i, j \in DOMAIN call[k].ran :
             i < j => Rank(call[k].ran[i]) <= Rank(call[k].ran[j])
       /\ routine[k] # << >> => call[k].ran = call[k].hooks /\ call[k].result # "cancelled"

Tagged(stage, hooks) == [i \in 1..Len(hooks) |-> <<stage, hooks[i]>>]

\* For each provider, every hook whose Before ran gets exactly one After or one
\* Error, as the provider's answer demands, and then exactly one Finally, in the
\* reverse order, although the lists of hooks may have changed since.
Unwound ==
    \A k \in Calls : \A i \in DOMAIN routine[k] :
       LET g == routine[k][i]
           back == Reverse(call[k].ran)
       IN  g.stage = "done" =>
              g.trail = Tagged(IF g.err THEN "error" ELSE "after", back) \o Tagged("finally", back)

\* No other client appends to the array behind this one's list.
Alone(c) == c = "global" \/ (c = "base" /\ ~Exists("tx"))

\* dispatchAll reads the providers twice, for their hooks and for their goroutines, and the
\* first time follows the slice without a lock.  A provider that is on the list from the
\* beginning of the dispatch until the second read is called and, as long as no clone shares
\* the list, its own Before hook ran, whatever is appended, moved to a new array or replaced
\* meanwhile (analytics/client.go:366, :251).
Served ==
    \A k \in Calls :
       call[k].pc = "wait" \/ call[k].result \in {"empty", "some", "all_failed"} =>
          \A p \in kept[k] :
             /\ \E i \in DOMAIN routine[k] : routine[k][i].provider = p
             /\ Alone(call[k].client) => p \in ToSet(call[k].ran)

\* A Flush or Shutdown that has returned has called each provider that was on
\* the client's list when it began, once and in order, whatever the others
\* answered and whatever was done to the list meanwhile.
SweepComplete ==
    \A s \in Sweeps :
       /\ IsPrefix(sweep[s].visited, sweep[s].ps)
       /\ sweep[s].pc = "returned" => sweep[s].visited = sweep[s].ps

\* Every dispatch returns.
DispatchReturns == \A k \in Calls : call[k].pc # "idle" ~> call[k].pc = "returned"

-----------------------------------------------------------------------------
(* What comments in the source say and the code does not do.               *)

\* "AddProvider appends providers to this client's provider list": no other
\* client's list changes.
ListsIndependent ==
    [][\A c \in Clients, p \in Extra :
          AddProvider(c, p) => \A d \in Clients \ {c} :
             Exists(d) => Contents(providers[d])' = Contents(providers[d])]_vars
=============================================================================
