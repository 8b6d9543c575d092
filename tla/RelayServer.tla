----------------------------- MODULE RelayServer -----------------------------
(***************************************************************************)
(* registry/server: the analytics relay, the cache of event definitions    *)
(* its hooks consult, and the publishers and administrators that change    *)
(* what it consults.                                                       *)
(*                                                                         *)
(* Every HTTP request runs in a goroutine of its own.  A step is one       *)
(* database statement, one critical section or one atomic load or store.   *)
(* One event name is followed: defs[v] is the definition ListEvents returns *)
(* after its v-th publication, that one or, if its version is older, the    *)
(* one before.  The properties of an event are abstract: an active          *)
(* definition accepts or refuses them, a sampled one keeps or drops them.   *)
(***************************************************************************)
EXTENDS Integers, Sequences

CONSTANTS
    Requests,            \* POST /v1/track, identify, group, page, alias, batch
    Sources,             \* registered sources
    RegistryPublishers,  \* calls of Server.PublishEvent
    StorePublishers,     \* POST /v1/events and the UI's publish form
    ApiSetters,          \* PUT /v1/admin/config/hooks_enabled
    UISetters,           \* the UI's config form
    Kinds,               \* kinds of definitions that may be published
    MaxItems,            \* bound on the events of a batch
    MaxRestarts          \* bound on the server's restarts

Publishers == RegistryPublishers \cup StorePublishers
Setters == ApiSetters \cup UISetters

ASSUME RelayAssumption ==
    /\ RegistryPublishers \cap StorePublishers = {}
    /\ ApiSetters \cap UISetters = {}
    /\ Kinds \subseteq {"active", "deleted", "sampled"}
    /\ MaxItems \in Nat \ {0}
    /\ MaxRestarts \in Nat

VARIABLES
    defs,          \* events table: what it had listed after each publication
    audit,         \* audit_log: the publications it records
    setting,       \* server_settings: the row of hooks_enabled
    startValue,    \* Config: what hooksEnabled is when there is no such row
    hooksEnabled,
    cache,         \* eventCacheReady, and the publication eventsByName has
    clients,       \* s.clients: 0 where a source has none
    made,          \* clients built so far
    pc,            \* where each relay request is
    source,        \* its source
    client,        \* the client it uses; 0 while it has none
    job,           \* its items and what became of them
    hook,          \* the hook that looks an event up for it
    snap,          \* the list its lookup got from the database
    pub,           \* each publication
    put,           \* each change of the setting
    restarts,
    late,          \* history: the publications that came back after a lookup
                   \* had listed the events, and that its list lacks
    missed         \* history: the publications the cache lacked when it was filled

database == <<defs, audit, setting, startValue>>
memory == <<hooksEnabled, cache, clients, made, missed>>
requests == <<pc, source, client, job, hook, snap, late>>
vars == <<database, memory, requests, pub, put, restarts>>

-----------------------------------------------------------------------------
NoJob == [items |-> << >>, at |-> 0, relayed |-> {}, dropped |-> {}, status |-> 0]

NoCache == [ready |-> FALSE, v |-> 0]

Value(b) == IF b THEN "true" ELSE "false"

\* New: the row in the database overrides the configuration, if it can be read.
StartupHooks(row, default) == {default} \cup (IF row = "none" THEN {} ELSE {row = "true"})

Init ==
    /\ defs = << >>
    /\ audit = {}
    /\ setting = "none"
    /\ startValue \in BOOLEAN
    /\ hooksEnabled \in StartupHooks(setting, startValue)
    /\ cache = NoCache
    /\ clients = [s \in Sources |-> 0]
    /\ made = 0
    /\ pc = [r \in Requests |-> "idle"]
    /\ source = [r \in Requests |-> "none"]
    /\ client = [r \in Requests |-> 0]
    /\ job = [r \in Requests |-> NoJob]
    /\ hook = [r \in Requests |-> "validation"]
    /\ snap = [r \in Requests |-> 0]
    /\ late = [r \in Requests |-> {}]
    /\ pub = [p \in Publishers |-> [pc |-> "idle", v |-> 0]]
    /\ put = [c \in Setters |-> [pc |-> "idle", value |-> "none"]]
    /\ restarts = 0
    /\ missed = {}

-----------------------------------------------------------------------------
(* The items of a request.  A job with a status is over.                   *)

Refused(j) == [j EXCEPT !.status = 400]

\* The next item's turn; one of unknown type ends the request.
StartItem(j) ==
    IF j.at = Len(j.items) THEN [j EXCEPT !.status = 202]
    ELSE IF j.items[j.at + 1] = "unknown" THEN Refused([j EXCEPT !.at = @ + 1])
    ELSE [j EXCEPT !.at = @ + 1]

\* Mutant: a refused item is skipped and the batch goes on.
RefusedItemSkipped(j) == StartItem(j)

RefusedItem(j) == Refused(j)

RelayedItem(j) == StartItem([j EXCEPT !.relayed = @ \cup {j.at}])

\* A sampled-out event is skipped.
DroppedItem(j) == StartItem([j EXCEPT !.dropped = @ \cup {j.at}])

\* The request goes on with the validation hook of the next item, if any.
Proceed(r, j) ==
    /\ job' = [job EXCEPT ![r] = j]
    /\ hook' = [hook EXCEPT ![r] = "validation"]
    /\ pc' = [pc EXCEPT ![r] = IF j.status = 0 THEN "load" ELSE "done"]

\* validation.Hook.Before, given the publication (0: none) that was found.
ValidationBefore(r, v) ==
    /\ hook[r] = "validation"
    /\ \/ /\ v # 0
          /\ Proceed(r, RefusedItem(job[r]))
       \/ /\ v # 0 => defs[v] # "deleted"
          /\ hook' = [hook EXCEPT ![r] = "sampling"]
          /\ pc' = [pc EXCEPT ![r] = "load"]
          /\ UNCHANGED job

\* sampling.Hook.Before, and, if it keeps the event, the providers: Track
\* tells the handler of a cancelled event, but not of a failed provider.
SamplingBefore(r, v) ==
    /\ hook[r] = "sampling"
    /\ \/ /\ v # 0
          /\ defs[v] = "sampled"
          /\ Proceed(r, DroppedItem(job[r]))
       \/ Proceed(r, RelayedItem(job[r]))

\* The lookup returns publication v and the hook decides.
Answer(r, v) ==
    /\ ValidationBefore(r, v) \/ SamplingBefore(r, v)
    /\ snap' = [snap EXCEPT ![r] = 0]
    /\ late' = [late EXCEPT ![r] = {}]
    /\ UNCHANGED <<source, client>>

Batches == UNION {[1..n -> {"event", "unknown"}] : n \in 0..MaxItems}

\* A body that is not JSON or lacks a required field.
BadRequest(r) ==
    /\ pc[r] = "idle"
    /\ Proceed(r, Refused(NoJob))
    /\ UNCHANGED <<source, client, snap, late, database, memory, pub, put, restarts>>

-----------------------------------------------------------------------------
(* clientForSource.                                                        *)

\* The map is read under the read lock.
ClientCached(r) ==
    /\ pc[r] = "idle"
    /\ \E s \in Sources, items \in Batches :
          LET j == [NoJob EXCEPT !.items = items]
          IN  /\ source' = [source EXCEPT ![r] = s]
              /\ client' = [client EXCEPT ![r] = clients[s]]
              /\ \/ clients[s] # 0 /\ Proceed(r, StartItem(j))
                 \/ /\ clients[s] = 0
                    /\ job' = [job EXCEPT ![r] = j]
                    /\ pc' = [pc EXCEPT ![r] = "build"]
                    /\ UNCHANGED hook
    /\ UNCHANGED <<snap, late, database, memory, pub, put, restarts>>

\* Mutant: the map is not looked at again under the write lock.
NotBuiltMeanwhile(s) == TRUE

NotBuilt(s) == clients[s] = 0

\* Under the write lock: another request may have built the client meanwhile;
\* otherwise it is built from the database, unless the source cannot be read
\* (500) or is not found (400).
ClientBuild(r) ==
    /\ pc[r] = "build"
    /\ LET s == source[r]
       IN  \/ /\ ~NotBuilt(s)
              /\ client' = [client EXCEPT ![r] = clients[s]]
              /\ Proceed(r, StartItem(job[r]))
              /\ UNCHANGED <<clients, made>>
           \/ /\ NotBuilt(s)
              /\ client' = [client EXCEPT ![r] = made + 1]
              /\ made' = made + 1
              /\ clients' = [clients EXCEPT ![s] = made + 1]
              /\ Proceed(r, StartItem(job[r]))
           \/ /\ NotBuilt(s)
              /\ \E code \in {400, 500} : Proceed(r, [job[r] EXCEPT !.status = code])
              /\ UNCHANGED <<clients, made, client>>
    /\ UNCHANGED <<source, snap, late, database, hooksEnabled, cache, missed, pub, put,
                   restarts>>

-----------------------------------------------------------------------------
(* eventLookup, called by each of the two hooks.                           *)

\* The lookup of request r goes on to its next step.
Step(r, to) ==
    /\ pc' = [pc EXCEPT ![r] = to]
    /\ UNCHANGED <<source, client, job, hook, late>>

\* hooksEnabled.Load(): with hooks disabled no event has a definition.
LookupToggle(r) ==
    /\ pc[r] = "load"
    /\ \/ hooksEnabled /\ Step(r, "read") /\ UNCHANGED snap
       \/ ~hooksEnabled /\ Answer(r, 0)
    /\ UNCHANGED <<database, memory, pub, put, restarts>>

\* The cache is read under the read lock.
LookupRead(r) ==
    /\ pc[r] = "read"
    /\ \/ cache.ready /\ Answer(r, cache.v)
       \/ ~cache.ready /\ Step(r, "list") /\ UNCHANGED snap
    /\ UNCHANGED <<database, memory, pub, put, restarts>>

\* ListEvents: a failure counts as an event without a definition.
LookupList(r) ==
    /\ pc[r] = "list"
    /\ \/ Step(r, "install") /\ snap' = [snap EXCEPT ![r] = Len(defs)]
       \/ Answer(r, 0)
    /\ UNCHANGED <<database, memory, pub, put, restarts>>

\* Under the write lock the list becomes the cache, unless there is one by now.
LookupInstall(r) ==
    /\ pc[r] = "install"
    /\ \/ /\ cache.ready
          /\ Answer(r, cache.v)
          /\ UNCHANGED <<cache, missed>>
       \/ /\ ~cache.ready
          /\ cache' = [ready |-> TRUE, v |-> snap[r]]
          /\ missed' = late[r]
          /\ Answer(r, snap[r])
    /\ UNCHANGED <<database, hooksEnabled, clients, made, pub, put, restarts>>

-----------------------------------------------------------------------------
(* Publishing: the store upserts the event and then writes the audit log,  *)
(* in two statements that are not one transaction.                         *)

Publication == Len(defs) + 1

PublishUpsert(p) ==
    /\ pub[p].pc = "idle"
    /\ \/ \E k \in Kinds :
             /\ defs' = Append(defs, k)
             /\ pub' = [pub EXCEPT ![p] = [pc |-> "audit", v |-> Publication]]
       \/ /\ pub' = [pub EXCEPT ![p].pc = "error"]
          /\ UNCHANGED defs
    /\ UNCHANGED <<audit, setting, startValue, memory, requests, put, restarts>>

\* Mutant: the handler answers without looking at the error of the audit log.
AuditErrorIgnored(p) == IF p \in RegistryPublishers THEN "invalidate" ELSE "nil"

AuditError(p) == "error"

PublishAudit(p) ==
    /\ pub[p].pc = "audit"
    /\ \/ /\ audit' = audit \cup {pub[p].v}
          /\ pub' = [pub EXCEPT ![p].pc =
                IF p \in RegistryPublishers THEN "invalidate" ELSE "nil"]
       \/ /\ pub' = [pub EXCEPT ![p].pc = AuditError(p)]
          /\ UNCHANGED audit
    /\ UNCHANGED <<defs, setting, startValue, memory, requests, put, restarts>>

\* Mutant: eventCacheReady is left alone.
KeepCache == cache

EmptyCache == NoCache

\* Server.PublishEvent, and only it, empties the cache; a lookup that listed
\* the events before the publication still holds its list.
PublishInvalidate(p) ==
    /\ pub[p].pc = "invalidate"
    /\ pub' = [pub EXCEPT ![p].pc = "nil"]
    /\ cache' = EmptyCache
    /\ missed' = {}
    /\ late' = [r \in Requests |->
                  IF pc[r] = "install" /\ pub[p].v > snap[r] THEN late[r] \cup {p} ELSE late[r]]
    /\ UNCHANGED <<pc, source, client, job, hook, snap, database, hooksEnabled, clients, made,
                   put, restarts>>

-----------------------------------------------------------------------------
(* handleSetConfig: the row first, then, in the API's handler only, the    *)
(* toggle in memory.                                                       *)

SettingWrite(c, b) ==
    /\ put[c].pc = "idle"
    /\ \/ /\ setting' = Value(b)
          /\ put' = [put EXCEPT ![c] =
                [pc |-> IF c \in ApiSetters THEN "apply" ELSE "done", value |-> Value(b)]]
       \/ /\ put' = [put EXCEPT ![c].pc = "done"]
          /\ UNCHANGED setting
    /\ UNCHANGED <<defs, audit, startValue, memory, requests, pub, restarts>>

SettingApply(c) ==
    /\ put[c].pc = "apply"
    /\ hooksEnabled' = (put[c].value = "true")
    /\ put' = [put EXCEPT ![c].pc = "done"]
    /\ UNCHANGED <<database, cache, clients, made, missed, requests, pub, restarts>>

-----------------------------------------------------------------------------
\* The server dies and starts again: what it held in memory and every call in
\* progress is gone, the database is not.
Restart ==
    /\ restarts < MaxRestarts
    /\ restarts' = restarts + 1
    /\ hooksEnabled' \in StartupHooks(setting, startValue)
    /\ cache' = NoCache
    /\ clients' = [s \in Sources |-> 0]
    /\ missed' = {}
    /\ pc' = [r \in Requests |-> IF pc[r] = "idle" THEN "idle" ELSE "done"]
    /\ source' = [r \in Requests |-> "none"]
    /\ client' = [r \in Requests |-> 0]
    /\ job' = [r \in Requests |-> NoJob]
    /\ hook' = [r \in Requests |-> "validation"]
    /\ snap' = [r \in Requests |-> 0]
    /\ late' = [r \in Requests |-> {}]
    /\ pub' = [p \in Publishers |->
                 IF pub[p].pc \in {"audit", "invalidate"} THEN [pub[p] EXCEPT !.pc = "lost"] ELSE pub[p]]
    /\ put' = [c \in Setters |->
                 IF put[c].pc = "apply" THEN [put[c] EXCEPT !.pc = "done"] ELSE put[c]]
    /\ UNCHANGED <<database, made>>

Lookup(r) == LookupToggle(r) \/ LookupRead(r) \/ LookupList(r) \/ LookupInstall(r)

Relay(r) == BadRequest(r) \/ ClientCached(r) \/ ClientBuild(r) \/ Lookup(r)

Publish(p) == PublishUpsert(p) \/ PublishAudit(p) \/ PublishInvalidate(p)

SetConfig(c) == SettingApply(c) \/ \E b \in BOOLEAN : SettingWrite(c, b)

Next ==
    \/ \E r \in Requests : Relay(r)
    \/ \E p \in Publishers : Publish(p)
    \/ \E c \in Setters : SetConfig(c)
    \/ Restart

Spec == Init /\ [][Next]_vars

-----------------------------------------------------------------------------
JobType ==
    [items : Batches, at : Nat, relayed : SUBSET Nat,
     dropped : SUBSET Nat, status : {0, 202, 400, 500}]

ServerType ==
    /\ defs \in Seq(Kinds)
    /\ audit \subseteq 1..Len(defs)
    /\ setting \in {"none", "true", "false"}
    /\ startValue \in BOOLEAN
    /\ hooksEnabled \in BOOLEAN
    /\ cache \in [ready : BOOLEAN, v : 0..Len(defs)]
    /\ clients \in [Sources -> Nat]
    /\ made \in Nat
    /\ restarts \in 0..MaxRestarts
    /\ missed \subseteq RegistryPublishers

RequestsType ==
    /\ pc \in [Requests -> {"idle", "build", "load", "read", "list", "install", "done"}]
    /\ source \in [Requests -> Sources \cup {"none"}]
    /\ \A r \in Requests : pc[r] = "build" => source[r] \in Sources
    /\ client \in [Requests -> Nat]
    /\ job \in [Requests -> JobType]
    /\ hook \in [Requests -> {"validation", "sampling"}]
    /\ snap \in [Requests -> 0..Len(defs)]
    /\ late \in [Requests -> SUBSET RegistryPublishers]

PublishersType ==
    /\ pub \in [Publishers -> [pc : {"idle", "audit", "invalidate", "nil", "error", "lost"},
                               v : 0..Len(defs)]]
    /\ \A p \in Publishers : pub[p].pc \in {"audit", "invalidate", "nil"} => pub[p].v > 0
    /\ \A p \in Publishers : pub[p].pc = "invalidate" => p \in RegistryPublishers

SettersType ==
    put \in [Setters -> [pc : {"idle", "apply", "done"}, value : {"none", "true", "false"}]]

TypeOK == ServerType /\ RequestsType /\ PublishersType /\ SettersType

\* Requests that race to build the client of a source all use the one that is
\* in the map, so that Flush reaches every event the server accepted and no
\* provider queue is left behind.
OneClientPerSource ==
    \A r \in Requests : client[r] # 0 => client[r] = clients[source[r]]

\* The cache lacks a publication that Server.PublishEvent has returned nil for.
Lacking == {p \in RegistryPublishers : pub[p].pc = "nil" /\ pub[p].v > cache.v}

\* "Lookups pick up the new definition immediately" fails in one way and no
\* other: a filled cache lacks exactly the publications that were stored after
\* the lookup that filled it had listed the events and that returned before it
\* installed them.  Any publication that returned before that list, or that has
\* returned since the cache was filled, is in it.
CacheLacks == cache.ready => Lacking = missed

\* A publication that was answered with success is in the audit log, although
\* the server may have crashed or the log may have failed on the way.
Audited == \A p \in Publishers : pub[p].pc = "nil" => pub[p].v \in audit

Settled(j) == j.relayed \cup j.dropped

\* A batch is relayed in order up to its first refused item: 202 means that
\* every item was relayed or sampled out, 400 that exactly those before the
\* refused one were, whatever happened to definitions and hooks meanwhile.
BatchPrefix ==
    \A r \in Requests :
       LET j == job[r]
       IN  /\ j.relayed \cap j.dropped = {}
           /\ j.status = 202 => Settled(j) = 1..Len(j.items)
           /\ j.status = 400 => Settled(j) = 1..(j.at - 1)

=============================================================================
