-------------------------- MODULE RelayServerProofs --------------------------
(***************************************************************************)
(* Proofs about RelayServer, for any number of requests, sources,          *)
(* publishers, administrators and restarts.                                *)
(***************************************************************************)
EXTENDS RelayServer, TLAPS

-----------------------------------------------------------------------------
(* Types.                                                                  *)

LEMMA EmptyBatch == << >> \in Batches
  <1>1. << >> \in [1..0 -> {"event", "unknown"}]
    OBVIOUS
  <1>2. 0 \in 0..MaxItems
    BY RelayAssumption DEF RelayAssumption
  <1> QED BY <1>1, <1>2, Zenon DEF Batches

LEMMA NoJobType == NoJob \in JobType
  BY EmptyBatch DEF NoJob, JobType

LEMMA StartItemType ==
    ASSUME NEW j \in JobType
    PROVE  StartItem(j) \in JobType
  <1>1. StartItem(j) \in {[j EXCEPT !.status = 202], [j EXCEPT !.at = @ + 1],
                          Refused([j EXCEPT !.at = @ + 1])}
    BY Zenon DEF StartItem
  <1>2. [j EXCEPT !.status = 202] \in JobType
    BY DEF JobType
  <1>3. [j EXCEPT !.at = @ + 1] \in JobType
    BY DEF JobType
  <1>4. \A k \in JobType : Refused(k) \in JobType
    BY DEF Refused, JobType
  <1> QED BY <1>1, <1>2, <1>3, <1>4, Zenon

LEMMA ItemTypes ==
    ASSUME NEW j \in JobType
    PROVE  RefusedItem(j) \in JobType /\ RelayedItem(j) \in JobType /\ DroppedItem(j) \in JobType
  <1>1. RefusedItem(j) \in JobType
    BY DEF RefusedItem, Refused, JobType
  <1>2. [j EXCEPT !.relayed = @ \cup {j.at}] \in JobType
    BY DEF JobType
  <1>3. [j EXCEPT !.dropped = @ \cup {j.at}] \in JobType
    BY DEF JobType
  <1> QED BY <1>1, <1>2, <1>3, StartItemType, Zenon DEF RelayedItem, DroppedItem

\* What a request that is given its turn keeps.
LEMMA ProceedType ==
    ASSUME TypeOK, NEW r \in Requests, NEW j \in JobType, Proceed(r, j)
    PROVE  /\ job' \in [Requests -> JobType]
           /\ hook' \in [Requests -> {"validation", "sampling"}]
           /\ \E t \in {"load", "done"} : pc' = [pc EXCEPT ![r] = t]
  <1>1. job' \in [Requests -> JobType]
    BY DEF TypeOK, RequestsType, Proceed
  <1>2. hook' \in [Requests -> {"validation", "sampling"}]
    BY DEF TypeOK, RequestsType, Proceed
  <1>3. \E t \in {"load", "done"} : pc' = [pc EXCEPT ![r] = t]
    BY Zenon DEF Proceed
  <1> QED BY <1>1, <1>2, <1>3

\* A request whose lookup was answered is no longer in eventLookup.
LEMMA AnswerEffect ==
    ASSUME TypeOK, NEW r \in Requests, NEW v, Answer(r, v)
    PROVE  /\ job' \in [Requests -> JobType]
           /\ hook' \in [Requests -> {"validation", "sampling"}]
           /\ \E t \in {"load", "done"} : pc' = [pc EXCEPT ![r] = t]
           /\ snap' = [snap EXCEPT ![r] = 0]
           /\ late' = [late EXCEPT ![r] = {}]
           /\ UNCHANGED <<source, client>>
  <1>1. job[r] \in JobType
    BY DEF TypeOK, RequestsType
  <1>2. /\ RefusedItem(job[r]) \in JobType
        /\ RelayedItem(job[r]) \in JobType
        /\ DroppedItem(job[r]) \in JobType
    BY <1>1, ItemTypes
  <1>3. snap' = [snap EXCEPT ![r] = 0] /\ late' = [late EXCEPT ![r] = {}] /\ UNCHANGED <<source, client>>
    BY DEF Answer
  <1>4. CASE \E j \in JobType : Proceed(r, j)
    BY <1>3, <1>4, ProceedType, Zenon
  <1>5. CASE /\ hook' = [hook EXCEPT ![r] = "sampling"]
             /\ pc' = [pc EXCEPT ![r] = "load"]
             /\ UNCHANGED job
    <2>1. hook' \in [Requests -> {"validation", "sampling"}] /\ job' \in [Requests -> JobType]
      BY <1>5 DEF TypeOK, RequestsType
    <2> QED BY <1>3, <1>5, <2>1, Zenon
  <1> QED BY <1>2, <1>4, <1>5, Zenon DEF Answer, ValidationBefore, SamplingBefore

LEMMA InitType == Init => TypeOK
  <1> SUFFICES ASSUME Init PROVE TypeOK
    OBVIOUS
  <1>1. hooksEnabled \in BOOLEAN /\ startValue \in BOOLEAN
    BY DEF Init, StartupHooks
  <1>2. defs \in Seq(Kinds) /\ Len(defs) = 0
    BY DEF Init
  <1>3. ServerType
    <2>1. cache \in [ready : BOOLEAN, v : 0..Len(defs)]
      BY <1>2 DEF Init, NoCache
    <2>2. restarts \in 0..MaxRestarts
      BY RelayAssumption DEF Init, RelayAssumption
    <2> QED BY <1>1, <1>2, <2>1, <2>2 DEF Init, ServerType
  <1>4. RequestsType
    BY <1>2, NoJobType DEF Init, RequestsType
  <1>5. PublishersType
    BY <1>2 DEF Init, PublishersType
  <1>6. SettersType
    BY DEF Init, SettersType
  <1> QED BY <1>3, <1>4, <1>5, <1>6 DEF TypeOK

\* The steps that leave a part of the state alone keep its type.
LEMMA ServerFrame ==
    ASSUME ServerType, UNCHANGED <<database, memory, restarts>>
    PROVE  ServerType'
  BY DEF ServerType, database, memory

LEMMA PublishersFrame ==
    ASSUME PublishersType, UNCHANGED <<pub, defs>>
    PROVE  PublishersType'
  BY DEF PublishersType

LEMMA SettersFrame ==
    ASSUME SettersType, UNCHANGED put
    PROVE  SettersType'
  BY DEF SettersType

LEMMA AnswerType ==
    ASSUME TypeOK, NEW r \in Requests, NEW v, Answer(r, v), defs' = defs
    PROVE  RequestsType'
  <1>1. PICK t \in {"load", "done"} : pc' = [pc EXCEPT ![r] = t]
    BY AnswerEffect
  <1>2. /\ job' \in [Requests -> JobType]
        /\ hook' \in [Requests -> {"validation", "sampling"}]
        /\ snap' = [snap EXCEPT ![r] = 0]
        /\ late' = [late EXCEPT ![r] = {}]
        /\ UNCHANGED <<source, client>>
    BY AnswerEffect
  <1>3. 0 \in 0..Len(defs)
    BY DEF TypeOK, ServerType
  <1> QED BY <1>1, <1>2, <1>3 DEF TypeOK, RequestsType

LEMMA BadRequestType ==
    ASSUME TypeOK, NEW r \in Requests, BadRequest(r)
    PROVE  TypeOK'
  <1>1. Refused(NoJob) \in JobType
    BY NoJobType DEF Refused, JobType
  <1>2. PICK t \in {"load", "done"} : pc' = [pc EXCEPT ![r] = t]
    BY <1>1, ProceedType DEF BadRequest
  <1>3. /\ job' \in [Requests -> JobType]
        /\ hook' \in [Requests -> {"validation", "sampling"}]
    BY <1>1, ProceedType DEF BadRequest
  <1>4. UNCHANGED <<source, client, snap, late, database, memory, pub, put, restarts>>
    BY DEF BadRequest
  <1>5. RequestsType'
    BY <1>2, <1>3, <1>4 DEF TypeOK, RequestsType, database
  <1> QED BY <1>4, <1>5, ServerFrame, PublishersFrame, SettersFrame DEF TypeOK, database

LEMMA ClientCachedType ==
    ASSUME TypeOK, NEW r \in Requests, ClientCached(r)
    PROVE  TypeOK'
  <1>1. PICK s \in Sources, items \in Batches :
           LET j == [NoJob EXCEPT !.items = items]
           IN  /\ source' = [source EXCEPT ![r] = s]
               /\ client' = [client EXCEPT ![r] = clients[s]]
               /\ \/ clients[s] # 0 /\ Proceed(r, StartItem(j))
                  \/ /\ clients[s] = 0
                     /\ job' = [job EXCEPT ![r] = j]
                     /\ pc' = [pc EXCEPT ![r] = "build"]
                     /\ UNCHANGED hook
    BY DEF ClientCached
  <1> DEFINE j == [NoJob EXCEPT !.items = items]
  <1>2. j \in JobType
    BY NoJobType DEF JobType
  <1>3. StartItem(j) \in JobType
    BY <1>2, StartItemType
  <1> HIDE DEF j
  <1>4. /\ job' \in [Requests -> JobType]
        /\ hook' \in [Requests -> {"validation", "sampling"}]
        /\ \E t \in {"load", "done", "build"} : pc' = [pc EXCEPT ![r] = t]
    <2>1. CASE Proceed(r, StartItem(j))
      BY <2>1, <1>3, ProceedType
    <2>2. CASE /\ job' = [job EXCEPT ![r] = j]
               /\ pc' = [pc EXCEPT ![r] = "build"]
               /\ UNCHANGED hook
      BY <2>2, <1>2 DEF TypeOK, RequestsType
    <2> QED BY <1>1, <2>1, <2>2 DEF j
  <1>5. /\ source' \in [Requests -> Sources \cup {"none"}]
        /\ client' \in [Requests -> Nat]
    BY <1>1 DEF TypeOK, RequestsType, ServerType
  <1>6. UNCHANGED <<snap, late, database, memory, pub, put, restarts>>
    BY DEF ClientCached
  <1>7. RequestsType'
    <2>1. PICK t \in {"load", "done", "build"} : pc' = [pc EXCEPT ![r] = t]
      BY <1>4
    <2>2. pc' \in [Requests -> {"idle", "build", "load", "read", "list", "install", "done"}]
      BY <2>1 DEF TypeOK, RequestsType
    <2>3. \A q \in Requests : pc'[q] = "build" => source'[q] \in Sources
      BY <1>1, <2>1 DEF TypeOK, RequestsType
    <2> QED BY <1>4, <1>5, <1>6, <2>2, <2>3 DEF TypeOK, RequestsType, database
  <1> QED BY <1>6, <1>7, ServerFrame, PublishersFrame, SettersFrame DEF TypeOK, database

LEMMA ClientBuildType ==
    ASSUME TypeOK, NEW r \in Requests, ClientBuild(r)
    PROVE  TypeOK'
  <1>1. /\ StartItem(job[r]) \in JobType
        /\ \A code \in {400, 500} : [job[r] EXCEPT !.status = code] \in JobType
    <2>1. job[r] \in JobType
      BY DEF TypeOK, RequestsType
    <2> QED BY <2>1, StartItemType DEF JobType
  <1>2. PICK j \in JobType : Proceed(r, j)
    <2>1. CASE Proceed(r, StartItem(job[r]))
      BY <1>1, <2>1, Zenon
    <2>2. ASSUME NEW code \in {400, 500}, Proceed(r, [job[r] EXCEPT !.status = code])
          PROVE  \E j \in JobType : Proceed(r, j)
      <3>1. [job[r] EXCEPT !.status = code] \in JobType
        BY <1>1
      <3> QED BY <2>2, <3>1, Zenon
    <2>3. \/ Proceed(r, StartItem(job[r]))
          \/ \E code \in {400, 500} : Proceed(r, [job[r] EXCEPT !.status = code])
      BY Zenon DEF ClientBuild
    <2> QED BY <2>1, <2>2, <2>3
  <1>3. /\ job' \in [Requests -> JobType]
        /\ hook' \in [Requests -> {"validation", "sampling"}]
        /\ \E t \in {"load", "done"} : pc' = [pc EXCEPT ![r] = t]
    BY <1>2, ProceedType
  <1>4. /\ UNCHANGED <<source, snap, late, database, hooksEnabled, cache, missed, pub, put,
                       restarts>>
        /\ \/ NotBuilt(source[r]) /\ UNCHANGED <<clients, made, client>>
           \/ /\ client' = [client EXCEPT ![r] = clients[source[r]]]
              /\ ~NotBuilt(source[r])
              /\ UNCHANGED <<clients, made>>
           \/ /\ NotBuilt(source[r])
              /\ client' = [client EXCEPT ![r] = made + 1]
              /\ made' = made + 1
              /\ clients' = [clients EXCEPT ![source[r]] = made + 1]
    BY Zenon DEF ClientBuild
  <1>5. clients' \in [Sources -> Nat] /\ made' \in Nat
    BY <1>4 DEF TypeOK, ServerType
  <1>6. client' \in [Requests -> Nat]
    <2>1. clients[source[r]] \in Nat /\ made + 1 \in Nat
      BY DEF TypeOK, ServerType, RequestsType, ClientBuild
    <2> QED BY <1>4, <2>1 DEF TypeOK, RequestsType
  <1>7. RequestsType'
    <2>1. PICK t \in {"load", "done"} : pc' = [pc EXCEPT ![r] = t]
      BY <1>3
    <2>2. /\ pc' \in [Requests -> {"idle", "build", "load", "read", "list", "install", "done"}]
          /\ \A q \in Requests : pc'[q] = "build" => source'[q] \in Sources
      BY <1>4, <2>1 DEF TypeOK, RequestsType
    <2> QED BY <1>3, <1>4, <1>6, <2>2 DEF TypeOK, RequestsType, database
  <1>8. ServerType'
    BY <1>4, <1>5 DEF TypeOK, ServerType, database
  <1> QED BY <1>4, <1>7, <1>8, PublishersFrame, SettersFrame DEF TypeOK, database

LEMMA StepType ==
    ASSUME TypeOK, NEW r \in Requests, NEW t \in {"read", "list", "install"}, Step(r, t),
           snap' = snap \/ snap' = [snap EXCEPT ![r] = Len(defs)], defs' = defs
    PROVE  RequestsType'
  <1>1. Len(defs) \in 0..Len(defs)
    BY DEF TypeOK, ServerType
  <1>2. snap' \in [Requests -> 0..Len(defs)]
    BY <1>1 DEF TypeOK, RequestsType
  <1>3. /\ pc' \in [Requests -> {"idle", "build", "load", "read", "list", "install", "done"}]
        /\ \A q \in Requests : pc'[q] = "build" => source'[q] \in Sources
    BY DEF Step, TypeOK, RequestsType
  <1> QED BY <1>2, <1>3 DEF Step, TypeOK, RequestsType

\* A step of eventLookup, but for the cache.
LookupStep(r) ==
    /\ \/ \E v : Answer(r, v)
       \/ /\ \E t \in {"read", "list", "install"} : Step(r, t)
          /\ snap' = snap \/ snap' = [snap EXCEPT ![r] = Len(defs)]
    /\ UNCHANGED <<database, hooksEnabled, clients, made, pub, put, restarts>>

LEMMA LookupEffect ==
    ASSUME NEW r \in Requests, Lookup(r)
    PROVE  /\ LookupStep(r)
           /\ \/ UNCHANGED <<cache, missed>>
              \/ /\ pc[r] = "install"
                 /\ cache' = [ready |-> TRUE, v |-> snap[r]]
                 /\ missed' = late[r]
  <1>1. CASE LookupToggle(r)
    BY <1>1, Zenon DEF LookupToggle, LookupStep, memory
  <1>2. CASE LookupRead(r)
    BY <1>2, Zenon DEF LookupRead, LookupStep, memory
  <1>3. CASE LookupList(r)
    BY <1>3, Zenon DEF LookupList, LookupStep, memory
  <1>4. CASE LookupInstall(r)
    BY <1>4, Zenon DEF LookupInstall, LookupStep
  <1> QED BY <1>1, <1>2, <1>3, <1>4, Zenon DEF Lookup

LEMMA LookupType ==
    ASSUME TypeOK, NEW r \in Requests, Lookup(r)
    PROVE  TypeOK'
  <1>1. /\ LookupStep(r)
        /\ \/ UNCHANGED <<cache, missed>>
           \/ /\ cache' = [ready |-> TRUE, v |-> snap[r]]
              /\ missed' = late[r]
    BY LookupEffect, Zenon
  <1>2. UNCHANGED <<database, hooksEnabled, clients, made, pub, put, restarts>>
    BY <1>1 DEF LookupStep
  <1>3. defs' = defs
    BY <1>2 DEF database
  <1>4. RequestsType'
    BY <1>1, <1>3, AnswerType, StepType, Zenon DEF LookupStep
  <1>5. ServerType'
    <2>1. snap[r] \in 0..Len(defs)
      BY DEF TypeOK, RequestsType
    <2>2. cache' \in [ready : BOOLEAN, v : 0..Len(defs)]
      <3>1. cache' = cache \/ cache' = [ready |-> TRUE, v |-> snap[r]]
        BY <1>1, Zenon
      <3>2. cache \in [ready : BOOLEAN, v : 0..Len(defs)]
        BY DEF TypeOK, ServerType
      <3>3. [ready |-> TRUE, v |-> snap[r]] \in [ready : BOOLEAN, v : 0..Len(defs)]
        BY <2>1
      <3> QED BY <3>1, <3>2, <3>3, Zenon
    <2>3. missed' \subseteq RegistryPublishers
      BY <1>1 DEF TypeOK, ServerType, RequestsType
    <2> QED BY <1>2, <2>2, <2>3 DEF TypeOK, ServerType, database
  <1> QED BY <1>2, <1>3, <1>4, <1>5, PublishersFrame, SettersFrame DEF TypeOK

LEMMA RequestsFrame ==
    ASSUME RequestsType, UNCHANGED <<requests, defs>>
    PROVE  RequestsType'
  BY DEF RequestsType, requests

LEMMA UpsertType ==
    ASSUME TypeOK, NEW p \in Publishers, PublishUpsert(p)
    PROVE  TypeOK'
  <1>1. UNCHANGED <<audit, setting, startValue, memory, requests, put, restarts>>
    BY DEF PublishUpsert
  <1>2. CASE pub' = [pub EXCEPT ![p].pc = "error"] /\ defs' = defs
    <2>1. PublishersType'
      BY <1>2 DEF TypeOK, PublishersType
    <2> QED BY <1>1, <1>2, <2>1, ServerFrame, RequestsFrame, SettersFrame
            DEF TypeOK, database
  <1>3. ASSUME NEW k \in Kinds, defs' = Append(defs, k),
               pub' = [pub EXCEPT ![p] = [pc |-> "audit", v |-> Publication]]
        PROVE  TypeOK'
    <2>1. defs' \in Seq(Kinds) /\ Len(defs') = Len(defs) + 1 /\ Len(defs) \in Nat
      BY <1>3 DEF TypeOK, ServerType
    <2>2. 0..Len(defs) \subseteq 0..Len(defs') /\ 1..Len(defs) \subseteq 1..Len(defs')
      BY <2>1
    <2>3. ServerType'
      BY <1>1, <2>1, <2>2 DEF TypeOK, ServerType, memory
    <2>4. snap \in [Requests -> 0..Len(defs')]
      BY <2>2 DEF TypeOK, RequestsType
    <2>5. RequestsType'
      BY <1>1, <2>4 DEF TypeOK, RequestsType, requests
    <2>6. Publication \in 0..Len(defs') /\ Publication > 0
      BY <2>1 DEF Publication
    <2>7. PublishersType'
      BY <1>3, <2>2, <2>6 DEF TypeOK, PublishersType
    <2> QED BY <1>1, <2>3, <2>5, <2>7, SettersFrame DEF TypeOK
  <1> QED BY <1>2, <1>3 DEF PublishUpsert

LEMMA AuditType ==
    ASSUME TypeOK, NEW p \in Publishers, PublishAudit(p)
    PROVE  TypeOK'
  <1>1. pub[p].pc = "audit" /\ UNCHANGED <<defs, setting, startValue, memory, requests, put, restarts>>
    BY DEF PublishAudit
  <1>2. pub[p].v \in 1..Len(defs)
    BY <1>1 DEF TypeOK, PublishersType, ServerType
  <1>3. audit' \subseteq 1..Len(defs)
    BY <1>2 DEF PublishAudit, TypeOK, ServerType
  <1>4. ServerType'
    BY <1>1, <1>3 DEF TypeOK, ServerType, memory
  <1>5. PICK t \in {"invalidate", "nil", "error"} :
           /\ pub' = [pub EXCEPT ![p].pc = t]
           /\ t = "invalidate" => p \in RegistryPublishers
    BY DEF PublishAudit, AuditError
  <1>6. PublishersType'
    BY <1>1, <1>2, <1>5 DEF TypeOK, PublishersType
  <1> QED BY <1>1, <1>4, <1>6, RequestsFrame, SettersFrame DEF TypeOK

LEMMA InvalidateType ==
    ASSUME TypeOK, NEW p \in Publishers, PublishInvalidate(p)
    PROVE  TypeOK'
  <1>1. UNCHANGED <<pc, source, client, job, hook, snap, database, hooksEnabled, clients, made,
                    put, restarts>>
    BY DEF PublishInvalidate
  <1>2. cache' \in [ready : BOOLEAN, v : 0..Len(defs)] /\ missed' \subseteq RegistryPublishers
    <2>1. 0 \in 0..Len(defs)
      BY DEF TypeOK, ServerType
    <2> QED BY <2>1 DEF PublishInvalidate, EmptyCache, NoCache
  <1>3. ServerType'
    BY <1>1, <1>2 DEF TypeOK, ServerType, database
  <1>4. late' \in [Requests -> SUBSET RegistryPublishers]
    <2>1. p \in RegistryPublishers
      BY DEF PublishInvalidate, TypeOK, PublishersType
    <2> QED BY <2>1 DEF PublishInvalidate, TypeOK, RequestsType
  <1>5. RequestsType'
    BY <1>1, <1>4 DEF TypeOK, RequestsType, database
  <1>6. PublishersType'
    BY <1>1 DEF PublishInvalidate, TypeOK, PublishersType, database
  <1> QED BY <1>1, <1>3, <1>5, <1>6, SettersFrame DEF TypeOK

LEMMA SetConfigType ==
    ASSUME TypeOK, NEW c \in Setters, SetConfig(c)
    PROVE  TypeOK'
  <1>1. CASE SettingApply(c)
    <2>1. UNCHANGED <<database, cache, clients, made, missed, requests, pub, restarts>>
      BY <1>1 DEF SettingApply
    <2>2. hooksEnabled' \in BOOLEAN
      BY <1>1, Zenon DEF SettingApply
    <2>3. ServerType'
      BY <2>1, <2>2 DEF TypeOK, ServerType, database
    <2>4. SettersType'
      BY <1>1 DEF SettingApply, TypeOK, SettersType
    <2> QED BY <2>1, <2>3, <2>4, RequestsFrame, PublishersFrame DEF TypeOK, database
  <1>2. ASSUME NEW b \in BOOLEAN, SettingWrite(c, b)
        PROVE  TypeOK'
    <2>1. UNCHANGED <<defs, audit, startValue, memory, requests, pub, restarts>>
      BY <1>2 DEF SettingWrite
    <2>2. Value(b) \in {"true", "false"}
      BY DEF Value
    <2>3. setting' \in {"none", "true", "false"}
      BY <1>2, <2>2 DEF SettingWrite, TypeOK, ServerType
    <2>4. ServerType'
      BY <2>1, <2>3 DEF TypeOK, ServerType, memory
    <2>5. SettersType'
      BY <1>2, <2>2 DEF SettingWrite, TypeOK, SettersType
    <2> QED BY <2>1, <2>4, <2>5, RequestsFrame, PublishersFrame DEF TypeOK
  <1> QED BY <1>1, <1>2 DEF SetConfig

LEMMA RestartType ==
    ASSUME TypeOK, Restart
    PROVE  TypeOK'
  <1>1. UNCHANGED <<database, made>> /\ 0 \in 0..Len(defs)
    BY DEF Restart, TypeOK, ServerType
  <1>2. ServerType'
    <2>1. hooksEnabled' \in BOOLEAN
      BY DEF Restart, StartupHooks, TypeOK, ServerType
    <2>2. restarts' \in 0..MaxRestarts
      BY RelayAssumption DEF Restart, RelayAssumption, TypeOK, ServerType
    <2>3. cache' \in [ready : BOOLEAN, v : 0..Len(defs)] /\ missed' \subseteq RegistryPublishers
      BY <1>1 DEF Restart, NoCache
    <2>4. clients' \in [Sources -> Nat]
      BY DEF Restart
    <2> QED BY <1>1, <2>1, <2>2, <2>3, <2>4 DEF TypeOK, ServerType, database
  <1>3. RequestsType'
    BY <1>1, NoJobType DEF Restart, RequestsType, database
  <1>4. PublishersType'
    BY <1>1 DEF Restart, TypeOK, PublishersType, database
  <1>5. SettersType'
    BY DEF Restart, TypeOK, SettersType
  <1> QED BY <1>2, <1>3, <1>4, <1>5 DEF TypeOK

LEMMA NextType == TypeOK /\ [Next]_vars => TypeOK'
  <1> SUFFICES ASSUME TypeOK, [Next]_vars PROVE TypeOK'
    OBVIOUS
  <1>1. CASE UNCHANGED vars
    BY <1>1, ServerFrame, RequestsFrame, PublishersFrame, SettersFrame
       DEF TypeOK, vars, database
  <1>2. ASSUME NEW r \in Requests, Relay(r) PROVE TypeOK'
    BY <1>2, BadRequestType, ClientCachedType, ClientBuildType, LookupType DEF Relay
  <1>3. ASSUME NEW p \in Publishers, Publish(p) PROVE TypeOK'
    BY <1>3, UpsertType, AuditType, InvalidateType DEF Publish
  <1> QED BY <1>1, <1>2, <1>3, SetConfigType, RestartType DEF Next

\* Every variable keeps its type: in particular the audit log, the cache and
\* the lists of the lookups only ever name publications that the store has made.
THEOREM TypeCorrect == Spec => []TypeOK
  BY InitType, NextType, PTL DEF Spec

-----------------------------------------------------------------------------
(* The cache.  CacheLacks is not inductive: what a list that a lookup still *)
(* holds lacks has to be known too, and a lookup without a list has missed *)
(* nothing.                                                                *)

\* The publications that have returned and that a list of v publications lacks.
After(v) == {p \in RegistryPublishers : pub[p].pc = "nil" /\ pub[p].v > v}

HeldLists ==
    \A r \in Requests : late[r] = IF pc[r] = "install" THEN After(snap[r]) ELSE {}

CacheInv == CacheLacks /\ HeldLists

LEMMA CacheInit == Init => CacheInv
  BY DEF Init, CacheInv, CacheLacks, HeldLists, NoCache

\* The last publication covers every other one.
LEMMA NothingAfterLast == TypeOK => After(Len(defs)) = {}
  BY DEF TypeOK, PublishersType, ServerType, After, Publishers

LEMMA CacheFrame ==
    ASSUME CacheInv, UNCHANGED <<cache, missed, pc, snap, late>>, \A v : After(v)' = After(v)
    PROVE  CacheInv'
  <1>1. HeldLists'
    <2>1. \A r \in Requests : After(snap[r])' = After(snap[r])
      BY DEF After
    <2> QED BY <2>1 DEF CacheInv, HeldLists
  <1>2. CacheLacks'
    BY DEF CacheInv, CacheLacks, Lacking, After
  <1> QED BY <1>1, <1>2 DEF CacheInv

LEMMA AfterFrame == UNCHANGED pub => \A v : After(v)' = After(v)
  BY DEF After

\* One request goes on; if it comes to hold a list, the list lacks nothing.
LEMMA HeldFrame ==
    ASSUME TypeOK, CacheInv, NEW r \in Requests, UNCHANGED pub,
           NEW t, pc' = [pc EXCEPT ![r] = t],
           snap' = snap \/ \E n : snap' = [snap EXCEPT ![r] = n],
           \/ late' = [late EXCEPT ![r] = {}]
           \/ late' = late /\ pc[r] # "install",
           t = "install" => After(snap'[r]) = {}
    PROVE  HeldLists'
  <1> SUFFICES ASSUME NEW q \in Requests
               PROVE  late'[q] = IF pc'[q] = "install" THEN After(snap[q])' ELSE {}
    BY DEF HeldLists
  <1>1. CASE q = r
    <2>1. pc'[r] = t
      BY DEF TypeOK, RequestsType
    <2>2. late'[r] = {}
      BY DEF TypeOK, RequestsType, CacheInv, HeldLists
    <2>3. After(snap[r])' = After(snap'[r])
      BY DEF After
    <2> QED BY <1>1, <2>1, <2>2, <2>3
  <1>2. CASE q # r
    <2>1. pc'[q] = pc[q] /\ late'[q] = late[q] /\ snap'[q] = snap[q]
      BY <1>2 DEF TypeOK, RequestsType
    <2>2. After(snap[q])' = After(snap[q])
      BY <2>1 DEF After
    <2> QED BY <2>1, <2>2 DEF CacheInv, HeldLists
  <1> QED BY <1>1, <1>2

LEMMA AnswerHeld ==
    ASSUME TypeOK, CacheInv, NEW r \in Requests, NEW v, Answer(r, v), UNCHANGED pub
    PROVE  HeldLists'
  <1>1. PICK t \in {"load", "done"} : pc' = [pc EXCEPT ![r] = t]
    BY AnswerEffect
  <1>2. snap' = [snap EXCEPT ![r] = 0] /\ late' = [late EXCEPT ![r] = {}]
    BY AnswerEffect
  <1> QED BY <1>1, <1>2, HeldFrame

LEMMA ProceedPc ==
    ASSUME NEW r \in Requests, NEW j, Proceed(r, j)
    PROVE  \E t \in {"load", "done"} : pc' = [pc EXCEPT ![r] = t]
  BY Zenon DEF Proceed

\* Neither clientForSource nor the toggle lets a request install a list.
LEMMA ClientCache ==
    ASSUME TypeOK, CacheInv, NEW r \in Requests,
           BadRequest(r) \/ ClientCached(r) \/ ClientBuild(r)
    PROVE  CacheInv'
  <1>1. UNCHANGED <<cache, missed, pub, snap, late>>
    BY DEF BadRequest, ClientCached, ClientBuild, memory
  <1>2. \E t \in {"load", "done", "build"} : pc' = [pc EXCEPT ![r] = t]
    <2>1. CASE \E j : Proceed(r, j)
      BY <2>1, ProceedPc, Zenon
    <2>2. CASE pc' = [pc EXCEPT ![r] = "build"]
      BY <2>2, Zenon
    <2> QED BY <2>1, <2>2, Zenon DEF BadRequest, ClientCached, ClientBuild
  <1>3. HeldLists'
    <2>1. pc[r] # "install"
      BY DEF BadRequest, ClientCached, ClientBuild
    <2> QED BY <1>1, <1>2, <2>1, HeldFrame
  <1>4. CacheLacks'
    BY <1>1 DEF CacheInv, CacheLacks, Lacking
  <1> QED BY <1>3, <1>4 DEF CacheInv

LEMMA LookupCache ==
    ASSUME TypeOK, CacheInv, NEW r \in Requests, Lookup(r)
    PROVE  CacheInv'
  <1>1. UNCHANGED pub
    BY Zenon DEF Lookup, LookupToggle, LookupRead, LookupList, LookupInstall
  <1>2. HeldLists'
    <2>1. CASE \E v : Answer(r, v)
      BY <1>1, <2>1, AnswerHeld
    <2>2. CASE (Step(r, "read") \/ Step(r, "list")) /\ UNCHANGED snap /\ pc[r] # "install"
      BY <1>1, <2>2, HeldFrame DEF Step
    <2>3. CASE /\ Step(r, "install") /\ snap' = [snap EXCEPT ![r] = Len(defs)]
               /\ pc[r] = "list"
      <3>1. snap'[r] = Len(defs)
        BY <2>3 DEF TypeOK, RequestsType
      <3>2. After(snap'[r]) = {}
        BY <3>1, NothingAfterLast
      <3> QED BY <1>1, <2>3, <3>2, HeldFrame DEF Step
    <2> QED BY <2>1, <2>2, <2>3
            DEF Lookup, LookupToggle, LookupRead, LookupList, LookupInstall
  <1>3. CacheLacks'
    <2>1. CASE UNCHANGED <<cache, missed>>
      BY <1>1, <2>1 DEF CacheInv, CacheLacks, Lacking
    <2>2. CASE /\ pc[r] = "install"
               /\ cache' = [ready |-> TRUE, v |-> snap[r]]
               /\ missed' = late[r]
      <3>1. late[r] = After(snap[r])
        BY <2>2 DEF CacheInv, HeldLists
      <3> QED BY <1>1, <2>2, <3>1 DEF CacheLacks, Lacking, After
    <2> QED BY <2>1, <2>2, LookupEffect, Zenon
  <1> QED BY <1>2, <1>3 DEF CacheInv

\* Emptying the cache: a list that is held comes to lack the publication, if
\* it was stored after the list was read.
LEMMA InvalidateCache ==
    ASSUME TypeOK, CacheInv, NEW p \in Publishers, PublishInvalidate(p)
    PROVE  CacheInv'
  <1>1. p \in RegistryPublishers /\ pub[p].pc = "invalidate"
    BY DEF PublishInvalidate, TypeOK, PublishersType
  <1>2. /\ pub'[p].pc = "nil" /\ pub'[p].v = pub[p].v
        /\ \A q \in RegistryPublishers : q # p => pub'[q] = pub[q]
    BY <1>1 DEF PublishInvalidate, TypeOK, PublishersType, Publishers
  <1>3. \A v : After(v)' = IF pub[p].v > v THEN After(v) \cup {p} ELSE After(v)
    BY <1>1, <1>2 DEF After
  <1>4. HeldLists'
    <2> SUFFICES ASSUME NEW r \in Requests
                 PROVE  late'[r] = IF pc[r] = "install" THEN After(snap[r])' ELSE {}
      BY DEF HeldLists, PublishInvalidate
    <2>1. late[r] = IF pc[r] = "install" THEN After(snap[r]) ELSE {}
      BY DEF CacheInv, HeldLists
    <2>2. late'[r] = IF pc[r] = "install" /\ pub[p].v > snap[r] THEN late[r] \cup {p} ELSE late[r]
      BY DEF PublishInvalidate
    <2>3. snap'[r] = snap[r]
      BY DEF PublishInvalidate
    <2>4. After(snap[r])' = IF pub[p].v > snap[r] THEN After(snap[r]) \cup {p} ELSE After(snap[r])
      BY <1>1, <1>2, <2>3 DEF After
    <2> QED BY <2>1, <2>2, <2>4
  <1>5. CacheLacks'
    BY DEF PublishInvalidate, EmptyCache, NoCache, CacheLacks
  <1> QED BY <1>4, <1>5 DEF CacheInv

LEMMA PublishCache ==
    ASSUME TypeOK, CacheInv, NEW p \in Publishers, Publish(p)
    PROVE  CacheInv'
  <1>1. CASE PublishUpsert(p)
    <2>1. UNCHANGED <<cache, missed, pc, snap, late>>
      BY <1>1 DEF PublishUpsert, memory, requests
    <2>2. \A q \in RegistryPublishers : \/ pub'[q] = pub[q]
                                        \/ pub'[q].pc # "nil" /\ pub[q].pc # "nil"
      BY <1>1 DEF PublishUpsert, TypeOK, PublishersType, Publishers
    <2>3. \A v : After(v)' = After(v)
      BY <2>2 DEF After
    <2> QED BY <2>1, <2>3, CacheFrame
  <1>2. CASE PublishAudit(p)
    <2>1. UNCHANGED <<cache, missed, pc, snap, late>>
      BY <1>2 DEF PublishAudit, memory, requests
    <2>2. \A q \in RegistryPublishers : \/ pub'[q] = pub[q]
                                        \/ pub'[q].pc # "nil" /\ pub[q].pc # "nil"
      BY <1>2 DEF PublishAudit, AuditError, TypeOK, PublishersType, Publishers
    <2>3. \A v : After(v)' = After(v)
      BY <2>2 DEF After
    <2> QED BY <2>1, <2>3, CacheFrame
  <1> QED BY <1>1, <1>2, InvalidateCache DEF Publish

LEMMA NextCache == TypeOK /\ CacheInv /\ [Next]_vars => CacheInv'
  <1> SUFFICES ASSUME TypeOK, CacheInv, [Next]_vars PROVE CacheInv'
    OBVIOUS
  <1>1. CASE UNCHANGED vars
    BY <1>1, CacheFrame, AfterFrame DEF vars, memory, requests
  <1>2. ASSUME NEW r \in Requests, Relay(r) PROVE CacheInv'
    BY <1>2, ClientCache, LookupCache DEF Relay
  <1>3. ASSUME NEW c \in Setters, SetConfig(c) PROVE CacheInv'
    BY <1>3, CacheFrame, AfterFrame DEF SetConfig, SettingApply, SettingWrite, memory, requests
  <1>4. CASE Restart
    BY <1>4 DEF Restart, NoCache, CacheInv, CacheLacks, HeldLists
  <1> QED BY <1>1, <1>2, <1>3, <1>4, PublishCache DEF Next

\* Whatever the interleaving of publications, restarts and lookups, the cache
\* lacks exactly the publications that were stored and returned between the list
\* and the install of the lookup that filled it: the one way in which the comment
\* of Server.PublishEvent does not hold, and there is no other.
THEOREM CacheLacksOnlyTheRace == Spec => []CacheLacks
  <1>1. CacheInv => CacheLacks
    BY DEF CacheInv
  <1> QED BY <1>1, InitType, NextType, CacheInit, NextCache, PTL DEF Spec

-----------------------------------------------------------------------------
(* The audit log: what is on its way to an answer is in it already.        *)

AuditInv == \A p \in Publishers : pub[p].pc \in {"invalidate", "nil"} => pub[p].v \in audit

LEMMA AuditFrame ==
    ASSUME AuditInv, UNCHANGED audit,
           \A p \in Publishers : pub'[p].pc \in {"invalidate", "nil"} =>
                                   /\ pub[p].pc \in {"invalidate", "nil"}
                                   /\ pub'[p].v = pub[p].v
    PROVE  AuditInv'
  BY DEF AuditInv

LEMMA NextAudit == TypeOK /\ AuditInv /\ [Next]_vars => AuditInv'
  <1> SUFFICES ASSUME TypeOK, AuditInv, [Next]_vars PROVE AuditInv'
    OBVIOUS
  <1>1. CASE UNCHANGED <<audit, pub>>
    BY <1>1 DEF AuditInv
  <1>2. ASSUME NEW p \in Publishers, Publish(p) PROVE AuditInv'
    <2>1. CASE PublishUpsert(p)
      BY <2>1, AuditFrame DEF PublishUpsert, TypeOK, PublishersType
    <2>2. CASE PublishAudit(p)
      BY <2>2 DEF PublishAudit, AuditError, AuditInv, TypeOK, PublishersType
    <2>3. CASE PublishInvalidate(p)
      BY <2>3, AuditFrame DEF PublishInvalidate, TypeOK, PublishersType, database
    <2> QED BY <1>2, <2>1, <2>2, <2>3 DEF Publish
  <1>3. CASE Restart
    BY <1>3, AuditFrame DEF Restart, TypeOK, PublishersType, database
  <1>4. ASSUME NEW r \in Requests, Relay(r) PROVE UNCHANGED <<audit, pub>>
    BY <1>4, LookupEffect
       DEF Relay, BadRequest, ClientCached, ClientBuild, LookupStep, database
  <1>5. ASSUME NEW c \in Setters, SetConfig(c) PROVE UNCHANGED <<audit, pub>>
    BY <1>5 DEF SetConfig, SettingApply, SettingWrite, database
  <1>6. UNCHANGED vars => UNCHANGED <<audit, pub>>
    BY DEF vars, database
  <1> QED BY <1>1, <1>2, <1>3, <1>4, <1>5, <1>6 DEF Next

\* A publication is answered with success only when the audit log has it,
\* although the upsert and the log are two statements and either may fail.
THEOREM PublicationsAudited == Spec => []Audited
  <1>1. Init => AuditInv
    BY DEF Init, AuditInv
  <1>2. AuditInv => Audited
    BY DEF AuditInv, Audited
  <1> QED BY <1>1, <1>2, InitType, NextType, NextAudit, PTL DEF Spec

-----------------------------------------------------------------------------
(* The clients.                                                            *)

OwnerInv ==
    \A r \in Requests :
       client[r] # 0 => source[r] \in Sources /\ client[r] = clients[source[r]]

LEMMA CachedOwner ==
    ASSUME TypeOK, OwnerInv, NEW r \in Requests, ClientCached(r)
    PROVE  OwnerInv'
  <1>1. clients' = clients
    BY DEF ClientCached, memory
  <1>2. PICK s \in Sources : /\ source' = [source EXCEPT ![r] = s]
                             /\ client' = [client EXCEPT ![r] = clients[s]]
    BY Zenon DEF ClientCached
  <1> QED BY <1>1, <1>2 DEF OwnerInv, TypeOK, RequestsType

LEMMA BuildOwner ==
    ASSUME TypeOK, OwnerInv, NEW r \in Requests, ClientBuild(r)
    PROVE  OwnerInv'
  <1>1. source' = source /\ source[r] \in Sources
    BY DEF ClientBuild, TypeOK, RequestsType
  <1>2. \/ UNCHANGED <<clients, client>>
        \/ clients' = clients /\ client' = [client EXCEPT ![r] = clients[source[r]]]
        \/ /\ NotBuilt(source[r])
           /\ client' = [client EXCEPT ![r] = made + 1]
           /\ clients' = [clients EXCEPT ![source[r]] = made + 1]
    BY Zenon DEF ClientBuild
  <1>3. CASE UNCHANGED <<clients, client>>
    BY <1>1, <1>3 DEF OwnerInv
  <1>4. CASE clients' = clients /\ client' = [client EXCEPT ![r] = clients[source[r]]]
    BY <1>1, <1>4 DEF OwnerInv, TypeOK, RequestsType
  <1>5. CASE /\ NotBuilt(source[r])
             /\ client' = [client EXCEPT ![r] = made + 1]
             /\ clients' = [clients EXCEPT ![source[r]] = made + 1]
    \* No other request can be using the client that is replaced: there is none.
    BY <1>1, <1>5 DEF NotBuilt, OwnerInv, TypeOK, RequestsType, ServerType
  <1> QED BY <1>2, <1>3, <1>4, <1>5

LEMMA NextOwner == TypeOK /\ OwnerInv /\ [Next]_vars => OwnerInv'
  <1> SUFFICES ASSUME TypeOK, OwnerInv, [Next]_vars PROVE OwnerInv'
    OBVIOUS
  <1>1. CASE UNCHANGED <<clients, client, source>>
    BY <1>1 DEF OwnerInv
  <1>2. ASSUME NEW r \in Requests, Lookup(r) PROVE UNCHANGED <<clients, client, source>>
    BY <1>2, LookupEffect, Zenon DEF LookupStep, Answer, Step
  <1>7. ASSUME NEW r \in Requests, BadRequest(r) PROVE UNCHANGED <<clients, client, source>>
    BY <1>7 DEF BadRequest, memory
  <1>3. ASSUME NEW p \in Publishers, Publish(p) PROVE UNCHANGED <<clients, client, source>>
    BY <1>3 DEF Publish, PublishUpsert, PublishAudit, PublishInvalidate, memory, requests
  <1>4. ASSUME NEW c \in Setters, SetConfig(c) PROVE UNCHANGED <<clients, client, source>>
    BY <1>4 DEF SetConfig, SettingApply, SettingWrite, memory, requests
  <1>5. CASE Restart
    BY <1>5 DEF Restart, OwnerInv
  <1>6. UNCHANGED vars => UNCHANGED <<clients, client, source>>
    BY DEF vars, memory, requests
  <1> QED BY <1>1, <1>2, <1>3, <1>4, <1>5, <1>6, <1>7, CachedOwner, BuildOwner
         DEF Next, Relay

\* Requests of the same source never end up with two clients, however many of
\* them find the map empty at the same time.
THEOREM ClientsShared == Spec => []OneClientPerSource
  <1>1. Init => OwnerInv
    BY DEF Init, OwnerInv
  <1>2. OwnerInv => OneClientPerSource
    BY DEF OwnerInv, OneClientPerSource
  <1> QED BY <1>1, <1>2, InitType, NextType, NextOwner, PTL DEF Spec

-----------------------------------------------------------------------------
(* The items of a batch.                                                   *)

\* What BatchPrefix says of one request.
Ordered(j) ==
    /\ j.relayed \cap j.dropped = {}
    /\ j.status = 202 => Settled(j) = 1..Len(j.items)
    /\ j.status = 400 => Settled(j) = 1..(j.at - 1)

\* The items up to at, or those before it, are settled and the job goes on.
Ready(j) ==
    /\ j.status = 0
    /\ j.at \in 0..Len(j.items)
    /\ j.relayed \cap j.dropped = {}
    /\ Settled(j) = 1..j.at

Current(j) ==
    /\ j.status = 0
    /\ j.at \in 1..Len(j.items)
    /\ j.relayed \cap j.dropped = {}
    /\ Settled(j) = 1..(j.at - 1)

InLookup == {"load", "read", "list", "install"}

JobInv ==
    \A r \in Requests :
       /\ Ordered(job[r])
       /\ pc[r] = "build" => Ready(job[r]) /\ job[r].at = 0
       /\ pc[r] \in InLookup => Current(job[r])

LEMMA BatchLen == \A items \in Batches : Len(items) \in Nat
  BY DEF Batches

\* Starting the item after the settled ones ends the job in order or makes
\* that item the current one.
LEMMA StartItemOrder ==
    ASSUME NEW j \in JobType, Ready(j)
    PROVE  LET k == StartItem(j) IN Ordered(k) /\ (k.status = 0 => Current(k))
  <1>1. Len(j.items) \in Nat /\ j.at \in Nat
    BY BatchLen DEF JobType
  <1>2. CASE j.at = Len(j.items)
    <2>1. StartItem(j) = [j EXCEPT !.status = 202]
      BY <1>2 DEF StartItem
    <2> QED BY <1>2, <2>1 DEF Ready, Ordered, Settled, JobType
  <1>3. CASE j.at # Len(j.items)
    <2>1. CASE j.items[j.at + 1] = "unknown"
      <3>1. StartItem(j) = [[j EXCEPT !.at = @ + 1] EXCEPT !.status = 400]
        BY <1>3, <2>1 DEF StartItem, Refused
      <3> QED BY <1>1, <3>1 DEF Ready, Ordered, Settled, JobType
    <2>2. CASE j.items[j.at + 1] # "unknown"
      <3>1. StartItem(j) = [j EXCEPT !.at = @ + 1]
        BY <1>3, <2>2 DEF StartItem
      <3> QED BY <1>1, <1>3, <3>1 DEF Ready, Ordered, Current, Settled, JobType
    <2> QED BY <2>1, <2>2
  <1> QED BY <1>2, <1>3

\* The same for an item that is refused, relayed or sampled out.
LEMMA ItemOrder ==
    ASSUME NEW j \in JobType, Current(j),
           NEW k \in {RefusedItem(j), RelayedItem(j), DroppedItem(j)}
    PROVE  Ordered(k) /\ (k.status = 0 => Current(k))
  <1>1. Len(j.items) \in Nat /\ j.at \in Nat
    BY BatchLen DEF JobType
  <1>2. CASE k = RefusedItem(j)
    BY <1>2 DEF RefusedItem, Refused, Current, Ordered, Settled, JobType
  <1>3. CASE k = RelayedItem(j)
    <2> DEFINE m == [j EXCEPT !.relayed = @ \cup {j.at}]
    <2>1. m \in JobType
      BY DEF JobType
    <2>2. Ready(m)
      BY <1>1 DEF Current, Ready, Settled, JobType
    <2> HIDE DEF m
    <2> QED BY <1>3, <2>1, <2>2, StartItemOrder DEF RelayedItem, m
  <1>4. CASE k = DroppedItem(j)
    <2> DEFINE m == [j EXCEPT !.dropped = @ \cup {j.at}]
    <2>1. m \in JobType
      BY DEF JobType
    <2>2. Ready(m)
      BY <1>1 DEF Current, Ready, Settled, JobType
    <2> HIDE DEF m
    <2> QED BY <1>4, <2>1, <2>2, StartItemOrder DEF DroppedItem, m
  <1> QED BY <1>2, <1>3, <1>4

\* A request that proceeds with such a job keeps the invariant.
LEMMA ProceedOrder ==
    ASSUME TypeOK, JobInv, NEW r \in Requests, NEW j, Proceed(r, j),
           Ordered(j) /\ (j.status = 0 => Current(j))
    PROVE  JobInv'
  <1> SUFFICES ASSUME NEW q \in Requests
               PROVE  /\ Ordered(job'[q])
                      /\ pc'[q] = "build" => Ready(job'[q]) /\ job'[q].at = 0
                      /\ pc'[q] \in InLookup => Current(job'[q])
    BY DEF JobInv, Ordered, Ready, Current, Settled
  <1>1. CASE q = r
    <2>1. job'[q] = j /\ pc'[q] = (IF j.status = 0 THEN "load" ELSE "done")
      BY <1>1 DEF Proceed, TypeOK, RequestsType
    <2> QED BY <2>1 DEF InLookup
  <1>2. CASE q # r
    BY <1>2 DEF Proceed, TypeOK, RequestsType, JobInv
  <1> QED BY <1>1, <1>2

LEMMA BadRequestOrder ==
    ASSUME TypeOK, JobInv, NEW r \in Requests, BadRequest(r)
    PROVE  JobInv'
  <1>1. Ordered(Refused(NoJob)) /\ Refused(NoJob).status # 0
    BY DEF Refused, NoJob, Ordered, Settled
  <1> QED BY <1>1, ProceedOrder DEF BadRequest

LEMMA CachedOrder ==
    ASSUME TypeOK, JobInv, NEW r \in Requests, ClientCached(r)
    PROVE  JobInv'
  <1>1. PICK items \in Batches :
           LET j == [NoJob EXCEPT !.items = items]
           IN  \/ Proceed(r, StartItem(j))
               \/ /\ job' = [job EXCEPT ![r] = j]
                  /\ pc' = [pc EXCEPT ![r] = "build"]
    BY Zenon DEF ClientCached
  <1> DEFINE j == [NoJob EXCEPT !.items = items]
  <1>2. j \in JobType
    BY NoJobType DEF JobType
  <1>3. Ready(j) /\ Ordered(j) /\ j.at = 0
    BY BatchLen DEF NoJob, Ready, Ordered, Settled
  <1> HIDE DEF j
  <1>4. CASE Proceed(r, StartItem(j))
    BY <1>2, <1>3, <1>4, StartItemOrder, ProceedOrder
  <1>5. CASE job' = [job EXCEPT ![r] = j] /\ pc' = [pc EXCEPT ![r] = "build"]
    <2> SUFFICES ASSUME NEW q \in Requests
                 PROVE  /\ Ordered(job'[q])
                        /\ pc'[q] = "build" => Ready(job'[q]) /\ job'[q].at = 0
                        /\ pc'[q] \in InLookup => Current(job'[q])
      BY DEF JobInv, Ordered, Ready, Current, Settled
    <2>1. CASE q = r
      BY <1>3, <1>5, <2>1 DEF TypeOK, RequestsType, InLookup
    <2>2. CASE q # r
      BY <1>5, <2>2 DEF TypeOK, RequestsType, JobInv
    <2> QED BY <2>1, <2>2
  <1> QED BY <1>1, <1>4, <1>5 DEF j

LEMMA BuildOrder ==
    ASSUME TypeOK, JobInv, NEW r \in Requests, ClientBuild(r)
    PROVE  JobInv'
  <1>1. pc[r] = "build" /\ job[r] \in JobType
    BY DEF ClientBuild, TypeOK, RequestsType
  <1>2. Ready(job[r]) /\ job[r].at = 0
    BY <1>1 DEF JobInv
  <1>3. CASE Proceed(r, StartItem(job[r]))
    BY <1>1, <1>2, <1>3, StartItemOrder, ProceedOrder
  <1>4. ASSUME NEW code \in {400, 500}, Proceed(r, [job[r] EXCEPT !.status = code])
        PROVE  JobInv'
    <2> DEFINE j == [job[r] EXCEPT !.status = code]
    <2>1. /\ j.status = code /\ j.at = job[r].at
          /\ j.relayed = job[r].relayed /\ j.dropped = job[r].dropped
      BY <1>1 DEF JobType
    <2>2. Ordered(j) /\ j.status # 0
      BY <1>2, <2>1 DEF Ready, Ordered, Settled
    <2> HIDE DEF j
    <2>3. Proceed(r, j)
      BY <1>4, Zenon DEF j
    <2> QED BY <2>2, <2>3, ProceedOrder
  <1>5. \/ Proceed(r, StartItem(job[r]))
        \/ \E code \in {400, 500} : Proceed(r, [job[r] EXCEPT !.status = code])
    BY Zenon DEF ClientBuild
  <1> QED BY <1>3, <1>4, <1>5

\* A request that stays in the lookup of its current item.
LEMMA LoopOrder ==
    ASSUME TypeOK, JobInv, NEW r \in Requests, pc[r] \in InLookup,
           NEW t \in InLookup, pc' = [pc EXCEPT ![r] = t], UNCHANGED job
    PROVE  JobInv'
  <1> SUFFICES ASSUME NEW q \in Requests
               PROVE  /\ Ordered(job'[q])
                      /\ pc'[q] = "build" => Ready(job'[q]) /\ job'[q].at = 0
                      /\ pc'[q] \in InLookup => Current(job'[q])
    BY DEF JobInv, Ordered, Ready, Current, Settled
  <1>1. pc'[q] = "build" => pc[q] = "build"
    BY DEF TypeOK, RequestsType, InLookup
  <1>2. pc'[q] \in InLookup => pc[q] \in InLookup
    BY DEF TypeOK, RequestsType
  <1> QED BY <1>1, <1>2 DEF JobInv

LEMMA LookupOrder ==
    ASSUME TypeOK, JobInv, NEW r \in Requests, Lookup(r)
    PROVE  JobInv'
  <1>1. pc[r] \in InLookup
    BY Zenon DEF Lookup, LookupToggle, LookupRead, LookupList, LookupInstall, InLookup
  <1>2. Current(job[r]) /\ job[r] \in JobType
    BY <1>1 DEF JobInv, TypeOK, RequestsType
  <1>3. CASE \E t \in {"read", "list", "install"} : Step(r, t)
    BY <1>1, <1>3, LoopOrder DEF Step, InLookup
  <1>4. ASSUME NEW v, Answer(r, v) PROVE JobInv'
    <2>1. CASE pc' = [pc EXCEPT ![r] = "load"] /\ UNCHANGED job
      BY <1>1, <2>1, LoopOrder DEF InLookup
    <2>2. CASE \E k \in {RefusedItem(job[r]), RelayedItem(job[r]), DroppedItem(job[r])} :
                  Proceed(r, k)
      BY <1>2, <2>2, ItemOrder, ProceedOrder
    <2> QED BY <1>4, <2>1, <2>2, Zenon DEF Answer, ValidationBefore, SamplingBefore
  <1> QED BY <1>3, <1>4, LookupEffect, Zenon DEF LookupStep

LEMMA NextOrder == TypeOK /\ JobInv /\ [Next]_vars => JobInv'
  <1> SUFFICES ASSUME TypeOK, JobInv, [Next]_vars PROVE JobInv'
    OBVIOUS
  <1>1. CASE UNCHANGED <<pc, job>>
    BY <1>1 DEF JobInv, Ordered, Ready, Current, Settled
  <1>2. ASSUME NEW p \in Publishers, Publish(p) PROVE UNCHANGED <<pc, job>>
    BY <1>2 DEF Publish, PublishUpsert, PublishAudit, PublishInvalidate, requests
  <1>3. ASSUME NEW c \in Setters, SetConfig(c) PROVE UNCHANGED <<pc, job>>
    BY <1>3 DEF SetConfig, SettingApply, SettingWrite, requests
  <1>4. CASE Restart
    BY <1>4 DEF Restart, NoJob, JobInv, Ordered, Ready, Current, Settled, InLookup
  <1>5. UNCHANGED vars => UNCHANGED <<pc, job>>
    BY DEF vars, requests
  <1> QED BY <1>1, <1>2, <1>3, <1>4, <1>5, BadRequestOrder, CachedOrder, BuildOrder, LookupOrder
         DEF Next, Relay

\* Whatever is published, toggled or restarted while a batch is relayed, its
\* items are settled in order, each once, up to the one that ends the batch.
THEOREM BatchInOrder == Spec => []BatchPrefix
  <1>1. Init => JobInv
    <2>1. Ordered(NoJob)
      BY DEF NoJob, Ordered
    <2>2. Init => pc = [r \in Requests |-> "idle"] /\ job = [r \in Requests |-> NoJob]
      BY Zenon DEF Init
    <2> QED BY <2>1, <2>2 DEF JobInv, InLookup
  <1>2. JobInv => BatchPrefix
    BY DEF JobInv, Ordered, BatchPrefix
  <1> QED BY <1>1, <1>2, InitType, NextType, NextOrder, PTL DEF Spec
=============================================================================
