------------------------- MODULE RegistryAdminProofs -------------------------
(***************************************************************************)
(* Proofs about RegistryAdmin, for any number of requests, rows, keys and  *)
(* restarts.                                                               *)
(***************************************************************************)
EXTENDS RegistryAdmin, FiniteSetTheorems, TLAPS

-----------------------------------------------------------------------------
(* Types.  They need to know which operation is at which statement: a      *)
(* setting is written with the value of a PUT, a key with that of a role.  *)

Outside == {"idle", "count", "auth", "body"}
Logging == {"log", "unlogged"}

StepInv ==
  \A r \in Requests :
    /\ pc[r] \in Outside => req[r] = NoRequest
    /\ pc[r] \notin {"done", "unlogged"} => answer[r] = "none"
    /\ pc[r] = "count" => caller[r].gate \in {"create_key", "bootstrap"}
    /\ pc[r] = "auth" => caller[r].gate \in {"viewer", "admin", "create_key"}
    /\ pc[r] = "body" => caller[r].gate \in Gates
    /\ pc[r] = "insert" => req[r].op = "create"
    /\ pc[r] \in {"select", "update"} => req[r].op = "update"
    /\ pc[r] = "delete" => req[r].op = "delete"
    /\ pc[r] = "get" => req[r].op \in {"get", "pull"}
    /\ pc[r] \in Logging => req[r].op \in {"create", "update", "delete"}
    /\ pc[r] \in {"write", "store"} => req[r].op = "put"
    /\ pc[r] = "issue" => req[r].op \in {"issue", "bootstrap"}
    /\ pc[r] = "revoke" => req[r].op = "revoke"

TypeInv == TypeOK /\ StepInv

\* What the operations carry.
LEMMA RequestFacts ==
    ASSUME NEW q \in AllRequests
    PROVE  /\ q.op \in {"create", "update", "delete", "get", "pull", "put", "issue",
                         "bootstrap", "revoke"}
           /\ q.op = "put" => q.value \in {"true", "false"}
           /\ q.op \in {"issue", "bootstrap"} => q.value \in Roles
           /\ First(q.op) \in Steps \ (Outside \cup {"update", "log", "store", "done", "unlogged"})
           /\ Gate(q) \in Gates
  <1>1. CASE q \in RowRequests
    <2>1. q.op \in RowOps \cup {"pull"}
      BY <1>1 DEF RowRequests, SourceRoutes, DestinationRoutes, AppForms, DestinationForms,
                  RowRequest, PullRoute
    <2> QED BY <2>1 DEF RowOps, First, Steps, Outside, Gate, Gates
  <1>2. CASE q \in PutRequests
    BY <1>2 DEF PutRequests, First, Steps, Outside, Gate, Gates
  <1>3. CASE q \in KeyRoute \cup KeyForm \cup BootstrapForm
    BY <1>3 DEF KeyRoute, KeyForm, BootstrapForm, Roles, First, Steps, Outside, Gate, Gates
  <1>4. CASE q \in RevokeRoute \cup RevokeForm
    BY <1>4 DEF RevokeRoute, RevokeForm, Revoking, First, Steps, Outside, Gate, Gates
  <1> QED BY <1>1, <1>2, <1>3, <1>4 DEF AllRequests

\* The first statement tells the operation.
LEMMA FirstStep ==
    ASSUME NEW q \in AllRequests
    PROVE  /\ First(q.op) = "insert" => q.op = "create"
           /\ First(q.op) = "select" => q.op = "update"
           /\ First(q.op) = "delete" => q.op = "delete"
           /\ First(q.op) = "get" => q.op \in {"get", "pull"}
           /\ First(q.op) = "write" => q.op = "put"
           /\ First(q.op) = "issue" => q.op \in {"issue", "bootstrap"}
           /\ First(q.op) = "revoke" => q.op = "revoke"
  BY RequestFacts DEF First

LEMMA StandingType ==
    ASSUME KeysTypeOK, NEW t
    PROVE  Standing(t) \in Standings /\ LookupAPIKey(t) \in Roles \cup {"unknown"}
  BY DEF KeysTypeOK, Standing, Standings, LookupAPIKey, KeyRows

LEMMA InitType == Init => TypeInv
  <1> SUFFICES ASSUME Init PROVE TypeInv
    OBVIOUS
  <1>1. KeysTypeOK
    BY DEF Init, KeysInit, KeysTypeOK, Roles
  <1>2. TypeOK
    BY <1>1, AdminAssumption DEF Init, TypeOK, AdminAssumption, Steps, Answers, StartupHooks
  <1>3. StepInv
    BY DEF Init, StepInv, Outside, Logging
  <1> QED BY <1>2, <1>3 DEF TypeInv

\* The history of standings keeps its type whatever becomes of the keys.
LEMMA WitnessType ==
    ASSUME TypeOK, KeysTypeOK', WitnessKeys
    PROVE  stood' \in [Requests -> SUBSET Standings]
  <1>1. \A r \in Requests : stood[r] \cup {Standing(caller[r].token)'} \in SUBSET Standings
    BY DEF TypeOK, KeysTypeOK, Standing, Standings, LookupAPIKey, KeyRows
  <1> QED BY <1>1 DEF TypeOK, WitnessKeys

\* Goto and Return, for the types.
LEMMA MoveType ==
    ASSUME TypeOK, NEW r \in Requests, NEW step \in Steps, NEW err \in Answers,
           Goto(r, step) \/ Return(r, step, err)
    PROVE  /\ pc' \in [Requests -> Steps]
           /\ answer' \in [Requests -> Answers]
           /\ UNCHANGED << caller, req >>
           /\ pc'[r] = step
           /\ \A s \in Requests \ {r} : pc'[s] = pc[s] /\ answer'[s] = answer[s]
  <1>1. Status(req[r], err) \in Answers
    BY DEF Status, Answers
  <1> QED BY <1>1 DEF TypeOK, Goto, Return

\* What a request that only moves on has to show to keep StepInv.
LEMMA MoveInv ==
    ASSUME StepInv, TypeOK, NEW r \in Requests,
           UNCHANGED << caller, req >>,
           \A s \in Requests \ {r} : pc'[s] = pc[s] /\ answer'[s] = answer[s],
           pc'[r] \notin {"done", "unlogged"} => answer'[r] = "none",
           \/ pc'[r] = "done"
           \/ pc'[r] \in Logging /\ req[r].op \in {"create", "update", "delete"}
           \/ pc'[r] = "update" /\ req[r].op = "update"
           \/ pc'[r] = "store" /\ req[r].op = "put"
           \/ pc'[r] = "body" /\ req[r] = NoRequest /\ caller[r].gate \in Gates
           \/ pc'[r] = "auth" /\ req[r] = NoRequest /\ caller[r].gate = "create_key"
    PROVE  StepInv'
  BY DEF StepInv, Outside, Logging

LEMMA RowsType ==
    ASSUME TypeOK, NEW new \in SUBSET Entities, SetRows(new)
    PROVE  rows' \subseteq Entities /\ seen' \in [Requests -> SUBSET BOOLEAN]
  <1>1. ASSUME NEW x \in Requests
        PROVE  seen[x] \cup {req[x].of \in new} \in SUBSET BOOLEAN
    <2>1. seen[x] \in SUBSET BOOLEAN
      BY DEF TypeOK
    <2>2. (req[x].of \in new) \in BOOLEAN
      OBVIOUS
    <2> QED BY <2>1, <2>2, Zenon
  <1>2. seen' \in [Requests -> SUBSET BOOLEAN]
    BY <1>1, Zenon DEF SetRows, TypeOK
  <1> QED BY <1>2 DEF SetRows

\* The actions that read or write rows.
LEMMA RowStepType ==
    ASSUME TypeInv, NEW r \in Requests, Operate(r)
    PROVE  TypeInv'
  <1> USE DEF TypeInv
  <1>1. /\ UNCHANGED << restarts, config, stood, keyVars >>
        /\ audit' \subseteq Requests /\ missed' \subseteq Requests
    BY DEF TypeOK, Operate, Insert, Select, Update, Delete, Get, Log, config
  <1>2. KeysTypeOK'
    BY <1>1 DEF TypeOK, KeysTypeOK, keyVars, Ids
  <1>3. req[r].op \in RowOps => req[r].of \in Entities
    <2>1. req[r] \in AllRequests \cup {NoRequest}
      BY DEF TypeOK
    <2>2. \A q \in PutRequests \cup KeyRoute \cup KeyForm \cup BootstrapForm : q.op \notin RowOps
      BY DEF RowOps, PutRequests, KeyRoute, KeyForm, BootstrapForm
    <2>3. \A q \in RevokeRoute \cup RevokeForm : q.op \notin RowOps
      BY DEF RowOps, RevokeRoute, RevokeForm, Revoking
    <2>5. NoRequest.op \notin RowOps
      BY DEF RowOps, NoRequest
    <2>4. req[r].op \in RowOps => req[r] \in RowRequests
      BY <2>1, <2>2, <2>3, <2>5 DEF AllRequests
    <2> QED BY <2>4 DEF RowRequests
  <1>4. rows' \subseteq Entities /\ seen' \in [Requests -> SUBSET BOOLEAN]
    <2>1. CASE UNCHANGED << rows, seen >>
      BY <2>1 DEF TypeOK
    <2>2. CASE Insert(r) /\ SetRows(rows \cup {req[r].of})
      BY <2>2, <1>3, RowsType DEF TypeOK, Insert, StepInv, RowOps
    <2>3. CASE Delete(r) /\ SetRows(rows \ {req[r].of})
      BY <2>3, RowsType DEF TypeOK
    <2> QED BY <2>1, <2>2, <2>3 DEF Operate, Insert, Select, Update, Delete, Get, Log, Fail
  <1>5. PICK step \in {"log", "unlogged", "update", "done"}, err \in Answers :
          /\ \/ Goto(r, step) /\ step \in {"log", "update"}
             \/ Return(r, step, err) /\ step \in {"done", "unlogged"}
          /\ step \in Logging => req[r].op \in {"create", "update", "delete"}
          /\ step = "update" => req[r].op = "update"
    BY DEF Operate, Insert, Select, Update, Delete, Get, Log, Fail, StepInv, Logging, Answers
  <1>6. /\ pc' \in [Requests -> Steps]
        /\ answer' \in [Requests -> Answers]
        /\ UNCHANGED << caller, req >>
        /\ pc'[r] = step
        /\ \A s \in Requests \ {r} : pc'[s] = pc[s] /\ answer'[s] = answer[s]
    <2>1. step \in Steps
      BY DEF Steps
    <2> QED BY <1>5, <2>1, MoveType
  <1>7. TypeOK'
    BY <1>1, <1>2, <1>4, <1>6 DEF TypeOK, config
  <1>8. pc'[r] \notin {"done", "unlogged"} => answer'[r] = "none"
    BY <1>5, <1>6 DEF Goto, StepInv, Operate, Insert, Select, Update, Delete, Get, Log
  <1>9. StepInv'
    BY <1>5, <1>6, <1>8, MoveInv DEF Logging
  <1> QED BY <1>7, <1>9

\* The actions before a request is let in.
LEMMA GateStepType ==
    ASSUME TypeInv, NEW r \in Requests,
           Begin(r) \/ Accept(r) \/ BadRequest(r) \/ Count(r) \/ Authenticate(r)
    PROVE  TypeInv'
  <1> USE DEF TypeInv
  <1>1. /\ UNCHANGED << rows, audit, restarts, missed, config, keyVars >>
        /\ KeysTypeOK'
    BY DEF TypeOK, Begin, Accept, BadRequest, Count, Authenticate, KeysTypeOK, keyVars
  <1>2. CASE Begin(r)
    <2>1. PICK gate \in Gates, token \in KeyRows \cup {"none"} :
            /\ caller' = [caller EXCEPT ![r] = [gate |-> gate, token |-> token]]
            /\ pc' = [pc EXCEPT ![r] = IF gate \in {"viewer", "admin"} THEN "auth" ELSE "count"]
            /\ stood' = [stood EXCEPT ![r] = {Standing(token)}]
            /\ UNCHANGED << req, answer, seen >>
      BY <1>2 DEF Begin
    <2>2. Standing(token) \in Standings
      BY StandingType DEF TypeOK
    <2>3. token \in Ids \cup {"none"}
      BY DEF KeyRows
    <2>4. caller' \in [Requests -> [gate : Gates, token : Ids \cup {"none"}] \cup {NoCaller}]
      BY <2>1, <2>3 DEF TypeOK
    <2>5. TypeOK'
      BY <1>1, <2>1, <2>2, <2>4 DEF TypeOK, config, Steps
    <2>6. StepInv'
      BY <1>2, <2>1 DEF TypeOK, Begin, StepInv, Outside, Logging, Gates
    <2> QED BY <2>5, <2>6
  <1>3. CASE Accept(r)
    <2>1. PICK q \in AllRequests :
            /\ req' = [req EXCEPT ![r] = q]
            /\ pc' = [pc EXCEPT ![r] = First(q.op)]
            /\ seen' = [seen EXCEPT ![r] = {q.of \in rows}]
            /\ UNCHANGED << caller, answer, stood >>
      BY <1>3 DEF Accept
    <2>2. {q.of \in rows} \in SUBSET BOOLEAN
      <3>1. (q.of \in rows) \in BOOLEAN
        OBVIOUS
      <3> QED BY <3>1, Zenon
    <2>3. seen' \in [Requests -> SUBSET BOOLEAN]
      BY <2>1, <2>2 DEF TypeOK
    <2>4. First(q.op) \in Steps \ (Outside \cup {"update", "log", "store", "done", "unlogged"})
      BY RequestFacts
    <2>5. TypeOK'
      BY <1>1, <2>1, <2>3, <2>4 DEF TypeOK, config
    <2>6. StepInv'
      <3> SUFFICES ASSUME NEW s \in Requests PROVE StepInv!(s)'
        BY DEF StepInv
      <3>1. CASE s = r
        BY <1>3, <2>1, <2>4, <3>1, FirstStep DEF TypeOK, Accept, StepInv, Outside, Logging
      <3>2. CASE s # r
        BY <2>1, <3>2 DEF TypeOK, StepInv
      <3> QED BY <3>1, <3>2
    <2> QED BY <2>5, <2>6
  <1>4. CASE BadRequest(r) \/ Count(r) \/ Authenticate(r)
    <2>1. PICK step \in {"done", "body", "auth"}, err \in Answers :
            /\ \/ Goto(r, step) /\ step \in {"body", "auth"}
               \/ Return(r, step, err) /\ step = "done"
            /\ step # "done" => pc[r] \in {"count", "auth"}
            /\ step = "auth" => caller[r].gate = "create_key"
      BY <1>4 DEF BadRequest, Count, Authenticate, Answers
    <2>2. /\ pc' \in [Requests -> Steps]
          /\ answer' \in [Requests -> Answers]
          /\ UNCHANGED << caller, req >>
          /\ pc'[r] = step
          /\ \A s \in Requests \ {r} : pc'[s] = pc[s] /\ answer'[s] = answer[s]
      <3>1. step \in Steps
        BY DEF Steps
      <3> QED BY <2>1, <3>1, MoveType
    <2>3. UNCHANGED << seen, stood >>
      BY <1>4 DEF BadRequest, Count, Authenticate
    <2>4. TypeOK'
      BY <1>1, <2>2, <2>3 DEF TypeOK, config
    <2>5. pc'[r] \notin {"done", "unlogged"} => answer'[r] = "none"
      BY <2>1, <2>2 DEF Goto, StepInv
    <2>6. step # "done" => req[r] = NoRequest /\ caller[r].gate \in Gates
      BY <2>1 DEF StepInv, Outside, Gates
    <2>7. StepInv'
      BY <2>1, <2>2, <2>5, <2>6, MoveInv
    <2> QED BY <2>4, <2>7
  <1> QED BY <1>2, <1>3, <1>4

\* Keys that are issued or revoked.
LEMMA KeyStepType ==
    ASSUME TypeInv, NEW r \in Requests, Issue(r) \/ Revoke(r)
    PROVE  TypeInv'
  <1> USE DEF TypeInv
  <1>1. UNCHANGED << rows, seen, audit, restarts, missed, config >>
    BY DEF Issue, Revoke
  <1>2. pc[r] = "issue" => req[r].value \in Roles
    <2>1. req[r] \in AllRequests \/ req[r] = NoRequest
      BY DEF TypeOK
    <2>2. NoRequest.op = "none"
      BY DEF NoRequest
    <2>3. pc[r] = "issue" => req[r].op \in {"issue", "bootstrap"}
      BY DEF StepInv
    <2> QED BY <2>1, <2>2, <2>3, RequestFacts
  <1>3. KeysTypeOK'
    BY <1>2 DEF TypeOK, KeysTypeOK, Issue, Revoke, CreateAPIKey, RevokeAPIKey, keyVars
  <1>4. stood' \in [Requests -> SUBSET Standings]
    BY <1>3, WitnessType DEF TypeOK, Issue, Revoke
  <1>5. PICK err \in Answers : Return(r, "done", err)
    BY DEF Issue, Revoke, Answers
  <1>6. /\ pc' \in [Requests -> Steps]
        /\ answer' \in [Requests -> Answers]
        /\ UNCHANGED << caller, req >>
        /\ pc'[r] = "done"
        /\ \A s \in Requests \ {r} : pc'[s] = pc[s] /\ answer'[s] = answer[s]
    <2>1. "done" \in Steps
      BY DEF Steps
    <2> QED BY <1>5, <2>1, MoveType
  <1>7. TypeOK'
    BY <1>1, <1>3, <1>4, <1>6 DEF TypeOK, config
  <1>8. StepInv'
    BY <1>6, MoveInv
  <1> QED BY <1>7, <1>8

\* The setting.
LEMMA SettingStepType ==
    ASSUME TypeInv, NEW r \in Requests, WriteSetting(r) \/ StoreFlag(r)
    PROVE  TypeInv'
  <1> USE DEF TypeInv
  <1>1. UNCHANGED << rows, seen, stood, audit, restarts, missed, startValue, keyVars >>
    BY DEF WriteSetting, StoreFlag, Fail
  <1>2. pc[r] \in {"write", "store"} => req[r].value \in {"true", "false"}
    <2>1. req[r] \in AllRequests \/ req[r] = NoRequest
      BY DEF TypeOK
    <2>2. NoRequest.op = "none"
      BY DEF NoRequest
    <2>3. pc[r] \in {"write", "store"} => req[r].op = "put"
      BY DEF StepInv
    <2> QED BY <2>1, <2>2, <2>3, RequestFacts
  <1>3. /\ setting' \in {"none", "true", "false"}
        /\ hooksEnabled' \in BOOLEAN
        /\ rowBy' \in Requests \cup {"start"}
        /\ flagBy' \in Requests \cup {"start", "config"}
        /\ behind' \subseteq Requests
    BY <1>2 DEF TypeOK, WriteSetting, StoreFlag
  <1>4. KeysTypeOK'
    BY <1>1 DEF TypeOK, KeysTypeOK, keyVars
  <1>5. PICK step \in {"done", "store"}, err \in Answers :
          /\ \/ Goto(r, step) /\ step = "store"
             \/ Return(r, step, err) /\ step = "done"
          /\ pc[r] \in {"write", "store"}
    BY DEF WriteSetting, StoreFlag, Fail, Answers
  <1>6. /\ pc' \in [Requests -> Steps]
        /\ answer' \in [Requests -> Answers]
        /\ UNCHANGED << caller, req >>
        /\ pc'[r] = step
        /\ \A s \in Requests \ {r} : pc'[s] = pc[s] /\ answer'[s] = answer[s]
    <2>1. step \in Steps
      BY DEF Steps
    <2> QED BY <1>5, <2>1, MoveType
  <1>7. TypeOK'
    BY <1>1, <1>3, <1>4, <1>6 DEF TypeOK
  <1>8. pc'[r] \notin {"done", "unlogged"} => answer'[r] = "none"
    BY <1>5, <1>6 DEF Goto, StepInv
  <1>9. step = "store" => req[r].op = "put"
    BY <1>5 DEF StepInv
  <1>10. StepInv'
    BY <1>5, <1>6, <1>8, <1>9, MoveInv
  <1> QED BY <1>7, <1>10

LEMMA ExpireType == TypeInv /\ KeyExpires => TypeInv'
  <1> SUFFICES ASSUME TypeInv, KeyExpires PROVE TypeInv'
    OBVIOUS
  <1>1. KeysTypeOK' /\ UNCHANGED << rows, seen, audit, calls, restarts, missed, config >>
    BY DEF TypeInv, TypeOK, KeyExpires, Expire, KeyRows, KeysTypeOK
  <1>2. stood' \in [Requests -> SUBSET Standings]
    BY <1>1, WitnessType DEF TypeInv, KeyExpires
  <1> QED BY <1>1, <1>2 DEF TypeInv, TypeOK, StepInv, calls, config

LEMMA RestartType == TypeInv /\ Restart => TypeInv'
  <1> SUFFICES ASSUME TypeInv, Restart PROVE TypeInv'
    OBVIOUS
  <1> USE DEF TypeInv
  <1>1. pc' \in [Requests -> Steps]
    BY DEF TypeOK, Restart, Settled, Steps
  <1>2. restarts' \in 0..MaxRestarts
    BY AdminAssumption DEF TypeOK, Restart, AdminAssumption
  <1>3. KeysTypeOK' /\ hooksEnabled' \in BOOLEAN
    BY DEF TypeOK, Restart, KeysTypeOK, keyVars, StartupHooks
  <1>4. TypeOK'
    BY <1>1, <1>2, <1>3 DEF TypeOK, Restart
  <1>5. StepInv'
    BY DEF TypeOK, Restart, StepInv, Settled, Outside, Logging
  <1> QED BY <1>4, <1>5

LEMMA NextType == TypeInv /\ [Next]_vars => TypeInv'
  <1> SUFFICES ASSUME TypeInv, [Next]_vars PROVE TypeInv'
    OBVIOUS
  <1>1. CASE UNCHANGED vars
    BY <1>1 DEF TypeInv, TypeOK, StepInv, KeysTypeOK, vars, calls, config, keyVars
  <1> QED BY <1>1, RowStepType, GateStepType, KeyStepType, SettingStepType, ExpireType,
             RestartType DEF Next, HandleKeys

\* Every variable keeps its type: settings are written with the values of a PUT, keys
\* with roles, whatever the handlers are interrupted by.
THEOREM TypeCorrect == Spec => []TypeOK
  <1>1. TypeInv => TypeOK
    BY DEF TypeInv
  <1> QED BY <1>1, InitType, NextType, PTL DEF Spec

-----------------------------------------------------------------------------
(* The flag and the row of hooks_enabled.  Who has yet to set the flag     *)
(* wrote the row last or is behind; who wrote the row last and has set the *)
(* flag is the last who set it, unless somebody who is behind did so since.*)

HooksInv ==
  /\ \A r \in Requests : pc[r] = "store" => r = rowBy \/ r \in behind
  /\ flagBy \in Requests => pc[flagBy] = "done" /\ hooksEnabled = (req[flagBy].value = "true")
  /\ rowBy \in Requests =>
       /\ pc[rowBy] \in {"store", "done"}
       /\ setting = req[rowBy].value
       /\ pc[rowBy] = "done" /\ req[rowBy].via # "ui" => flagBy = rowBy \/ flagBy \in behind
  /\ rowBy = "start" =>
       /\ behind = {}
       /\ setting # "none" => flagBy = "config" \/ hooksEnabled = (setting = "true")

\* A request that has ended, or has only the flag to write, is left alone by every step
\* but that one.
LEMMA StillRequests ==
    ASSUME TypeInv, NEW r \in Requests,
           Begin(r) \/ Accept(r) \/ BadRequest(r) \/ HandleKeys(r) \/ Operate(r)
    PROVE  /\ UNCHANGED config
           /\ \A s \in Requests : pc[s] \in {"store", "done"}
                                    => pc'[s] = pc[s] /\ req'[s] = req[s]
           /\ \A s \in Requests : pc'[s] = "store" => pc[s] = "store"
  <1> USE DEF TypeInv, TypeOK
  <1>1. pc[r] \notin {"store", "done"} /\ UNCHANGED config
    BY DEF Begin, Accept, BadRequest, HandleKeys, Count, Authenticate, Issue, Revoke,
           Operate, Insert, Select, Update, Delete, Get, Log
  <1>2. \A s \in Requests \ {r} : pc'[s] = pc[s] /\ req'[s] = req[s]
    <2>1. CASE Begin(r) \/ Accept(r)
      BY <2>1 DEF Begin, Accept
    <2>2. CASE \E step, err : Goto(r, step) \/ Return(r, step, err)
      BY <2>2 DEF Goto, Return
    <2>3. BadRequest(r) \/ HandleKeys(r) \/ Operate(r)
            => \E step, err : Goto(r, step) \/ Return(r, step, err)
      <3>1. BadRequest(r) \/ HandleKeys(r) => \E step, err : Goto(r, step) \/ Return(r, step, err)
        BY DEF BadRequest, HandleKeys, Count, Authenticate, Issue, Revoke
      <3>2. Operate(r) => \E step, err : Goto(r, step) \/ Return(r, step, err)
        BY DEF Operate, Insert, Select, Update, Delete, Get, Log, Fail
      <3> QED BY <3>1, <3>2
    <2> QED BY <2>1, <2>2, <2>3
  <1>3. pc'[r] # "store"
    <2>1. CASE Begin(r)
      BY <2>1 DEF Begin
    <2>2. CASE Accept(r)
      BY <2>2, RequestFacts DEF Accept
    <2>3. CASE BadRequest(r) \/ HandleKeys(r)
      BY <2>3 DEF BadRequest, HandleKeys, Count, Authenticate, Issue, Revoke, Goto, Return
    <2>4. CASE Operate(r)
      BY <2>4 DEF Operate, Insert, Select, Update, Delete, Get, Log, Fail, Goto, Return
    <2> QED BY <2>1, <2>2, <2>3, <2>4
  <1> QED BY <1>1, <1>2, <1>3

LEMMA HooksStep == TypeInv /\ HooksInv /\ [Next]_vars => HooksInv'
  <1> SUFFICES ASSUME TypeInv, HooksInv, [Next]_vars PROVE HooksInv'
    OBVIOUS
  <1>1. ASSUME UNCHANGED config,
               \A s \in Requests : pc[s] \in {"store", "done"}
                                     => pc'[s] = pc[s] /\ req'[s] = req[s],
               \A s \in Requests : pc'[s] = "store" => pc[s] = "store"
        PROVE  HooksInv'
    BY <1>1 DEF HooksInv, config
  <1>2. CASE UNCHANGED vars
    BY <1>1, <1>2 DEF vars, calls
  <1>3. CASE KeyExpires
    BY <1>1, <1>3 DEF KeyExpires, calls
  <1>4. ASSUME NEW r \in Requests,
               Begin(r) \/ Accept(r) \/ BadRequest(r) \/ HandleKeys(r) \/ Operate(r)
        PROVE  HooksInv'
    BY <1>1, <1>4, StillRequests
  <1>5. ASSUME NEW r \in Requests, WriteSetting(r) PROVE HooksInv'
    <2>1. pc[r] = "write" /\ \A s \in Requests \ {r} : pc'[s] = pc[s]
      BY <1>5 DEF TypeInv, TypeOK, WriteSetting, Fail, Goto, Return
    <2>2. UNCHANGED << req, hooksEnabled, flagBy >>
      BY <1>5 DEF WriteSetting, Fail, Goto, Return
    <2>3. CASE UNCHANGED << setting, rowBy, behind >> /\ pc'[r] = "done"
      BY <2>1, <2>2, <2>3 DEF HooksInv
    <2>4. CASE /\ setting' = req[r].value /\ rowBy' = r
               /\ behind' = {q \in Requests : pc[q] = "store"} \cup behind
               /\ pc'[r] = "store" \/ (pc'[r] = "done" /\ req[r].via = "ui")
      <3>1. rowBy' \in Requests /\ rowBy' # "start"
        BY <2>4, KeyAssumption DEF KeyAssumption
      <3>2. \A s \in Requests : pc'[s] = "store" => s = rowBy' \/ s \in behind'
        BY <2>1, <2>4
      <3>3. flagBy \in Requests => flagBy # r
        BY <2>1 DEF HooksInv
      <3> QED BY <2>1, <2>2, <2>4, <3>1, <3>2, <3>3 DEF HooksInv
    <2> QED BY <1>5, <2>3, <2>4 DEF WriteSetting, Goto, Return, Fail, TypeInv, TypeOK
  <1>6. ASSUME NEW r \in Requests, StoreFlag(r) PROVE HooksInv'
    <2>1. /\ pc[r] = "store" /\ pc'[r] = "done" /\ UNCHANGED << req, setting, rowBy, behind >>
          /\ hooksEnabled' = (req[r].value = "true") /\ flagBy' = r
          /\ \A s \in Requests \ {r} : pc'[s] = pc[s]
      BY <1>6 DEF TypeInv, TypeOK, StoreFlag, Return
    <2>2. r = rowBy \/ r \in behind
      BY <2>1 DEF HooksInv
    <2>4. rowBy # "start"
      BY <2>2, KeyAssumption DEF HooksInv, KeyAssumption
    <2> QED BY <2>1, <2>2, <2>4 DEF HooksInv
  <1>7. CASE Restart
    <2>1. /\ rowBy' = "start" /\ behind' = {} /\ UNCHANGED setting
          /\ flagBy' \in {"start", "config"}
          /\ flagBy' = "start" => hooksEnabled' = (setting = "true")
          /\ \A s \in Requests : pc'[s] # "store"
      BY <1>7 DEF TypeInv, TypeOK, Restart, StartupHooks, Settled
    <2> QED BY <2>1, KeyAssumption DEF HooksInv, KeyAssumption
  <1> QED BY <1>2, <1>3, <1>4, <1>5, <1>6, <1>7 DEF Next

\* For any number of PUTs, forms and restarts, the flag differs from the row of
\* hooks_enabled only where the row could not be read, the form wrote it, the flag is
\* yet to be set, or a PUT that was overtaken set it last.
THEOREM HooksDifferOnlySo == Spec => []HooksDiffer
  <1>1. Init => HooksInv
    BY KeyAssumption DEF Init, HooksInv, KeyAssumption
  <1>2. TypeInv /\ HooksInv => HooksDiffer
    BY KeyAssumption DEF TypeInv, TypeOK, HooksInv, HooksDiffer, KeyAssumption
  <1> QED BY <1>1, <1>2, InitType, NextType, HooksStep, PTL DEF Spec

-----------------------------------------------------------------------------
(* The audit log and the rows.  Recorded depends on who made a change and  *)
(* on what was asked for: only an INSERT and a DELETE that took effect add *)
(* to it, and a request that is recorded is never asked for anything else. *)

\* The operations on e that made their change, with an entry or without one.
Recorded(op, e) ==
  {r \in Requests : /\ req[r].op = op /\ req[r].of = e
                    /\ r \in audit \/ pc[r] \in {"log", "unlogged"}}

Balanced ==
  \A e \in Entities :
    Cardinality(Recorded("create", e)) - Cardinality(Recorded("delete", e))
      = (IF e \in rows THEN 1 ELSE 0)

InLog(r) == r \in audit \/ pc[r] \in Logging

AuditInv == (\A r \in audit : pc[r] = "done") /\ Balanced

\* Nothing that is recorded changes.
LEMMA SameRecord ==
    ASSUME TypeInv,
           \A s \in Requests : InLog(s)' <=> InLog(s),
           \A s \in Requests : InLog(s) => req'[s] = req[s],
           NEW op, NEW e
    PROVE  Recorded(op, e)' = Recorded(op, e)
  <1>1. \A s \in Requests : s \in Recorded(op, e)' <=> s \in Recorded(op, e)
    BY DEF Recorded, InLog, Logging
  <1> QED BY <1>1 DEF Recorded

\* A change is made, and is recorded.
LEMMA OneMore ==
    ASSUME TypeInv, NEW r \in Requests,
           \A s \in Requests : InLog(s)' <=> InLog(s) \/ s = r,
           ~InLog(r), UNCHANGED req,
           NEW op, NEW e
    PROVE  /\ IsFiniteSet(Recorded(op, e)) /\ Cardinality(Recorded(op, e)) \in Nat
           /\ IF req[r].op = op /\ req[r].of = e
              THEN Cardinality(Recorded(op, e)') = Cardinality(Recorded(op, e)) + 1
              ELSE Recorded(op, e)' = Recorded(op, e)
  <1>1. IsFiniteSet(Recorded(op, e)) /\ Cardinality(Recorded(op, e)) \in Nat
    <2>1. Recorded(op, e) \subseteq Requests
      BY DEF Recorded
    <2> QED BY <2>1, AdminAssumption, FS_Subset, FS_CardinalityType DEF AdminAssumption
  <1>2. r \notin Recorded(op, e)
    BY DEF Recorded, InLog, Logging
  <1>3. CASE req[r].op = op /\ req[r].of = e
    <2>1. Recorded(op, e)' = Recorded(op, e) \cup {r}
      BY <1>3 DEF Recorded, InLog, Logging
    <2>2. Cardinality(Recorded(op, e) \cup {r}) = Cardinality(Recorded(op, e)) + 1
      BY <1>1, <1>2, FS_AddElement
    <2> QED BY <1>1, <1>3, <2>1, <2>2
  <1>4. CASE ~(req[r].op = op /\ req[r].of = e)
    <2>1. Recorded(op, e)' = Recorded(op, e)
      BY <1>4 DEF Recorded, InLog, Logging
    <2> QED BY <1>1, <1>4, <2>1
  <1> QED BY <1>3, <1>4

\* The steps that change no row.
LEMMA QuietBalance ==
    ASSUME TypeInv, AuditInv, UNCHANGED rows,
           \A s \in Requests : InLog(s)' <=> InLog(s),
           \A s \in Requests : InLog(s) => req'[s] = req[s]
    PROVE  Balanced'
  BY SameRecord DEF AuditInv, Balanced

\* A row is made.
LEMMA InsertBalance ==
    ASSUME TypeInv, AuditInv, NEW r \in Requests, Insert(r), req[r].of \notin rows,
           rows' = rows \cup {req[r].of}, Goto(r, "log")
    PROVE  Balanced'
  <1>1. /\ \A s \in Requests : InLog(s)' <=> InLog(s) \/ s = r
        /\ ~InLog(r) /\ UNCHANGED req /\ req[r].op = "create"
    BY DEF TypeInv, TypeOK, StepInv, AuditInv, Insert, Goto, InLog, Logging
  <1>2. SUFFICES ASSUME NEW e \in Entities
                 PROVE  Cardinality(Recorded("create", e)') - Cardinality(Recorded("delete", e)')
                          = (IF e \in rows' THEN 1 ELSE 0)
    BY DEF Balanced
  <1>3. Cardinality(Recorded("create", e)) - Cardinality(Recorded("delete", e))
          = (IF e \in rows THEN 1 ELSE 0)
    BY DEF AuditInv, Balanced
  <1>4. Recorded("delete", e)' = Recorded("delete", e) /\ Cardinality(Recorded("delete", e)) \in Nat
    BY <1>1, OneMore
  <1>5. /\ Cardinality(Recorded("create", e)) \in Nat
        /\ IF req[r].of = e
           THEN Cardinality(Recorded("create", e)') = Cardinality(Recorded("create", e)) + 1
           ELSE Recorded("create", e)' = Recorded("create", e)
    BY <1>1, OneMore
  <1> QED BY <1>3, <1>4, <1>5

\* A row is deleted.
LEMMA DeleteBalance ==
    ASSUME TypeInv, AuditInv, NEW r \in Requests, Delete(r), req[r].of \in rows,
           rows' = rows \ {req[r].of}, Goto(r, "log")
    PROVE  Balanced'
  <1>1. /\ \A s \in Requests : InLog(s)' <=> InLog(s) \/ s = r
        /\ ~InLog(r) /\ UNCHANGED req /\ req[r].op = "delete"
    BY DEF TypeInv, TypeOK, StepInv, AuditInv, Delete, Goto, InLog, Logging
  <1>2. SUFFICES ASSUME NEW e \in Entities
                 PROVE  Cardinality(Recorded("create", e)') - Cardinality(Recorded("delete", e)')
                          = (IF e \in rows' THEN 1 ELSE 0)
    BY DEF Balanced
  <1>3. Cardinality(Recorded("create", e)) - Cardinality(Recorded("delete", e))
          = (IF e \in rows THEN 1 ELSE 0)
    BY DEF AuditInv, Balanced
  <1>4. Recorded("create", e)' = Recorded("create", e) /\ Cardinality(Recorded("create", e)) \in Nat
    BY <1>1, OneMore
  <1>5. /\ Cardinality(Recorded("delete", e)) \in Nat
        /\ IF req[r].of = e
           THEN Cardinality(Recorded("delete", e)') = Cardinality(Recorded("delete", e)) + 1
           ELSE Recorded("delete", e)' = Recorded("delete", e)
    BY <1>1, OneMore
  <1> QED BY <1>3, <1>4, <1>5

\* An update is recorded too, and changes no row.
LEMMA UpdateBalance ==
    ASSUME TypeInv, AuditInv, NEW r \in Requests, Update(r), Goto(r, "log")
    PROVE  Balanced'
  <1>1. /\ \A s \in Requests : InLog(s)' <=> InLog(s) \/ s = r
        /\ ~InLog(r) /\ UNCHANGED << req, rows >> /\ req[r].op = "update"
    BY DEF TypeInv, TypeOK, StepInv, AuditInv, Update, Fail, Goto, InLog, Logging
  <1>2. ASSUME NEW op \in {"create", "delete"}, NEW e
        PROVE  Recorded(op, e)' = Recorded(op, e)
    BY <1>1, <1>2, OneMore
  <1> QED BY <1>1, <1>2 DEF AuditInv, Balanced

LEMMA AuditStep == TypeInv /\ AuditInv /\ [Next]_vars => AuditInv'
  <1> SUFFICES ASSUME TypeInv, AuditInv, [Next]_vars PROVE AuditInv'
    OBVIOUS
  <1>1. ASSUME UNCHANGED << rows, audit, calls >> PROVE AuditInv'
    <2>1. \A s \in Requests : (InLog(s)' <=> InLog(s)) /\ req'[s] = req[s]
      BY <1>1 DEF InLog, calls
    <2>2. Balanced'
      BY <1>1, <2>1, QuietBalance
    <2> QED BY <1>1, <2>2 DEF AuditInv, calls
  <1>2. CASE UNCHANGED vars
    BY <1>1, <1>2 DEF vars
  <1>3. CASE KeyExpires
    BY <1>1, <1>3 DEF KeyExpires
  <1>4. ASSUME NEW r \in Requests, UNCHANGED << rows, audit >>, ~InLog(r),
               pc[r] # "done", pc'[r] \notin Logging,
               \A s \in Requests \ {r} : pc'[s] = pc[s] /\ req'[s] = req[s]
        PROVE  AuditInv'
    <2>1. \A s \in Requests : InLog(s)' <=> InLog(s)
      BY <1>4 DEF InLog
    <2>2. Balanced'
      BY <1>4, <2>1, QuietBalance DEF InLog
    <2>3. \A s \in audit' : pc'[s] = "done"
      BY <1>4 DEF AuditInv, TypeInv, TypeOK
    <2> QED BY <2>2, <2>3 DEF AuditInv
  <1>5. ASSUME NEW r \in Requests, Begin(r) \/ Accept(r) PROVE AuditInv'
    <2>1. ~InLog(r) /\ pc[r] \in {"idle", "body"}
      BY <1>5 DEF Begin, Accept, InLog, Logging, AuditInv
    <2>2. UNCHANGED << rows, audit >> /\ \A s \in Requests \ {r} : pc'[s] = pc[s] /\ req'[s] = req[s]
      BY <1>5 DEF Begin, Accept, TypeInv, TypeOK
    <2>3. pc'[r] \notin Logging
      <3>1. CASE Begin(r)
        BY <3>1 DEF Begin, Logging, TypeInv, TypeOK
      <3>2. CASE Accept(r)
        BY <3>2, RequestFacts DEF Accept, Logging, TypeInv, TypeOK
      <3> QED BY <1>5, <3>1, <3>2
    <2> QED BY <1>4, <2>1, <2>2, <2>3
  <1>6. ASSUME NEW r \in Requests, UNCHANGED << rows, audit >>, ~InLog(r), pc[r] # "done",
               NEW step, NEW err, Goto(r, step) \/ Return(r, step, err), step \notin Logging
        PROVE  AuditInv'
    <2>1. pc'[r] \notin Logging /\ \A s \in Requests \ {r} : pc'[s] = pc[s] /\ req'[s] = req[s]
      BY <1>6 DEF Goto, Return, TypeInv, TypeOK
    <2> QED BY <1>4, <1>6, <2>1
  <1>7. ASSUME NEW r \in Requests,
               BadRequest(r) \/ HandleKeys(r) \/ WriteSetting(r) \/ StoreFlag(r)
        PROVE  AuditInv'
    <2>1. UNCHANGED << rows, audit >>
      BY <1>7 DEF BadRequest, HandleKeys, Count, Authenticate, Issue, Revoke, WriteSetting,
                  StoreFlag, Fail
    <2>2. ~InLog(r) /\ pc[r] # "done"
      BY <1>7 DEF BadRequest, HandleKeys, Count, Authenticate, Issue, Revoke, WriteSetting,
                  StoreFlag, InLog, Logging, AuditInv
    <2>3. \E step \in {"done", "body", "auth", "store"} : \E err :
            Goto(r, step) \/ Return(r, step, err)
      <3>1. CASE BadRequest(r) \/ HandleKeys(r)
        BY <3>1 DEF BadRequest, HandleKeys, Count, Authenticate, Issue, Revoke
      <3>2. CASE WriteSetting(r) \/ StoreFlag(r)
        BY <3>2 DEF WriteSetting, StoreFlag, Fail
      <3> QED BY <1>7, <3>1, <3>2
    <2> QED BY <1>6, <2>1, <2>2, <2>3 DEF Logging
  <1>8. ASSUME NEW r \in Requests, Insert(r) \/ Select(r) \/ Update(r) \/ Delete(r) \/ Get(r)
        PROVE  AuditInv'
    <2>1. ~InLog(r) /\ pc[r] # "done" /\ UNCHANGED audit
      BY <1>8 DEF Insert, Select, Update, Delete, Get, InLog, Logging, AuditInv
    <2>2. CASE UNCHANGED rows /\ \E step, err :
                 (Goto(r, step) \/ Return(r, step, err)) /\ step \notin Logging
      BY <1>6, <2>1, <2>2
    <2>3. CASE Goto(r, "log")
      <3>1. \A s \in audit' : pc'[s] = "done"
        BY <2>1, <2>3 DEF AuditInv, Goto, TypeInv, TypeOK, InLog
      <3>2. Insert(r) => req[r].of \notin rows /\ rows' = rows \cup {req[r].of}
        BY <2>3 DEF Insert, Fail, Goto, Return, SetRows, TypeInv, TypeOK
      <3>3. Delete(r) => req[r].of \in rows /\ rows' = rows \ {req[r].of}
        BY <2>3 DEF Delete, Deletes, Fail, Goto, Return, SetRows, TypeInv, TypeOK
      <3>4. ~Select(r) /\ ~Get(r)
        BY <2>3 DEF Select, Get, Fail, Goto, Return, TypeInv, TypeOK
      <3>5. Balanced'
        BY <1>8, <2>3, <3>2, <3>3, <3>4, InsertBalance, DeleteBalance, UpdateBalance
      <3> QED BY <3>1, <3>5 DEF AuditInv
    <2> QED BY <1>8, <2>2, <2>3 DEF Insert, Select, Update, Delete, Get, Fail, Logging
  <1>9. ASSUME NEW r \in Requests, Log(r) PROVE AuditInv'
    <2>1. pc[r] = "log" /\ UNCHANGED << rows, req >>
      BY <1>9 DEF Log, Return
    <2>2. /\ \A s \in Requests \ {r} : pc'[s] = pc[s] /\ (s \in audit' <=> s \in audit)
          /\ pc'[r] = "unlogged" \/ r \in audit'
          /\ r \in audit' => pc'[r] = "done"
          /\ audit' \subseteq Requests
      BY <1>9 DEF Log, Return, TypeInv, TypeOK, AuditInv
    <2>3. \A s \in Requests : InLog(s)' <=> InLog(s)
      BY <2>1, <2>2 DEF InLog, Logging
    <2>4. Balanced'
      BY <2>1, <2>3, QuietBalance
    <2>5. \A s \in audit' : pc'[s] = "done"
      BY <2>2 DEF AuditInv
    <2> QED BY <2>4, <2>5 DEF AuditInv
  <1>10. CASE Restart
    <2>1. UNCHANGED << rows, audit, req >>
      BY <1>10 DEF Restart
    <2>2. \A s \in Requests : InLog(s)' <=> InLog(s)
      BY <1>10 DEF Restart, InLog, Logging, Settled
    <2>3. \A s \in audit' : pc'[s] = "done"
      BY <1>10 DEF Restart, AuditInv, TypeInv, TypeOK, Settled
    <2>4. Balanced'
      BY <2>1, <2>2, QuietBalance
    <2> QED BY <2>3, <2>4 DEF AuditInv
  <1> QED BY <1>2, <1>3, <1>5, <1>7, <1>8, <1>9, <1>10 DEF Next, Operate

\* Whoever was answered with success has an entry.
Changing == {"create", "update", "delete"}

OkLogged == \A r \in Requests : answer[r] = "ok" /\ req[r].op \in Changing => r \in audit

\* One request is answered.
LEMMA AnswerOk ==
    ASSUME TypeInv, OkLogged, NEW r \in Requests, audit \subseteq audit',
           \A s \in Requests \ {r} : answer'[s] = answer[s] /\ req'[s] = req[s],
           answer'[r] = "ok" /\ req'[r].op \in Changing => r \in audit'
    PROVE  OkLogged'
  BY DEF OkLogged

LEMMA OkStep == TypeInv /\ OkLogged /\ [Next]_vars => OkLogged'
  <1> SUFFICES ASSUME TypeInv, OkLogged, [Next]_vars PROVE OkLogged'
    OBVIOUS
  <1>1. CASE UNCHANGED vars \/ KeyExpires \/ Restart
    <2>1. UNCHANGED << audit, req, answer >>
      BY <1>1 DEF vars, calls, KeyExpires, Restart
    <2> QED BY <2>1 DEF OkLogged
  <1>2. ASSUME NEW r \in Requests, Begin(r) \/ Accept(r) PROVE OkLogged'
    <2>1. /\ UNCHANGED << audit, answer >> /\ answer[r] = "none"
          /\ \A s \in Requests \ {r} : req'[s] = req[s]
      BY <1>2 DEF Begin, Accept, TypeInv, TypeOK, StepInv
    <2> QED BY <2>1, AnswerOk
  <1>3. ASSUME NEW r \in Requests,
               BadRequest(r) \/ HandleKeys(r) \/ WriteSetting(r) \/ StoreFlag(r) \/ Get(r)
        PROVE  OkLogged'
    <2>1. \E step, err : Goto(r, step) \/ Return(r, step, err)
      <3>1. CASE BadRequest(r) \/ HandleKeys(r)
        BY <3>1 DEF BadRequest, HandleKeys, Count, Authenticate, Issue, Revoke
      <3>2. CASE WriteSetting(r) \/ StoreFlag(r) \/ Get(r)
        BY <3>2 DEF WriteSetting, StoreFlag, Get, Fail
      <3> QED BY <1>3, <3>1, <3>2
    <2>2. UNCHANGED << audit, req >> /\ \A s \in Requests \ {r} : answer'[s] = answer[s]
      <3>1. UNCHANGED audit
        BY <1>3 DEF BadRequest, HandleKeys, Count, Authenticate, Issue, Revoke, WriteSetting,
                    StoreFlag, Get
      <3> QED BY <2>1, <3>1 DEF Goto, Return, TypeInv, TypeOK
    <2>3. pc[r] \in {"body", "count", "auth", "issue", "revoke", "write", "store", "get"}
      BY <1>3 DEF BadRequest, HandleKeys, Count, Authenticate, Issue, Revoke, WriteSetting,
                  StoreFlag, Get
    <2>4. req[r].op \notin Changing
      <3>1. NoRequest.op = "none"
        BY DEF NoRequest
      <3> QED BY <2>3, <3>1 DEF TypeInv, StepInv, Outside, Changing
    <2> QED BY <2>2, <2>4, AnswerOk
  <1>4. ASSUME NEW r \in Requests, Insert(r) \/ Select(r) \/ Update(r) \/ Delete(r)
        PROVE  OkLogged'
    <2>1. UNCHANGED audit /\ answer[r] = "none"
      BY <1>4 DEF Insert, Select, Update, Delete, TypeInv, StepInv
    <2>2. \/ \E step : Goto(r, step)
          \/ \E err \in {"error", "not_found"} : Return(r, "done", err)
      BY <1>4 DEF Insert, Select, Update, Delete, Fail
    <2>3. UNCHANGED req /\ \A s \in Requests \ {r} : answer'[s] = answer[s]
      BY <2>2 DEF Goto, Return, TypeInv, TypeOK
    <2>4. answer'[r] # "ok"
      BY <2>1, <2>2 DEF Goto, Return, Status, TypeInv, TypeOK
    <2> QED BY <2>1, <2>3, <2>4, AnswerOk
  <1>5. ASSUME NEW r \in Requests, Log(r) PROVE OkLogged'
    <2>1. UNCHANGED req /\ \A s \in Requests \ {r} : answer'[s] = answer[s]
      BY <1>5 DEF Log, Return, TypeInv, TypeOK
    <2>2. audit \subseteq audit' /\ (answer'[r] = "ok" => r \in audit')
      BY <1>5 DEF Log, Return, Status, TypeInv, TypeOK
    <2> QED BY <2>1, <2>2, AnswerOk
  <1> QED BY <1>1, <1>2, <1>3, <1>4, <1>5 DEF Next, Operate

\* Entries and missing entries are what was recorded, and nothing is both.
LEMMA EntriesAndMissing ==
    ASSUME TypeInv, AuditInv, NEW op, NEW e
    PROVE  /\ Cardinality(Recorded(op, e)) = Cardinality(Entries(op, e)) + Cardinality(Missing(op, e))
           /\ Cardinality(Entries(op, e)) \in Nat /\ Cardinality(Missing(op, e)) \in Nat
  <1>1. Recorded(op, e) = Entries(op, e) \cup Missing(op, e)
    BY DEF Recorded, Entries, Missing, Of
  <1>2. Entries(op, e) \cap Missing(op, e) = {}
    BY DEF Entries, Missing, Of, AuditInv
  <1>3. Entries(op, e) \subseteq Requests /\ Missing(op, e) \subseteq Requests
    BY DEF Entries, Missing, Of
  <1>4. IsFiniteSet(Entries(op, e)) /\ IsFiniteSet(Missing(op, e))
    BY <1>3, AdminAssumption, FS_Subset DEF AdminAssumption
  <1>5. /\ Cardinality(Entries(op, e) \cup Missing(op, e))
             = Cardinality(Entries(op, e)) + Cardinality(Missing(op, e))
               - Cardinality(Entries(op, e) \cap Missing(op, e))
    BY <1>4, FS_Union
  <1>6. /\ Cardinality(Entries(op, e)) \in Nat /\ Cardinality(Missing(op, e)) \in Nat
        /\ Cardinality({}) = 0
    BY <1>4, FS_CardinalityType, FS_EmptySet
  <1>7. Cardinality(Entries(op, e) \cap Missing(op, e)) = 0
    BY <1>2, <1>6
  <1> HIDE DEF Entries, Missing, Recorded
  <1>8. Cardinality(Recorded(op, e)) = Cardinality(Entries(op, e)) + Cardinality(Missing(op, e)) - 0
    BY <1>1, <1>5, <1>7
  <1> QED BY <1>6, <1>8

\* However CreateX and DeleteX interleave, fail and crash, the rows and the audit log
\* differ by the entries that are missing and by nothing else, and no entry is missing
\* of a request that was answered with success.
THEOREM LogOffByTheMissing == Spec => []AuditGaps
  <1>1. Init => AuditInv /\ OkLogged
    <2> SUFFICES ASSUME Init PROVE AuditInv /\ OkLogged
      OBVIOUS
    <2>1. \A op, e : Recorded(op, e) = {}
      BY DEF Init, Recorded
    <2>2. OkLogged
      BY DEF Init, OkLogged
    <2> QED BY <2>1, <2>2, FS_EmptySet DEF Init, AuditInv, Balanced
  <1>2. TypeInv /\ AuditInv /\ OkLogged => AuditGaps
    <2> SUFFICES ASSUME TypeInv, AuditInv, OkLogged PROVE AuditGaps
      OBVIOUS
    <2>1. ASSUME NEW e \in Entities
          PROVE  (IF e \in rows THEN 1 ELSE 0)
                   - (Cardinality(Entries("create", e)) - Cardinality(Entries("delete", e)))
                   = Cardinality(Missing("create", e)) - Cardinality(Missing("delete", e))
      <3>1. Cardinality(Recorded("create", e)) - Cardinality(Recorded("delete", e))
              = (IF e \in rows THEN 1 ELSE 0)
        BY DEF AuditInv, Balanced
      <3>2. /\ Cardinality(Recorded("create", e))
                 = Cardinality(Entries("create", e)) + Cardinality(Missing("create", e))
            /\ Cardinality(Entries("create", e)) \in Nat
            /\ Cardinality(Missing("create", e)) \in Nat
        BY EntriesAndMissing
      <3>3. /\ Cardinality(Recorded("delete", e))
                 = Cardinality(Entries("delete", e)) + Cardinality(Missing("delete", e))
            /\ Cardinality(Entries("delete", e)) \in Nat
            /\ Cardinality(Missing("delete", e)) \in Nat
        BY EntriesAndMissing
      <3> QED BY <3>1, <3>2, <3>3
    <2> QED BY <2>1 DEF AuditGaps, OkLogged, Changing
  <1> QED BY <1>1, <1>2, InitType, NextType, AuditStep, OkStep, PTL DEF Spec

-----------------------------------------------------------------------------
(* Who is let in.  A request that waits at a gate has seen the standing    *)
(* that its token has now, one that is past it a standing that permits.    *)

LetIn(r) ==
  /\ pc[r] \in {"count", "auth"} => Standing(caller[r].token) \in stood[r]
  /\ pc[r] = "body" => stood[r] \cap Permitting(caller[r].gate) # {}
  /\ req[r].op # "none"
       => Gate(req[r]) = caller[r].gate /\ stood[r] \cap Permitting(caller[r].gate) # {}
  /\ answer[r] = "forbidden" => stood[r] \cap (Roles \ Permitting(caller[r].gate)) # {}

AccessInv == \A r \in Requests : LetIn(r)

\* A request that stays where it is, or is past the gate and not told "forbidden" now.
LEMMA SameAccess ==
    ASSUME TypeInv, AccessInv, NEW r \in Requests,
           UNCHANGED << stood, keyVars >> \/ WitnessKeys,
           UNCHANGED << caller, req >>,
           pc'[r] = pc[r] \/ pc'[r] \notin {"count", "auth", "body"},
           answer'[r] = answer[r] \/ answer'[r] # "forbidden"
    PROVE  LetIn(r)'
  <1>1. stood[r] \subseteq stood'[r]
    BY DEF WitnessKeys, TypeInv, TypeOK
  <1>2. pc'[r] \in {"count", "auth"} => Standing(caller[r].token)' \in stood'[r]
    <2>1. CASE WitnessKeys
      BY <2>1 DEF WitnessKeys
    <2>2. CASE UNCHANGED << stood, keyVars >>
      BY <2>2 DEF AccessInv, LetIn, keyVars, Standing, NoKeys, KeyRows, LookupAPIKey
    <2> QED BY <2>1, <2>2
  <1>3. LetIn(r)
    BY DEF AccessInv
  <1> QED BY <1>1, <1>2, <1>3 DEF LetIn

\* A key that is found is permitted when its level is that of the gate's role.
LEMMA AllowsPermits ==
    ASSUME TypeInv, NEW r \in Requests, pc[r] = "auth", LetIn(r)
    PROVE  LET role == LookupAPIKey(caller[r].token)
               gate == caller[r].gate
           IN  /\ Allows(role, MinRole(gate)) => role \in stood[r] \cap Permitting(gate)
               /\ role # "unknown" /\ ~Allows(role, MinRole(gate))
                    => role \in stood[r] \cap (Roles \ Permitting(gate))
  <1> DEFINE role == LookupAPIKey(caller[r].token)
             gate == caller[r].gate
  <1>1. role \in Roles \cup {"unknown"} /\ gate \in {"viewer", "admin", "create_key"}
    BY StandingType DEF TypeInv, TypeOK, StepInv
  <1>2. role # "unknown" => role \in stood[r]
    BY DEF LetIn, Standing, NoKeys, LookupAPIKey
  <1>3. "unknown" \notin Roles
    BY DEF Roles
  <1>4. role \in Roles => (Allows(role, MinRole(gate)) <=> role \in Permitting(gate))
    <2> HIDE DEF role, gate
    <2> QED BY <1>1 DEF Allows, MinRole, Roles, RoleLevel, Permitting
  <1>5. Allows(role, MinRole(gate)) => role \in Roles
    BY DEF Allows
  <1> QED BY <1>1, <1>2, <1>3, <1>4, <1>5

LEMMA GateAccess ==
    ASSUME TypeInv, AccessInv, NEW r \in Requests,
           Begin(r) \/ Accept(r) \/ Count(r) \/ Authenticate(r)
    PROVE  AccessInv'
  <1> USE DEF TypeInv, TypeOK
  <1>1. /\ UNCHANGED keyVars
        /\ \A t : Standing(t)' = Standing(t)
    BY DEF Begin, Accept, Count, Authenticate, keyVars, Standing, NoKeys, KeyRows, LookupAPIKey
  <1>2. ASSUME NEW s \in Requests \ {r} PROVE LetIn(s)'
    <2>1. /\ caller'[s] = caller[s] /\ req'[s] = req[s] /\ pc'[s] = pc[s]
          /\ answer'[s] = answer[s] /\ stood'[s] = stood[s]
      BY DEF Begin, Accept, Count, Authenticate, Goto, Return
    <2>2. LetIn(s)
      BY DEF AccessInv
    <2> QED BY <1>1, <2>1, <2>2 DEF LetIn
  <1>3. CASE Begin(r)
    <2>1. req'[r] = NoRequest /\ answer'[r] = "none"
      BY <1>3 DEF Begin, StepInv, Outside
    <2>2. pc'[r] \in {"count", "auth"} /\ Standing(caller[r].token)' \in stood'[r]
      <3>1. PICK token : caller'[r].token = token /\ stood'[r] = {Standing(token)}
        BY <1>3 DEF Begin
      <3>2. Standing(caller[r].token)' = Standing(token)
        BY <1>1, <3>1 DEF keyVars, Standing, NoKeys, KeyRows, LookupAPIKey
      <3> QED BY <1>3, <3>1, <3>2 DEF Begin
    <2>3. LetIn(r)'
      <3>1. NoRequest.op = "none"
        BY DEF NoRequest
      <3> QED BY <2>1, <2>2, <3>1 DEF LetIn
    <2> QED BY <1>2, <2>3 DEF AccessInv
  <1>4. CASE Accept(r)
    <2>1. /\ UNCHANGED << caller, stood, answer >> /\ answer[r] = "none"
          /\ Gate(req'[r]) = caller[r].gate
          /\ stood[r] \cap Permitting(caller[r].gate) # {}
      BY <1>4 DEF Accept, StepInv, AccessInv, LetIn
    <2>2. pc'[r] \notin {"count", "auth", "body"}
      BY <1>4, RequestFacts DEF Accept, Outside
    <2>3. LetIn(r)'
      BY <2>1, <2>2 DEF LetIn
    <2> QED BY <1>2, <2>3 DEF AccessInv
  <1>5. CASE Count(r)
    <2>1. /\ UNCHANGED << caller, stood, req >> /\ req[r] = NoRequest
          /\ Standing(caller[r].token) \in stood[r]
          /\ caller[r].gate \in {"create_key", "bootstrap"}
      BY <1>5 DEF Count, Goto, Return, StepInv, AccessInv, LetIn, Outside
    <2>2. CASE NoKeys /\ Goto(r, "body")
      <3>1. "open" \in stood[r] \cap Permitting(caller[r].gate)
        BY <2>1, <2>2 DEF Standing, Permitting
      <3> QED BY <1>2, <1>5, <2>1, <2>2, <3>1 DEF Goto, AccessInv, LetIn, Count, StepInv, NoRequest
    <2>3. CASE Goto(r, "auth")
      BY <1>1, <1>2, <1>5, <2>1, <2>3 DEF Goto, AccessInv, LetIn, Count, StepInv, NoRequest
    <2>4. CASE \E err \in {"unauthorized", "error"} : Return(r, "done", err)
      <3>1. pc'[r] = "done" /\ answer'[r] # "forbidden"
        BY <2>4 DEF Return, Status
      <3> QED BY <1>2, <2>1, <3>1 DEF AccessInv, LetIn, NoRequest
    <2> QED BY <1>5, <2>2, <2>3, <2>4 DEF Count
  <1>6. CASE Authenticate(r)
    <2> DEFINE role == LookupAPIKey(caller[r].token)
               gate == caller[r].gate
    <2>1. /\ UNCHANGED << caller, stood, req >> /\ req[r] = NoRequest /\ pc[r] = "auth"
          /\ answer[r] = "none"
      BY <1>6 DEF Authenticate, Goto, Return, StepInv, Outside
    <2>2. /\ Allows(role, MinRole(gate)) => stood[r] \cap Permitting(gate) # {}
          /\ role # "unknown" /\ ~Allows(role, MinRole(gate))
               => stood[r] \cap (Roles \ Permitting(gate)) # {}
      <3>1. LetIn(r)
        BY DEF AccessInv
      <3> QED BY <2>1, <3>1, AllowsPermits
    <2>3. CASE Allows(role, MinRole(gate)) /\ Goto(r, "body")
      BY <1>2, <2>1, <2>2, <2>3 DEF Goto, AccessInv, LetIn, NoRequest
    <2>4. CASE /\ role # "unknown" /\ ~Allows(role, MinRole(gate))
               /\ Return(r, "done", "forbidden")
      BY <1>2, <2>1, <2>2, <2>4 DEF Return, AccessInv, LetIn, NoRequest
    <2>5. CASE Return(r, "done", "unauthorized")
      <3>1. pc'[r] = "done" /\ answer'[r] # "forbidden"
        BY <2>5 DEF Return, Status
      <3> QED BY <1>2, <2>1, <3>1 DEF AccessInv, LetIn, NoRequest
    <2> QED BY <1>6, <2>3, <2>4, <2>5 DEF Authenticate
  <1> QED BY <1>3, <1>4, <1>5, <1>6

\* Once let in, a request is answered by what its statements do: never "forbidden".
LEMMA LaterAccess ==
    ASSUME TypeInv, AccessInv, NEW r \in Requests,
           \/ BadRequest(r) \/ Issue(r) \/ Revoke(r) \/ Operate(r)
           \/ WriteSetting(r) \/ StoreFlag(r)
    PROVE  AccessInv'
  <1>1. UNCHANGED << stood, keyVars >> \/ WitnessKeys
    BY DEF BadRequest, Issue, Revoke, Operate, Insert, Select, Update, Delete, Get, Log,
           WriteSetting, StoreFlag
  <1>2. PICK step \in {"done", "log", "unlogged", "update", "store"},
             err \in {"ok", "error", "not_found", "bad_request"} :
          Goto(r, step) \/ Return(r, step, err)
    <2>1. CASE BadRequest(r) \/ Issue(r) \/ Revoke(r) \/ WriteSetting(r) \/ StoreFlag(r)
      BY <2>1 DEF BadRequest, Issue, Revoke, WriteSetting, StoreFlag, Fail
    <2>2. CASE Operate(r)
      BY <2>2 DEF Operate, Insert, Select, Update, Delete, Get, Log, Fail
    <2> QED BY <2>1, <2>2
  <1>3. /\ UNCHANGED << caller, req >>
        /\ pc'[r] \notin {"count", "auth", "body"}
        /\ answer'[r] = answer[r] \/ answer'[r] # "forbidden"
        /\ \A s \in Requests \ {r} : pc'[s] = pc[s] /\ answer'[s] = answer[s]
    BY <1>2 DEF Goto, Return, Status, TypeInv, TypeOK
  <1>4. \A s \in Requests : LetIn(s)'
    BY <1>1, <1>3, SameAccess
  <1> QED BY <1>4 DEF AccessInv

LEMMA AccessStep == TypeInv /\ AccessInv /\ [Next]_vars => AccessInv'
  <1> SUFFICES ASSUME TypeInv, AccessInv, [Next]_vars PROVE AccessInv'
    OBVIOUS
  <1>1. CASE UNCHANGED vars
    BY <1>1, SameAccess DEF vars, calls, AccessInv
  <1>2. CASE KeyExpires
    BY <1>2, SameAccess DEF KeyExpires, calls, AccessInv
  <1>3. CASE Restart
    <2>1. \A r \in Requests : pc'[r] = pc[r] \/ pc'[r] \notin {"count", "auth", "body"}
      BY <1>3 DEF Restart, Settled
    <2>2. UNCHANGED << stood, keyVars, caller, req, answer >>
      BY <1>3 DEF Restart
    <2> QED BY <2>1, <2>2, SameAccess DEF AccessInv
  <1> QED BY <1>1, <1>2, <1>3, GateAccess, LaterAccess DEF Next, HandleKeys

-----------------------------------------------------------------------------
(* What clients are told.  A request under way has seen its row as it is   *)
(* now; what an earlier statement of it relied on, it has seen too.        *)

Told(r) ==
  /\ answer[r] = "ok" /\ req[r].op = "create" => FALSE \in seen[r]
  /\ answer[r] = "ok" /\ req[r].op \in {"update", "delete", "get", "pull"} => TRUE \in seen[r]
  /\ answer[r] = "not_found" => FALSE \in seen[r]
  /\ r \in missed => seen[r] = BOOLEAN

UnderWay(r) == ~Settled(r) /\ pc[r] \notin Outside

RowsSeen(r) ==
  /\ UnderWay(r) => /\ req[r].of \in rows => TRUE \in seen[r]
                    /\ req[r].of \notin rows => FALSE \in seen[r]
  /\ pc[r] = "update" => TRUE \in seen[r]
  /\ pc[r] = "log" /\ req[r].op = "create" => FALSE \in seen[r]
  /\ pc[r] = "log" /\ req[r].op \in {"update", "delete"} => TRUE \in seen[r]
  /\ r \in missed => pc[r] \notin Outside
  /\ Told(r)

SeenInv == \A r \in Requests : RowsSeen(r)

\* SetRows shows the rows to everybody under way, and nobody forgets.
LEMMA SeenGrows ==
    ASSUME TypeInv, SeenInv, UNCHANGED req,
           UNCHANGED << rows, seen >> \/ \E new : SetRows(new),
           NEW r \in Requests
    PROVE  /\ seen[r] \subseteq seen'[r]
           /\ UnderWay(r) => /\ req[r].of \in rows' => TRUE \in seen'[r]
                             /\ req[r].of \notin rows' => FALSE \in seen'[r]
  <1>1. CASE UNCHANGED << rows, seen >>
    BY <1>1 DEF SeenInv, RowsSeen
  <1>2. ASSUME NEW new, SetRows(new)
        PROVE  /\ seen[r] \subseteq seen'[r]
               /\ UnderWay(r) => /\ req[r].of \in rows' => TRUE \in seen'[r]
                                 /\ req[r].of \notin rows' => FALSE \in seen'[r]
    <2>1. rows' = new /\ seen'[r] = IF Settled(r) THEN seen[r] ELSE seen[r] \cup {req[r].of \in new}
      BY <1>2 DEF SetRows
    <2>2. req[r].of \in new => {req[r].of \in new} = {TRUE}
      BY Zenon
    <2>3. req[r].of \notin new => {req[r].of \in new} = {FALSE}
      <3>1. req[r].of \notin new => (req[r].of \in new) = FALSE
        OBVIOUS
      <3> QED BY <3>1, Zenon
    <2> HIDE DEF SetRows
    <2> QED BY <2>1, <2>2, <2>3 DEF UnderWay
  <1> QED BY <1>1, <1>2

\* A request that stays where it is.
LEMMA SameSeen ==
    ASSUME TypeInv, SeenInv, NEW r \in Requests, req'[r] = req[r], answer'[r] = answer[r],
           \/ pc'[r] = pc[r]
           \/ pc'[r] = "done" /\ pc[r] # "log"
           \/ pc'[r] = "unlogged",
           r \in missed' <=> r \in missed, seen[r] \subseteq seen'[r], seen'[r] \subseteq BOOLEAN,
           UnderWay(r) => /\ req[r].of \in rows' => TRUE \in seen'[r]
                          /\ req[r].of \notin rows' => FALSE \in seen'[r]
    PROVE  RowsSeen(r)'
  <1>1. RowsSeen(r)
    BY DEF SeenInv
  <1>2. UnderWay(r)' => UnderWay(r)
    BY DEF UnderWay, Settled
  <1>3. r \in missed' => seen'[r] = BOOLEAN
    BY <1>1 DEF RowsSeen, Told
  <1> QED BY <1>1, <1>2, <1>3 DEF RowsSeen, Told, Outside

\* What the request that takes a statement of its operation has to show.
LEMMA OperateSeen ==
    ASSUME TypeInv, TypeInv', SeenInv, NEW r \in Requests, Operate(r)
    PROVE  SeenInv'
  <1> USE DEF TypeInv, TypeOK
  <1>1. /\ UNCHANGED req
        /\ \A s \in Requests \ {r} : /\ pc'[s] = pc[s] /\ answer'[s] = answer[s]
                                     /\ s \in missed' <=> s \in missed
        /\ UNCHANGED << rows, seen >> \/ \E new : SetRows(new)
    <2>1. PICK step, err : Goto(r, step) \/ Return(r, step, err)
      BY DEF Operate, Insert, Select, Update, Delete, Get, Log, Fail
    <2>2. \A s \in Requests \ {r} : s \in missed' <=> s \in missed
      BY DEF Operate, Insert, Select, Update, Delete, Get, Log
    <2>3. UNCHANGED << rows, seen >> \/ \E new : SetRows(new)
      BY DEF Operate, Insert, Select, Update, Delete, Get, Log, Fail
    <2> QED BY <2>1, <2>2, <2>3 DEF Goto, Return
  <1>2. \A s \in Requests : /\ seen[s] \subseteq seen'[s] /\ seen'[s] \subseteq BOOLEAN
                            /\ UnderWay(s) => /\ req[s].of \in rows' => TRUE \in seen'[s]
                                              /\ req[s].of \notin rows' => FALSE \in seen'[s]
    BY <1>1, SeenGrows
  <1>3. \A s \in Requests \ {r} : RowsSeen(s)'
    BY <1>1, <1>2, SameSeen
  <1> SUFFICES RowsSeen(r)'
    BY <1>3 DEF SeenInv
  <1>4. /\ UnderWay(r) /\ RowsSeen(r) /\ answer[r] = "none"
        /\ pc[r] \in {"insert", "select", "update", "delete", "get", "log"}
    BY DEF Operate, Insert, Select, Update, Delete, Get, Log, UnderWay, Settled, Outside, SeenInv,
           StepInv
  <1>5. r \in missed' => seen'[r] = BOOLEAN
    <2>1. CASE r \in missed
      BY <1>2, <1>4, <2>1 DEF RowsSeen, Told
    <2>2. CASE r \notin missed /\ r \in missed'
      <3>1. pc[r] = "update" /\ req[r].of \notin rows /\ UNCHANGED << rows, seen >>
        BY <2>2 DEF Operate, Insert, Select, Update, Delete, Get, Log, Fail
      <3>2. TRUE \in seen[r] /\ FALSE \in seen[r]
        BY <1>4, <3>1 DEF RowsSeen
      <3> QED BY <1>2, <3>1, <3>2
    <2> QED BY <2>1, <2>2
  <1>6. ASSUME NEW err, Return(r, "done", err), err \in {"error", "ok", "not_found"},
               err = "ok" /\ req[r].op = "create" => FALSE \in seen'[r],
               err = "ok" /\ req[r].op \in {"update", "delete", "get", "pull"}
                 => TRUE \in seen'[r],
               err = "not_found" => FALSE \in seen'[r]
        PROVE  RowsSeen(r)'
    <2>1. pc'[r] = "done" /\ answer'[r] \in {err, "redirect"} /\ UNCHANGED req
      BY <1>6 DEF Return, Status
    <2> QED BY <1>5, <1>6, <2>1 DEF RowsSeen, Told, UnderWay, Settled, Outside
  <1>7. Fail(r) => RowsSeen(r)'
    BY <1>6 DEF Fail
  <1>8. ASSUME Goto(r, "log"),
               req[r].op = "create" => FALSE \in seen'[r],
               req[r].op \in {"update", "delete"} => TRUE \in seen'[r]
        PROVE  RowsSeen(r)'
    BY <1>2, <1>4, <1>5, <1>8 DEF RowsSeen, Told, UnderWay, Settled, Outside, Goto
  <1>9. /\ req[r].of \in rows => TRUE \in seen'[r]
        /\ req[r].of \notin rows => FALSE \in seen'[r]
    BY <1>2, <1>4 DEF RowsSeen
  <1>10. CASE Insert(r)
    BY <1>7, <1>8, <1>9, <1>10 DEF Insert, StepInv
  <1>11. CASE Select(r)
    <2>1. CASE Updates(r) /\ Goto(r, "update")
      BY <1>2, <1>4, <1>5, <1>9, <2>1 DEF Updates, Goto, RowsSeen, Told, Outside
    <2>2. CASE ~Updates(r) /\ Return(r, "done", "not_found")
      BY <1>6, <1>9, <2>2 DEF Updates
    <2> QED BY <1>7, <1>11, <2>1, <2>2 DEF Select
  <1>12. CASE Update(r)
    BY <1>2, <1>4, <1>7, <1>8, <1>12 DEF Update, RowsSeen, StepInv
  <1>13. CASE Delete(r)
    <2>1. CASE Deletes(r) /\ Goto(r, "log")
      BY <1>8, <1>9, <1>13, <2>1 DEF Deletes, Delete, StepInv
    <2>2. CASE ~Deletes(r) /\ Return(r, "done", "not_found")
      BY <1>6, <1>9, <2>2 DEF Deletes
    <2> QED BY <1>7, <1>13, <2>1, <2>2 DEF Delete
  <1>14. CASE Get(r)
    <2>1. CASE req[r].of \in rows /\ Return(r, "done", "ok")
      BY <1>6, <1>9, <1>14, <2>1 DEF Get, StepInv
    <2>2. CASE req[r].of \notin rows /\ Return(r, "done", "not_found")
      BY <1>6, <1>9, <2>2
    <2> QED BY <1>7, <1>14, <2>1, <2>2 DEF Get
  <1>15. CASE Log(r)
    <2>1. CASE Return(r, "done", "ok")
      BY <1>2, <1>4, <1>6, <1>15, <2>1 DEF Log, RowsSeen, StepInv, Logging
    <2>2. CASE Return(r, "unlogged", "error")
      <3>1. pc'[r] = "unlogged" /\ answer'[r] \in {"error", "redirect"} /\ UNCHANGED req
        BY <2>2 DEF Return, Status
      <3> QED BY <1>5, <3>1 DEF RowsSeen, Told, UnderWay, Settled, Outside
    <2> QED BY <1>15, <2>1, <2>2 DEF Log
  <1> QED BY <1>10, <1>11, <1>12, <1>13, <1>14, <1>15 DEF Operate

\* The actions that concern no row.
LEMMA OtherSeen ==
    ASSUME TypeInv, TypeInv', SeenInv, NEW r \in Requests,
           Begin(r) \/ BadRequest(r) \/ HandleKeys(r) \/ WriteSetting(r) \/ StoreFlag(r)
    PROVE  SeenInv'
  <1> USE DEF TypeInv, TypeOK
  <1>1. UNCHANGED << req, rows, seen, missed >>
    BY DEF Begin, BadRequest, HandleKeys, Count, Authenticate, Issue, Revoke, WriteSetting,
           StoreFlag, Fail, Goto, Return
  <1>2. \A s \in Requests \ {r} : pc'[s] = pc[s] /\ answer'[s] = answer[s]
    <2>1. CASE Begin(r)
      BY <2>1 DEF Begin
    <2>2. CASE \E step, err : Goto(r, step) \/ Return(r, step, err)
      BY <2>2 DEF Goto, Return
    <2>3. CASE BadRequest(r) \/ HandleKeys(r)
      BY <2>2, <2>3 DEF BadRequest, HandleKeys, Count, Authenticate, Issue, Revoke
    <2>4. CASE WriteSetting(r) \/ StoreFlag(r)
      BY <2>2, <2>4 DEF WriteSetting, StoreFlag, Fail
    <2> QED BY <2>1, <2>3, <2>4
  <1>3. \A s \in Requests : /\ seen[s] \subseteq seen'[s] /\ seen'[s] \subseteq BOOLEAN
                            /\ UnderWay(s) => /\ req[s].of \in rows' => TRUE \in seen'[s]
                                              /\ req[s].of \notin rows' => FALSE \in seen'[s]
    BY <1>1, SeenGrows
  <1>4. \A s \in Requests \ {r} : RowsSeen(s)'
    BY <1>1, <1>2, <1>3, SameSeen
  <1> SUFFICES RowsSeen(r)'
    BY <1>4 DEF SeenInv
  <1>5. /\ r \notin missed \/ pc[r] \in {"write", "store", "issue", "revoke"}
        /\ r \in missed => seen[r] = BOOLEAN
    BY DEF Begin, BadRequest, HandleKeys, Count, Authenticate, Issue, Revoke, WriteSetting,
           StoreFlag, SeenInv, RowsSeen, Told, Outside
  <1>6. CASE pc[r] \in Outside
    <2>1. pc'[r] \in Outside \cup {"done"}
      BY <1>6 DEF Begin, BadRequest, HandleKeys, Count, Authenticate, Issue, Revoke,
                  WriteSetting, StoreFlag, Goto, Return, Outside
    <2>2. answer'[r] \notin {"ok", "not_found"}
      BY <1>6 DEF StepInv, Begin, BadRequest, HandleKeys, Count, Authenticate, Issue, Revoke,
                  WriteSetting, StoreFlag, Goto, Return, Status, Outside
    <2>3. r \notin missed'
      BY <1>1, <1>5, <1>6 DEF Outside
    <2> QED BY <2>1, <2>2, <2>3 DEF RowsSeen, Told, UnderWay, Settled, Outside
  <1>7. CASE pc[r] \notin Outside
    <2>1. pc[r] \in {"write", "store", "issue", "revoke"}
      BY <1>7 DEF Begin, BadRequest, HandleKeys, Count, Authenticate, Issue, Revoke,
                  WriteSetting, StoreFlag, Outside
    <2>2. req[r].op \notin {"create", "update", "delete", "get", "pull"}
      BY <2>1 DEF StepInv
    <2>3. pc'[r] \in {"store", "done"}
      BY <2>1 DEF Begin, BadRequest, HandleKeys, Count, Authenticate, Issue, Revoke,
                  WriteSetting, StoreFlag, Fail, Goto, Return
    <2>4. answer'[r] # "not_found"
      <3>1. answer[r] = "none"
        BY <2>1 DEF StepInv
      <3> QED BY <2>1, <3>1 DEF Begin, BadRequest, HandleKeys, Count, Authenticate, Issue,
                  Revoke, WriteSetting, StoreFlag, Fail, Goto, Return, Status
    <2>5. UnderWay(r)
      BY <2>1 DEF UnderWay, Settled, Outside
    <2> QED BY <1>1, <1>3, <1>5, <2>2, <2>3, <2>4, <2>5
            DEF RowsSeen, Told, Outside
  <1> QED BY <1>6, <1>7

LEMMA AcceptSeen ==
    ASSUME TypeInv, TypeInv', SeenInv, NEW r \in Requests, Accept(r)
    PROVE  SeenInv'
  <1> USE DEF TypeInv, TypeOK
  <1>1. PICK q \in AllRequests :
          /\ req' = [req EXCEPT ![r] = q]
          /\ pc' = [pc EXCEPT ![r] = First(q.op)]
          /\ seen' = [seen EXCEPT ![r] = {q.of \in rows}]
    BY DEF Accept
  <1>2. UNCHANGED << rows, answer, missed >> /\ pc[r] = "body" /\ answer[r] = "none"
    BY DEF Accept, StepInv
  <1>3. \A s \in Requests \ {r} : RowsSeen(s)'
    <2>1. \A s \in Requests \ {r} : req'[s] = req[s] /\ pc'[s] = pc[s] /\ seen'[s] = seen[s]
      BY <1>1
    <2> QED BY <1>2, <2>1 DEF SeenInv, RowsSeen, Told, UnderWay, Settled
  <1>4. r \notin missed
    BY <1>2 DEF SeenInv, RowsSeen, Outside
  <1>5. /\ q.of \in rows => TRUE \in seen'[r]
        /\ q.of \notin rows => FALSE \in seen'[r]
    <2>1. q.of \in rows => {q.of \in rows} = {TRUE}
      BY Zenon
    <2>2. q.of \notin rows => {q.of \in rows} = {FALSE}
      <3>1. q.of \notin rows => (q.of \in rows) = FALSE
        OBVIOUS
      <3> QED BY <3>1, Zenon
    <2>3. seen'[r] = {q.of \in rows}
      BY <1>1
    <2> QED BY <2>1, <2>2, <2>3
  <1>6. pc'[r] \notin {"update", "log"}
    BY <1>1, RequestFacts
  <1>7. RowsSeen(r)'
    BY <1>1, <1>2, <1>4, <1>5, <1>6 DEF RowsSeen, Told
  <1> QED BY <1>3, <1>7 DEF SeenInv

LEMMA SeenStep == TypeInv /\ TypeInv' /\ SeenInv /\ [Next]_vars => SeenInv'
  <1> SUFFICES ASSUME TypeInv, TypeInv', SeenInv, [Next]_vars PROVE SeenInv'
    OBVIOUS
  <1>1. CASE UNCHANGED vars \/ KeyExpires
    <2>1. UNCHANGED << rows, seen, missed, req, pc, answer >>
      BY <1>1 DEF vars, calls, KeyExpires
    <2> QED BY <2>1 DEF SeenInv, RowsSeen, Told, UnderWay, Settled
  <1>2. CASE Restart
    <2>1. UNCHANGED << rows, seen, missed, req, answer >>
      BY <1>2 DEF Restart
    <2>2. \A r \in Requests : \/ pc'[r] = pc[r]
                              \/ pc'[r] = "done" /\ pc[r] # "log"
                              \/ pc'[r] = "unlogged"
      BY <1>2 DEF Restart, Settled
    <2>3. \A r \in Requests :
            /\ seen[r] \subseteq seen'[r] /\ seen'[r] \subseteq BOOLEAN
            /\ UnderWay(r) => /\ req[r].of \in rows' => TRUE \in seen'[r]
                              /\ req[r].of \notin rows' => FALSE \in seen'[r]
      BY <2>1, SeenGrows DEF TypeInv, TypeOK
    <2> QED BY <2>1, <2>2, <2>3, SameSeen DEF SeenInv
  <1> QED BY <1>1, <1>2, OperateSeen, OtherSeen, AcceptSeen DEF Next

\* What clients are told was true while their requests ran, for any number of requests
\* on any rows: they were let in with a standing that permits it, refused for one that
\* does not, and what an answer says of a row was so at some time since it was asked.
THEOREM AnswersHold == Spec => []AnswerJustified
  <1>1. Init => AccessInv /\ SeenInv
    <2> SUFFICES ASSUME Init PROVE AccessInv /\ SeenInv
      OBVIOUS
    <2>1. NoRequest.op = "none"
      BY DEF NoRequest
    <2>2. \A r \in Requests : /\ pc[r] = "idle" /\ req[r] = NoRequest /\ answer[r] = "none"
                              /\ r \notin missed
      BY DEF Init
    <2>3. AccessInv
      BY <2>1, <2>2 DEF AccessInv, LetIn
    <2>4. SeenInv
      BY <2>1, <2>2 DEF SeenInv, RowsSeen, Told, UnderWay, Settled
    <2> QED BY <2>3, <2>4
  <1>2. AccessInv /\ SeenInv => AnswerJustified
    BY DEF AccessInv, LetIn, SeenInv, RowsSeen, Told, AnswerJustified
  <1> QED BY <1>1, <1>2, InitType, NextType, AccessStep, SeenStep, PTL DEF Spec

=============================================================================
