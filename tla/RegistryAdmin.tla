---------------------------- MODULE RegistryAdmin ----------------------------
(***************************************************************************)
(* Administration of the registry server: sources, destinations, API keys  *)
(* and the hooks_enabled setting, through the API and through the forms of *)
(* the admin UI (registry/server/auth.go, handlers_sources.go,             *)
(* handlers_destinations.go, handlers_admin.go, ui/handler_auth.go,        *)
(* ui/handler_apps.go, ui/handler_destinations.go, ui/handler_admin.go,    *)
(* store_sql.go).                                                          *)
(*                                                                         *)
(* Every request runs in a goroutine of its own and every step of it is    *)
(* one SQL statement or one atomic store: no operation is a transaction.   *)
(* A statement may fail, and then has no effect.  Definitions and row ids  *)
(* are abstracted away: a row is there or it is not.                       *)
(***************************************************************************)
EXTENDS ApiKeys, FiniteSets

CONSTANTS
  Tables,        \* tables that have rows with a unique name
  Names,         \* names of rows
  StartValues,   \* what a Config may say of the hooks
  MaxRestarts    \* bound on the server's restarts

ASSUME AdminAssumption ==
  /\ IsFiniteSet(Requests)
  /\ Tables \subseteq {"source", "destination"}
  /\ StartValues \subseteq BOOLEAN
  /\ MaxRestarts \in Nat

VARIABLES
  rows,          \* the rows of each table
  audit,         \* audit_log: the requests that have an entry
  setting,       \* server_settings: the row of hooks_enabled
  startValue,    \* Config: hooksEnabled when no such row is read
  hooksEnabled,  \* the flag in memory
  caller,        \* the gate each request is at, and the token that it brings
  req,           \* what it asks for, once it is let in
  pc,            \* the statement each request is at
  answer,        \* how it was answered
  restarts,
  seen,          \* history: whether its row was there, at any time since it began
  stood,         \* history: its token's standings from its arrival until it is let in
  missed,        \* history: requests whose UPDATE found no row
  rowBy, flagBy, \* history: who wrote the setting's row, the flag, last
  behind         \* history: requests whose row was overwritten before they set the flag

calls == << caller, req, pc, answer >>
config == << setting, startValue, hooksEnabled, rowBy, flagBy, behind >>
keyVars == << keys, expired >>
vars == << rows, audit, calls, restarts, seen, stood, missed, config, keyVars >>

Entities == Tables \X Names

NoCaller == [gate |-> "none", token |-> "none"]

NoRequest == [op |-> "none", via |-> "api", of |-> << >>, value |-> ""]

RowOps == {"create", "update", "delete", "get"}
RowRequest(via, table) == [op : RowOps, via : {via}, of : {table} \X Names, value : {""}]

\* What the handlers of handlers_sources.go and handlers_destinations.go, and the
\* forms of ui/handler_apps.go and ui/handler_destinations.go, are asked to do.
SourceRoutes == RowRequest("api", "source")
DestinationRoutes == RowRequest("api", "destination")
AppForms == RowRequest("ui", "source")
DestinationForms == RowRequest("ui", "destination")

\* A source with its events, for the command line.
PullRoute == [op : {"pull"}, via : {"api"}, of : {"source"} \X Names, value : {""}]

RowRequests ==
  {q \in SourceRoutes \cup DestinationRoutes \cup AppForms \cup DestinationForms
           \cup PullRoute : q.of \in Entities}

\* A new value of hooks_enabled, by the API or the form.
PutRequests ==
  [op : {"put"}, via : {"api", "ui"}, of : {<< >>}, value : {"true", "false"}]

\* A key of a role for somebody, the first key of all, and the end of a key.
KeyRoute == [op : {"issue"}, via : {"api"}, of : {<< >>}, value : Roles]
KeyForm == [op : {"issue"}, via : {"ui"}, of : {<< >>}, value : Roles]
BootstrapForm == [op : {"bootstrap"}, via : {"ui"}, of : {<< >>}, value : {"admin"}]
Revoking(via) == [op : {"revoke"}, via : {via}, of : {"key"} \X Ids, value : {""}]
RevokeRoute == Revoking("api")
RevokeForm == Revoking("ui")

AllRequests ==
  RowRequests \cup PutRequests \cup KeyRoute \cup KeyForm \cup BootstrapForm
    \cup RevokeRoute \cup RevokeForm

\* How a route is guarded: by a role, or by the handler itself, which counts the keys:
\* handleCreateAPIKey and handleBootstrap.
Gates == {"viewer", "admin", "create_key", "bootstrap"}

Gate(q) ==
  CASE q.op = "pull" -> "viewer"
    [] q.op = "issue" /\ q.via = "api" -> "create_key"
    [] q.op = "bootstrap" -> "bootstrap"
    [] OTHER -> "admin"

\* The role that a gate asks for, where it asks for one.
MinRole(gate) == IF gate = "viewer" THEN "viewer" ELSE "admin"

-----------------------------------------------------------------------------
\* Mutant: the row in the database is not looked at.
StartupConfig(row, default) == default

\* New: a row that GetSetting returned overrides the configuration.
StartupHooks(row, default) == row = "true"

Init ==
  /\ rows = {}
  /\ audit = {}
  /\ setting = "none"
  /\ startValue \in StartValues
  /\ hooksEnabled = startValue
  /\ KeysInit
  /\ caller = [r \in Requests |-> NoCaller]
  /\ req = [r \in Requests |-> NoRequest]
  /\ pc = [r \in Requests |-> "idle"]
  /\ answer = [r \in Requests |-> "none"]
  /\ restarts = 0
  /\ seen = [r \in Requests |-> {}]
  /\ stood = [r \in Requests |-> {}]
  /\ missed = {}
  /\ rowBy = "start"
  /\ flagBy = "config"
  /\ behind = {}

-----------------------------------------------------------------------------
(* How requests begin, proceed and end.                                    *)

\* The first statement of each operation.
First(op) ==
  CASE op = "create" -> "insert"
    [] op = "update" -> "select"
    [] op = "delete" -> "delete"
    [] op \in {"get", "pull"} -> "get"
    [] op = "put" -> "write"
    [] op \in {"issue", "bootstrap"} -> "issue"
    [] op = "revoke" -> "revoke"

\* A request arrives, with a key that was issued or without one.
Begin(r) ==
  /\ pc[r] = "idle"
  /\ \E gate \in Gates, token \in KeyRows \cup {"none"} :
       /\ caller' = [caller EXCEPT ![r] = [gate |-> gate, token |-> token]]
       /\ pc' = [pc EXCEPT ![r] = IF gate \in {"viewer", "admin"} THEN "auth" ELSE "count"]
       /\ stood' = [stood EXCEPT ![r] = {Standing(token)}]
  /\ UNCHANGED << rows, audit, req, answer, restarts, seen, missed, config, keyVars >>

Goto(r, step) == pc' = [pc EXCEPT ![r] = step] /\ UNCHANGED << caller, req, answer >>

\* What the client is told of the store's error.  The forms that delete go
\* back to the list whatever it is, the one for keys when there is one.
Status(q, err) ==
  IF q.via = "ui" /\ (q.op \in {"delete", "revoke"} \/ (q.op = "issue" /\ err # "ok"))
  THEN "redirect" ELSE err

Return(r, step, err) ==
  /\ pc' = [pc EXCEPT ![r] = step]
  /\ answer' = [answer EXCEPT ![r] = Status(req[r], err)]
  /\ UNCHANGED << caller, req >>

\* A statement that failed, before the operation changed anything.
Fail(r) == Return(r, "done", "error") /\ UNCHANGED << rows, seen >>

Settled(r) == pc[r] \in {"idle", "done", "unlogged"}

\* The rows change; every request under way is a witness.
SetRows(new) ==
  /\ rows' = new
  /\ seen' = [r \in Requests |->
                IF Settled(r) THEN seen[r] ELSE seen[r] \cup {req[r].of \in new}]

\* The keys change, and so may the standing of requests that are not let in yet.
WitnessKeys ==
  stood' = [r \in Requests |->
              IF pc[r] \in {"count", "auth"}
              THEN stood[r] \cup {Standing(caller[r].token)'} ELSE stood[r]]

-----------------------------------------------------------------------------
(* Authentication, and the keys.                                           *)

\* CountAPIKeys: without keys the first one is anybody's to create; with keys, an
\* administrator's, and the form for the first one sends everybody to the login.
Count(r) ==
  /\ pc[r] = "count"
  /\ \/ NoKeys /\ Goto(r, "body")
     \/ ~NoKeys /\ caller[r].gate = "create_key" /\ Goto(r, "auth")
     \/ ~NoKeys /\ caller[r].gate = "bootstrap" /\ Return(r, "done", "unauthorized")
     \/ Return(r, "done", IF caller[r].gate = "create_key" THEN "error" ELSE "unauthorized")
  /\ UNCHANGED << rows, audit, restarts, seen, stood, missed, config, keyVars >>

\* withAuth, withSession and the check of handleCreateAPIKey: a lookup that fails is
\* answered like a key that is not there.
Authenticate(r) ==
  LET role == LookupAPIKey(caller[r].token)
  IN  /\ pc[r] = "auth"
      /\ \/ Allows(role, MinRole(caller[r].gate)) /\ Goto(r, "body")
         \/ /\ role # "unknown" /\ ~Allows(role, MinRole(caller[r].gate))
            /\ Return(r, "done", "forbidden")
         \/ Return(r, "done", "unauthorized")
      /\ UNCHANGED << rows, audit, restarts, seen, stood, missed, config, keyVars >>

\* The handler reads what is asked for.
Accept(r) ==
  /\ pc[r] = "body"
  /\ \E q \in AllRequests :
       /\ Gate(q) = caller[r].gate
       /\ q.op = "revoke" => q.of[2] \in KeyRows
       /\ req' = [req EXCEPT ![r] = q]
       /\ pc' = [pc EXCEPT ![r] = First(q.op)]
       /\ seen' = [seen EXCEPT ![r] = {q.of \in rows}]
  /\ UNCHANGED << rows, audit, caller, answer, restarts, stood, missed, config, keyVars >>

\* A body or an id that cannot be parsed or lacks a required field.
BadRequest(r) ==
  /\ pc[r] = "body"
  /\ Return(r, "done", "bad_request")
  /\ UNCHANGED << rows, audit, restarts, seen, stood, missed, config, keyVars >>

\* INSERT INTO api_keys.
Issue(r) ==
  /\ pc[r] = "issue"
  /\ \/ CreateAPIKey(r, req[r].value) /\ Return(r, "done", "ok") /\ WitnessKeys
     \/ Return(r, "done", "error") /\ UNCHANGED << keyVars, stood >>
  /\ UNCHANGED << rows, seen, audit, restarts, missed, config >>

\* DELETE FROM api_keys, whether or not there is such a key.
Revoke(r) ==
  /\ pc[r] = "revoke"
  /\ \/ RevokeAPIKey(req[r].of[2]) /\ Return(r, "done", "ok") /\ WitnessKeys
     \/ Return(r, "done", "error") /\ UNCHANGED << keyVars, stood >>
  /\ UNCHANGED << rows, seen, audit, restarts, missed, config >>

\* A key's time is over.  The key of the first form has no expires_at.
KeyExpires ==
  /\ \E k \in Ids :
       /\ k \in Requests => req[k].op # "bootstrap"
       /\ Expire(k)
  /\ UNCHANGED << rows, seen, audit, calls, restarts, missed, config >>
  /\ WitnessKeys

-----------------------------------------------------------------------------
(* The statements of CreateX, UpdateX, DeleteX and GetX, for X one of      *)
(* Source and Destination: the same code over two tables.                  *)

\* INSERT: the name is unique.
Insert(r) ==
  /\ pc[r] = "insert"
  /\ \/ /\ req[r].of \notin rows
        /\ SetRows(rows \cup {req[r].of})
        /\ Goto(r, "log")
     \/ Fail(r)
  /\ UNCHANGED << audit, restarts, missed, config, stood, keyVars >>

\* Mutant: an id that is not found is not an error.
UpdatesAnyway(r) == TRUE

Updates(r) == req[r].of \in rows

\* SELECT id: an UpdateX of a row that is not there ends here.
Select(r) ==
  /\ pc[r] = "select"
  /\ \/ Updates(r) /\ Goto(r, "update") /\ UNCHANGED << rows, seen >>
     \/ ~Updates(r) /\ Return(r, "done", "not_found") /\ UNCHANGED << rows, seen >>
     \/ Fail(r)
  /\ UNCHANGED << audit, restarts, missed, config, stood, keyVars >>

\* UPDATE ... WHERE name: nobody looks at how many rows it changed.
Update(r) ==
  /\ pc[r] = "update"
  /\ \/ /\ Goto(r, "log")
        /\ missed' = IF req[r].of \in rows THEN missed ELSE missed \cup {r}
        /\ UNCHANGED << rows, seen >>
     \/ Fail(r) /\ UNCHANGED missed
  /\ UNCHANGED << audit, restarts, config, stood, keyVars >>

\* Mutant: RowsAffected is not looked at.
DeletesAnyway(r) == TRUE

Deletes(r) == req[r].of \in rows

\* DELETE, and its RowsAffected.
Delete(r) ==
  /\ pc[r] = "delete"
  /\ \/ Deletes(r) /\ SetRows(rows \ {req[r].of}) /\ Goto(r, "log")
     \/ ~Deletes(r) /\ Return(r, "done", "not_found") /\ UNCHANGED << rows, seen >>
     \/ Fail(r)
  /\ UNCHANGED << audit, restarts, missed, config, stood, keyVars >>

Get(r) ==
  /\ pc[r] = "get"
  /\ \/ /\ Return(r, "done", IF req[r].of \in rows THEN "ok" ELSE "not_found")
        /\ UNCHANGED << rows, seen >>
     \/ Fail(r)
  /\ UNCHANGED << audit, restarts, missed, config, stood, keyVars >>

\* INSERT INTO audit_log: its error is the operation's, though the change stays.
Log(r) ==
  /\ pc[r] = "log"
  /\ \/ audit' = audit \cup {r} /\ Return(r, "done", "ok")
     \/ Return(r, "unlogged", "error") /\ UNCHANGED audit
  /\ UNCHANGED << rows, seen, restarts, missed, config, stood, keyVars >>

-----------------------------------------------------------------------------
(* handleSetConfig: the row first, then, in the API's handler only, the    *)
(* flag in memory.                                                         *)

WriteSetting(r) ==
  /\ pc[r] = "write"
  /\ \/ /\ setting' = req[r].value
        /\ rowBy' = r
        /\ behind' = {q \in Requests : pc[q] = "store"} \cup behind
        /\ \/ req[r].via = "api" /\ Goto(r, "store")
           \/ req[r].via = "ui" /\ Return(r, "done", "ok")
        /\ UNCHANGED << rows, seen >>
     \/ Fail(r) /\ UNCHANGED << setting, rowBy, behind >>
  /\ UNCHANGED << audit, restarts, missed, startValue, hooksEnabled, flagBy, stood, keyVars >>

StoreFlag(r) ==
  /\ pc[r] = "store"
  /\ hooksEnabled' = (req[r].value = "true")
  /\ flagBy' = r
  /\ Return(r, "done", "ok")
  /\ UNCHANGED << rows, seen, audit, restarts, missed, startValue, setting, rowBy,
                  behind, stood, keyVars >>

-----------------------------------------------------------------------------
\* The server dies and starts again: requests under way are gone, an entry that
\* one still had to write with it; the database stays.  If GetSetting fails, the
\* missing row included, the flag is what the configuration says.
Restart ==
  /\ restarts < MaxRestarts
  /\ restarts' = restarts + 1
  /\ pc' = [r \in Requests |->
              CASE Settled(r) -> pc[r]
                [] pc[r] = "log" -> "unlogged"
                [] OTHER -> "done"]
  /\ rowBy' = "start"
  /\ behind' = {}
  /\ \/ /\ setting # "none"
        /\ hooksEnabled' = StartupHooks(setting, startValue)
        /\ flagBy' = "start"
     \/ hooksEnabled' = startValue /\ flagBy' = "config"
  /\ UNCHANGED << rows, audit, caller, req, answer, seen, stood, missed, setting,
                  startValue, keyVars >>

Operate(r) == Insert(r) \/ Select(r) \/ Update(r) \/ Delete(r) \/ Get(r) \/ Log(r)

HandleKeys(r) == Count(r) \/ Authenticate(r) \/ Issue(r) \/ Revoke(r)

Next ==
  \/ \E r \in Requests :
       \/ Begin(r) \/ Accept(r) \/ BadRequest(r) \/ HandleKeys(r) \/ Operate(r)
       \/ WriteSetting(r) \/ StoreFlag(r)
  \/ KeyExpires
  \/ Restart

Spec == Init /\ [][Next]_vars

-----------------------------------------------------------------------------
Steps == {"idle", "count", "auth", "body", "insert", "select", "update", "delete", "get",
          "log", "write", "store", "issue", "revoke", "done", "unlogged"}
Answers == {"none", "ok", "redirect", "error", "not_found", "bad_request", "unauthorized",
            "forbidden"}

\* The types of the variables.
TypeOK ==
  /\ rows \subseteq Entities
  /\ audit \subseteq Requests
  /\ setting \in {"none", "true", "false"}
  /\ startValue \in BOOLEAN
  /\ hooksEnabled \in BOOLEAN
  /\ KeysTypeOK
  /\ caller \in [Requests -> [gate : Gates, token : Ids \cup {"none"}] \cup {NoCaller}]
  /\ req \in [Requests -> AllRequests \cup {NoRequest}]
  /\ pc \in [Requests -> Steps]
  /\ answer \in [Requests -> Answers]
  /\ restarts \in 0..MaxRestarts
  /\ seen \in [Requests -> SUBSET BOOLEAN]
  /\ stood \in [Requests -> SUBSET Standings]
  /\ missed \subseteq Requests
  /\ rowBy \in Requests \cup {"start"}
  /\ flagBy \in Requests \cup {"start", "config"}
  /\ behind \subseteq Requests

Of(op, e) == {r \in Requests : req[r].op = op /\ req[r].of = e}

\* The operations on e that have an entry in the log.
Entries(op, e) == Of(op, e) \cap audit

\* Those that made their change and have no entry: it is yet to come, or was lost
\* to a failing statement or a crash.
Missing(op, e) == {r \in Of(op, e) : pc[r] \in {"log", "unlogged"}}

\* "Audit log tracks all spec changes" is not what the code does: a change whose entry
\* fails, or is cut off by a crash, stays, and from then on the log does not tell which
\* rows exist.  What holds is how far it can be off: however CreateX and DeleteX of one
\* name interleave, fail and crash, rows and log differ by the missing entries and by
\* nothing else, and whoever was answered with success has an entry.
AuditGaps ==
  /\ \A e \in Entities :
       (IF e \in rows THEN 1 ELSE 0)
         - (Cardinality(Entries("create", e)) - Cardinality(Entries("delete", e)))
         = Cardinality(Missing("create", e)) - Cardinality(Missing("delete", e))
  /\ \A r \in Requests :
       answer[r] = "ok" /\ req[r].op \in {"create", "update", "delete"} => r \in audit

\* The standings with which a gate lets a request in.
Permitting(gate) ==
  CASE gate = "bootstrap" -> {"open"}
    [] gate = "create_key" -> {"open", "admin"}
    [] gate = "viewer" -> Roles
    [] OTHER -> {"admin"}

\* What a client is told was true while its request ran.  Whatever it may ask for, its
\* key permitted at some time between its arrival and its being let in (or there was no
\* key in the table, where the first one is asked for), and a key whose role was too low
\* is what it was refused for, however keys are issued, revoked and expire meanwhile.
\* Created means
\* that the name was free, updated, deleted or found that the row was there, and not
\* found that it was not.  An update that changed nothing, because UpdateX does not
\* count the rows, lost the row to a concurrent DeleteX.
AnswerJustified ==
  \A r \in Requests :
    /\ req[r].op # "none"
         => Gate(req[r]) = caller[r].gate /\ stood[r] \cap Permitting(caller[r].gate) # {}
    /\ answer[r] = "forbidden" => stood[r] \cap (Roles \ Permitting(caller[r].gate)) # {}
    /\ answer[r] = "ok" /\ req[r].op = "create" => FALSE \in seen[r]
    /\ answer[r] = "ok" /\ req[r].op \in {"update", "delete", "get", "pull"}
         => TRUE \in seen[r]
    /\ answer[r] = "not_found" => FALSE \in seen[r]
    /\ r \in missed => seen[r] = BOOLEAN

\* "Apply in-memory immediately so the change takes effect without a restart": the
\* flag that the relay's hooks obey and the row that survives a restart differ for four
\* reasons and no other.  The server read no row when it started, and nobody has set
\* the flag since; the row was written by the form of the UI, which leaves the flag
\* alone; whoever wrote the row has yet to set the flag; or two PUTs overlapped, and
\* the one whose row was overwritten set the flag after the other had.
HooksDiffer ==
  setting # "none" /\ hooksEnabled # (setting = "true") =>
    \/ flagBy = "config"
    \/ rowBy \in Requests /\ (req[rowBy].via = "ui" \/ pc[rowBy] = "store")
    \/ flagBy \in behind
=============================================================================
