------------------------------- MODULE ApiKeys -------------------------------
(***************************************************************************)
(* The table of API keys and what a key permits (registry/server/auth.go,  *)
(* shared/types.go, store_sql.go, ui/handler_auth.go).                     *)
(*                                                                         *)
(* A key is named by the request that created it; the key that an operator *)
(* may have created before is "operator".  A token is the name of a key:   *)
(* keys are random, so nobody holds one that was never issued, and a key   *)
(* whose row is gone is as good as none.  Role names that the code does    *)
(* not know have the level of a viewer and are not told apart from it.     *)
(***************************************************************************)
EXTENDS Integers

CONSTANT Requests      \* requests, each with one operation

ASSUME KeyAssumption == {"operator", "start", "config", "none"} \cap Requests = {}

VARIABLES
  keys,                \* api_keys: the role of each key, "none" without a row
  expired              \* keys whose expires_at has passed

Ids == Requests \cup {"operator"}
Roles == {"viewer", "publisher", "admin"}

RoleLevel(role) == CASE role = "admin" -> 2 [] role = "publisher" -> 1 [] OTHER -> 0

KeyRows == {k \in Ids : keys[k] # "none"}

\* CountAPIKeys: expired keys have rows too.
NoKeys == KeyRows = {}

\* LookupAPIKey, without the failure of its statement.
LookupAPIKey(token) ==
  IF token \in KeyRows \ expired THEN keys[token] ELSE "unknown"

\* What the table says of the holder of a token: there are no keys at all, or the
\* token is no valid key, or the key's role.
Standing(token) == IF NoKeys THEN "open" ELSE LookupAPIKey(token)
Standings == Roles \cup {"open", "unknown"}

\* withAuth and withSession, once the key is found.
Allows(role, minRole) == role \in Roles /\ RoleLevel(role) >= RoleLevel(minRole)

-----------------------------------------------------------------------------
KeysInit ==
  /\ \E first \in {"none", "admin"} :
       keys = [k \in Ids |-> IF k = "operator" THEN first ELSE "none"]
  /\ expired = {}

CreateAPIKey(id, role) == keys' = [keys EXCEPT ![id] = role] /\ UNCHANGED expired

\* DELETE: nobody asks whether there was a row.
RevokeAPIKey(id) == keys' = [keys EXCEPT ![id] = "none"] /\ UNCHANGED expired

\* Time passes.
Expire(id) == id \in KeyRows \ expired /\ expired' = expired \cup {id} /\ UNCHANGED keys

KeysTypeOK == keys \in [Ids -> Roles \cup {"none"}] /\ expired \subseteq Ids
=============================================================================
