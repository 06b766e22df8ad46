----------------------------- MODULE AccountLimits -----------------------------
(***************************************************************************)
(* One user's API keys and ACTIVE bots under the limits of the user's role *)
(* (api_key_service.py, create_bot in bot_service.py, rbac.py), with keys  *)
(* deleted, bots ended and roles changed meanwhile.  A creation counts the *)
(* committed rows, goes on for as long as the exchange takes, and commits  *)
(* its own.                                                                *)
(***************************************************************************)
EXTENDS Integers, FiniteSets

CONSTANTS
    Requests,  \* creations in progress at once
    Roles,
    Limit,     \* Limit[kind][role]: MAX_API_KEYS_*, MAX_ACTIVE_BOTS_*
    Labels,    \* labels of keys
    MaxRows,   \* bound: rows ever created, of each kind
    MaxFaults  \* bound: creations that break off

Kind == {"key", "bot"}

ASSUME RequestsAssumption == IsFiniteSet(Requests) /\ Requests # {}
ASSUME LimitAssumption == Limit \in [Kind -> [Roles -> Nat]]
ASSUME RowsAssumption == MaxRows \in Nat

Ids == 1..MaxRows
None == "none"

VARIABLES
    live,     \* keys that are not deleted, bots that are ACTIVE
    gone,     \* deleted keys: their rows remain
    label,    \* of every key
    keyOf,    \* the key of every bot
    next,     \* the next row of each kind
    role,     \* users.role
    req,      \* the creations
    by,       \* the role each row in live was created under (history)
    crowd,    \* most creations of a kind under way at once, or 1 (history)
    faults

hist == <<by, crowd>>
vars == <<live, gone, label, keyOf, next, role, req, hist, faults>>

Point == {"idle", "count", "key", "insert"}
Request == [at : Point, kind : Kind, role : Roles, label : Labels \cup {None},
            key : Ids \cup {0}, dead : SUBSET Ids]

Idle == [at |-> "idle", kind |-> "key", role |-> CHOOSE x \in Roles : TRUE,
         label |-> None, key |-> 0, dead |-> {}]

Init ==
    /\ live = [k \in Kind |-> {}] /\ gone = {}
    /\ label = [i \in Ids |-> None] /\ keyOf = [i \in Ids |-> 0]
    /\ next = [k \in Kind |-> 1]
    /\ role \in Roles
    /\ req = [r \in Requests |-> Idle]
    /\ by = [k \in Kind |-> [i \in Ids |-> None]] /\ crowd = [k \in Kind |-> 1]
    /\ faults = 0

Open(r) == req[r].at # "idle"
OpenOf(k) == {r \in Requests : Open(r) /\ req[r].kind = k}
Moves(r, a) == req' = [req EXCEPT ![r].at = a]
\* The request is answered, one way or the other.
Ends(r) == req' = [req EXCEPT ![r] = Idle]

-----------------------------------------------------------------------------
\* A creation begins: the user is loaded with the role of this moment.
Begin(r) ==
    /\ ~Open(r)
    /\ \E k \in Kind, l \in Labels, i \in Ids :
         /\ next[k] + Cardinality(OpenOf(k)) =< MaxRows
         /\ IF k = "bot" THEN i < next["key"] ELSE i = 1
         /\ req' = [req EXCEPT ![r] =
              [at |-> "count", kind |-> k, role |-> role, label |-> IF k = "key" THEN l ELSE None,
               key |-> IF k = "bot" THEN i ELSE 0,
               dead |-> IF k = "bot" THEN gone ELSE {}]]
         /\ LET n == Cardinality(OpenOf(k)) + 1
            IN crowd' = [crowd EXCEPT ![k] = IF n > @ THEN n ELSE @]
    /\ UNCHANGED <<live, gone, label, keyOf, next, role, by, faults>>

\* Mutant: the limit itself still passes.
CountToLimit(r) ==
    /\ req[r].at = "count"
    /\ Cardinality(live[req[r].kind]) =< Limit[req[r].kind][req[r].role]
    /\ Moves(r, IF req[r].kind = "bot" THEN "key" ELSE "insert")
    /\ UNCHANGED <<live, gone, label, keyOf, next, role, hist, faults>>

\* count_active_keys, count_active_bots.
Count(r) ==
    /\ req[r].at = "count"
    /\ Cardinality(live[req[r].kind]) < Limit[req[r].kind][req[r].role]
    /\ Moves(r, IF req[r].kind = "bot" THEN "key" ELSE "insert")
    /\ UNCHANGED <<live, gone, label, keyOf, next, role, hist, faults>>

\* "API key limit reached for your role", "Active bot limit reached".
Full(r) ==
    /\ req[r].at = "count"
    /\ Cardinality(live[req[r].kind]) >= Limit[req[r].kind][req[r].role]
    /\ Ends(r)
    /\ UNCHANGED <<live, gone, label, keyOf, next, role, hist, faults>>

\* Mutant: deleted keys are found too.
KeyExists(r) == req[r].key \in live["key"] \cup gone

\* A bot needs a key of the user that is not deleted.
KeyFound(r) == req[r].key \in live["key"]

FindKey(r) ==
    /\ req[r].at = "key"
    /\ IF KeyFound(r) THEN Moves(r, "insert") ELSE Ends(r)
    /\ UNCHANGED <<live, gone, label, keyOf, next, role, hist, faults>>

\* Mutant: the key is not unique.
LabelFree(r) == FALSE

\* The unique key of (user_id, label) counts deleted keys too.
LabelTaken(r) == \E i \in live["key"] \cup gone : label[i] = req[r].label

CommitKey(r) ==
    /\ req[r].at = "insert" /\ req[r].kind = "key" /\ next["key"] \in Ids
    /\ ~LabelTaken(r)
    /\ live' = [live EXCEPT !["key"] = @ \cup {next["key"]}]
    /\ label' = [label EXCEPT ![next["key"]] = req[r].label]
    /\ next' = [next EXCEPT !["key"] = @ + 1]
    /\ by' = [by EXCEPT !["key"][next["key"]] = req[r].role]
    /\ Ends(r)
    /\ UNCHANGED <<gone, keyOf, role, crowd, faults>>

\* IntegrityError: status 500.
KeyFails(r) ==
    /\ req[r].at = "insert" /\ req[r].kind = "key"
    /\ LabelTaken(r)
    /\ Ends(r)
    /\ UNCHANGED <<live, gone, label, keyOf, next, role, hist, faults>>

\* The bot is committed after the first pass of its engine, however it ended.
CommitBot(r) ==
    /\ req[r].at = "insert" /\ req[r].kind = "bot" /\ next["bot"] \in Ids
    /\ live' = [live EXCEPT !["bot"] = @ \cup {next["bot"]}]
    /\ keyOf' = [keyOf EXCEPT ![next["bot"]] = req[r].key]
    /\ next' = [next EXCEPT !["bot"] = @ + 1]
    /\ by' = [by EXCEPT !["bot"][next["bot"]] = req[r].role]
    /\ Ends(r)
    /\ UNCHANGED <<gone, label, role, crowd, faults>>

\* The database or the process fails: rollback.
Break(r) ==
    /\ Open(r) /\ faults < MaxFaults
    /\ faults' = faults + 1
    /\ Ends(r)
    /\ UNCHANGED <<live, gone, label, keyOf, next, role, hist>>

-----------------------------------------------------------------------------
\* soft_delete_api_key: whatever bots use the key.
DeleteKey(k) ==
    /\ k \in live["key"]
    /\ live' = [live EXCEPT !["key"] = @ \ {k}]
    /\ gone' = gone \cup {k}
    /\ by' = [by EXCEPT !["key"][k] = None]
    /\ UNCHANGED <<label, keyOf, next, role, req, crowd, faults>>

\* Stop, close or removal of an ACTIVE bot: each needs the adapter, which
\* build_binance_adapter refuses for a deleted key.
EndBot(b) ==
    /\ b \in live["bot"] /\ keyOf[b] \in live["key"]
    /\ live' = [live EXCEPT !["bot"] = @ \ {b}]
    /\ by' = [by EXCEPT !["bot"][b] = None]
    /\ UNCHANGED <<gone, label, keyOf, next, role, req, crowd, faults>>

\* patch_user_role.
SetRole ==
    /\ role' \in Roles
    /\ UNCHANGED <<live, gone, label, keyOf, next, req, hist, faults>>

Next ==
    \/ \E r \in Requests :
         \/ Begin(r) \/ Count(r) \/ Full(r) \/ FindKey(r)
         \/ CommitKey(r) \/ KeyFails(r) \/ CommitBot(r) \/ Break(r)
    \/ \E i \in Ids : DeleteKey(i) \/ EndBot(i)
    \/ SetRole

Spec == Init /\ [][Next]_vars

-----------------------------------------------------------------------------
(* Properties.                                                             *)

\* Every variable has its type, and labels of keys are unique.
TypeOK ==
    /\ live \in [Kind -> SUBSET Ids] /\ gone \subseteq Ids
    /\ label \in [Ids -> Labels \cup {None}] /\ keyOf \in [Ids -> Ids \cup {0}]
    /\ next \in [Kind -> 1..(MaxRows + 1)] /\ role \in Roles
    /\ req \in [Requests -> Request]
    /\ by \in [Kind -> [Ids -> Roles \cup {None}]] /\ crowd \in [Kind -> Nat \ {0}]
    /\ faults \in Nat
    /\ \A i, j \in live["key"] \cup gone : label[i] = label[j] => i = j

\* The rows that were created under a role with at most the limit of role x.
Within(k, x) == {i \in live[k] : Limit[k][by[k][i]] =< Limit[k][x]}

\* A user has no more keys or ACTIVE bots that were created under a role than
\* the limit of that role, and those of roles with lower limits do not come on
\* top; creations that overlap may go beyond it, but only by their own number:
\* with one creation at a time, a user whose role has not changed keeps its limit.
OvershootBounded ==
    \A k \in Kind, x \in Roles :
        Cardinality(Within(k, x)) =< Limit[k][x] + crowd[k] - 1

\* No bot is created on a key that was deleted before its creation began.
NotOnDeletedKey ==
    [][\A r \in Requests : CommitBot(r) => req[r].key \notin req[r].dead]_vars
=============================================================================
