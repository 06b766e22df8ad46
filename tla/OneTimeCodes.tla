----------------------------- MODULE OneTimeCodes -----------------------------
(***************************************************************************)
(* The one-time codes of an account: the six-digit code that links a       *)
(* Telegram account (telegram_link_service.py, bot/telegram.py) and the    *)
(* token that resets a password (auth_service.py, api/auth.py).            *)
(*                                                                         *)
(* Creating a code deletes the user's rows and inserts a new one; using it *)
(* reads the row, then changes the user and marks the row.  Each request   *)
(* is one transaction at READ COMMITTED: DELETE takes the rows committed   *)
(* when it starts and waits for those another transaction has deleted.     *)
(***************************************************************************)
EXTENDS Integers, FiniteSets

CONSTANTS
    Users, Requests,
    Codes,     \* what a code can be; reset tokens never repeat
    Values,    \* Telegram ids, or passwords
    MaxRows,   \* bound: rows ever created
    MaxFaults  \* bound: requests that break off

ASSUME RowsAssumption == MaxRows \in Nat

Kinds == {"link", "reset"}
Ids == 1..MaxRows
None == "none"
ASSUME NoneAssumption == None \notin Values

VARIABLES
    kind,     \* which codes these are
    table,    \* ids of the rows, committed
    info,     \* user and code of every row ever inserted
    expired,  \* rows whose expires_at has passed
    used,     \* rows with consumed_at or used_at, committed
    value,    \* users.telegram_id or password_hash, committed
    nextId,
    req,      \* the requests
    replaced, \* rows that the creation of a row deleted (history)
    faults

vars == <<kind, table, info, expired, used, value, nextId, req, replaced, faults>>

Point == {"idle", "delete", "insert", "mark", "done", "invalid", "failed"}
Request == [at : Point, user : Users \cup {None}, snap : SUBSET Ids,
            row : Ids \cup {0}, value : Values \cup {None}]
Idle == [at |-> "idle", user |-> None, snap |-> {}, row |-> 0, value |-> None]

Init ==
    /\ kind \in Kinds
    /\ table = {} /\ expired = {} /\ used = {}
    /\ info = [i \in Ids |-> [user |-> None, code |-> None]]
    /\ value = [u \in Users |-> None]
    /\ nextId = 1
    /\ req = [r \in Requests |-> Idle]
    /\ replaced = [i \in Ids |-> {}]
    /\ faults = 0

\* Rows locked by a DELETE that is not committed.
Locked(r) == UNION {req[s].snap \cap table :
                      s \in {s \in Requests \ {r} : req[s].at = "insert"}}

-----------------------------------------------------------------------------
\* create_link_code, request_password_reset: the DELETE starts.
Create(r) ==
    /\ req[r].at = "idle"
    /\ nextId + Cardinality({s \in Requests : req[s].at = "delete"}) \in Ids
    /\ \E u \in Users :
         req' = [req EXCEPT ![r] = [Idle EXCEPT !.at = "delete", !.user = u,
                              !.snap = {i \in table : info[i].user = u}]]
    /\ UNCHANGED <<kind, table, info, expired, used, value, nextId, replaced, faults>>

\* The DELETE is through and the new row is inserted.
Insert(r) ==
    /\ req[r].at = "delete" /\ nextId \in Ids
    /\ req[r].snap \cap Locked(r) = {}
    /\ \E c \in Codes :
         /\ kind = "reset" => \A i \in 1..(nextId - 1) : info[i].code # c
         /\ info' = [info EXCEPT ![nextId] = [user |-> req[r].user, code |-> c]]
    /\ nextId' = nextId + 1
    /\ req' = [req EXCEPT ![r].at = "insert", ![r].row = nextId]
    /\ UNCHANGED <<kind, table, expired, used, value, replaced, faults>>

\* Mutant: only codes nobody has used are deleted.
CommitCreateKeepsUsed(r) ==
    /\ req[r].at = "insert"
    /\ table' = (table \ (req[r].snap \ used)) \cup {req[r].row}
    /\ replaced' = [replaced EXCEPT ![req[r].row] = req[r].snap]
    /\ req' = [req EXCEPT ![r].at = "done"]
    /\ UNCHANGED <<kind, info, expired, used, value, nextId, faults>>

CommitCreate(r) ==
    /\ req[r].at = "insert"
    /\ table' = (table \ req[r].snap) \cup {req[r].row}
    /\ replaced' = [replaced EXCEPT ![req[r].row] = req[r].snap]
    /\ req' = [req EXCEPT ![r].at = "done"]
    /\ UNCHANGED <<kind, info, expired, used, value, nextId, faults>>

-----------------------------------------------------------------------------
\* The rows a code finds: a link code is looked for among those not consumed.
Matches(c) == {i \in table : info[i].code = c /\ (kind = "link" => i \notin used)}

\* consume_link_code, confirm_password_reset up to their tests: a code that
\* was issued is sent; more than one row for it is an exception.
Read(r) ==
    /\ req[r].at = "idle"
    /\ \E c \in {info[i].code : i \in 1..(nextId - 1)}, v \in Values :
         LET m == Matches(c)
             good == {i \in m : i \notin used /\ i \notin expired}
         IN \/ /\ Cardinality(m) > 1
               /\ req' = [req EXCEPT ![r] = [Idle EXCEPT !.at = "failed"]]
            \/ /\ Cardinality(m) =< 1 /\ good = {}
               /\ req' = [req EXCEPT ![r] = [Idle EXCEPT !.at = "invalid"]]
            \/ /\ Cardinality(m) = 1
               /\ \E i \in good :
                    req' = [req EXCEPT ![r] = [Idle EXCEPT !.at = "mark",
                              !.user = info[i].user, !.row = i, !.value = v]]
    /\ UNCHANGED <<kind, table, info, expired, used, value, nextId, replaced, faults>>

\* Mutant: the column is not unique.
TakenNever(r) == FALSE

\* users.telegram_id is unique, a password is not.
Taken(r) == kind = "link" /\ \E u \in Users \ {req[r].user} : value[u] = req[r].value

\* Mutant: the update of the code's row may find no row.
MarkWhatIsLeft(r) ==
    /\ req[r].at = "mark" /\ ~Taken(r) /\ req[r].row \notin Locked(r)
    /\ value' = [value EXCEPT ![req[r].user] = req[r].value]
    /\ used' = used \cup ({req[r].row} \cap table)
    /\ req' = [req EXCEPT ![r].at = "done"]
    /\ UNCHANGED <<kind, table, info, expired, nextId, replaced, faults>>

\* The commit changes the user and marks the row that was read.
Mark(r) ==
    /\ req[r].at = "mark" /\ ~Taken(r) /\ req[r].row \in table \ Locked(r)
    /\ value' = [value EXCEPT ![req[r].user] = req[r].value]
    /\ used' = used \cup {req[r].row}
    /\ req' = [req EXCEPT ![r].at = "done"]
    /\ UNCHANGED <<kind, table, info, expired, nextId, replaced, faults>>

\* A commit that breaks the unique key, or whose UPDATE finds no row, is
\* rolled back with an exception.
MarkFails(r) ==
    /\ req[r].at = "mark"
    /\ Taken(r) \/ req[r].row \notin table
    /\ req' = [req EXCEPT ![r].at = "failed"]
    /\ UNCHANGED <<kind, table, info, expired, used, value, nextId, replaced, faults>>

\* The mail server or the database fails, or the process dies: rollback.
Break(r) ==
    /\ req[r].at \in {"delete", "insert", "mark"} /\ faults < MaxFaults
    /\ faults' = faults + 1
    /\ req' = [req EXCEPT ![r].at = "failed"]
    /\ UNCHANGED <<kind, table, info, expired, used, value, nextId, replaced>>

Expire ==
    /\ \E i \in table \ expired : expired' = expired \cup {i}
    /\ UNCHANGED <<kind, table, info, used, value, nextId, req, replaced, faults>>

\* A request that has ended makes room for another.
Again(r) ==
    /\ req[r].at \in {"done", "invalid", "failed"}
    /\ req' = [req EXCEPT ![r] = Idle]
    /\ UNCHANGED <<kind, table, info, expired, used, value, nextId, replaced, faults>>

Serve(r) ==
    \/ Insert(r) \/ CommitCreate(r) \/ Mark(r) \/ MarkFails(r) \/ Break(r)

Next ==
    \/ \E r \in Requests : Create(r) \/ Read(r) \/ Serve(r) \/ Again(r)
    \/ Expire

Spec == Init /\ [][Next]_vars

-----------------------------------------------------------------------------
(* Properties.                                                             *)

\* Every variable has its type, and no Telegram account is linked to two users.
TypeOK ==
    /\ kind \in Kinds
    /\ table \subseteq Ids /\ expired \subseteq Ids /\ used \subseteq Ids
    /\ info \in [Ids -> [user : Users \cup {None}, code : Codes \cup {None}]]
    /\ value \in [Users -> Values \cup {None}]
    /\ nextId \in 1..(MaxRows + 1)
    /\ req \in [Requests -> Request]
    /\ replaced \in [Ids -> SUBSET Ids] /\ faults \in Nat
    /\ kind = "link" => \A u, w \in Users : value[u] = value[w] => u = w \/ value[u] = None

\* A code that a newer one has replaced does not come back: no row stands
\* together with one that its creation deleted.
ReplacedGone == \A i \in table : replaced[i] \cap table = {}

\* A user's Telegram account or password changes only by a code of that user
\* that stands when the change is committed: whoever read it before it was
\* replaced comes too late.
OnlyByStandingCode ==
    [][\A u \in Users : value'[u] # value[u] =>
         \E r \in Requests :
            /\ req[r].at = "mark" /\ req'[r].at = "done"
            /\ value'[u] = req[r].value
            /\ req[r].row \in table /\ info[req[r].row].user = u]_vars
=============================================================================
