----------------------------- MODULE SignInProofs -----------------------------
(***************************************************************************)
(* Proofs about SignIn, for every number of requests, clients, accounts    *)
(* and tokens: types and unique accounts, that clients keep a token they   *)
(* can use, and that made-up addresses do not shut anybody out.            *)
(***************************************************************************)
EXTENDS SignIn, FiniteSetTheorems, TLAPS

USE NamesAssumption, BoundsAssumption

-----------------------------------------------------------------------------
(* The inductive invariant.                                                *)

Working(r) == req[r].at \in {"commit", "reply"}

\* A row to be written is a registered address, a Google profile, a made-up
\* address with its Telegram id, or only a google_sub.
RowShape(row) ==
    /\ row.mail \in Telegrams => row.telegram = row.mail
    /\ row.mail = None => row.telegram = None

ReqShape(r) ==
    /\ RowShape(req[r].row)
    /\ req[r].at # "idle" => req[r].who \in Clients
    /\ req[r].at \in {"idle", "mail", "insert"} =>
         req[r].user = 0 /\ req[r].tok = 0 /\ req[r].old = 0
    /\ req[r].at \in {"mail", "insert"} => req[r].row.mail # None
    /\ Working(r) => req[r].user # 0 /\ req[r].tok # 0
    /\ req[r].old # 0 => tokens[req[r].old].state # "none"
    /\ Uncommitted(r) => (req[r].user \in Rows <=> req[r].row.mail = None)

\* What a request issues is its own until it is answered or committed.
TokShape(r) ==
    /\ req[r].tok < nextToken /\ req[r].old < nextToken
    /\ \A s \in Requests : /\ req[s].old # req[r].tok
                           /\ s # r => req[s].tok # req[r].tok
    /\ \A c \in Clients : held[c] = req[r].tok =>
         c = req[r].who /\ ~commitFirst /\ req[r].at = "commit"
    /\ Uncommitted(r) => tokens[req[r].tok].state = "none"
    /\ ~Uncommitted(r) => tokens[req[r].tok].state = "live"

\* The token it was sent is its client's, if anybody's still.
OldShape(r) ==
    /\ \A c \in Clients : held[c] = req[r].old => c = req[r].who
    /\ ~commitFirst /\ req[r].at = "commit" =>
         held[req[r].who] # req[r].old \/ req[r].old \in cut

Tokens ==
    /\ \A c \in Clients : held[c] < nextToken
    /\ \A c, d \in Clients : held[c] # 0 /\ held[c] = held[d] => c = d
    /\ \A t \in TokenId : t >= nextToken => tokens[t].state = "none"
    /\ \A r \in Requests : Working(r) =>
         TokShape(r) /\ (req[r].old # 0 => OldShape(r))

\* Rows that wait for their commit have ids of their own.
FreshIds ==
    \A r, s \in Requests :
        Inserted(r) /\ Inserted(s) /\ req[r].user = req[s].user => r = s

\* A token is of an account that is there.
Accounts == \A t \in TokenId : tokens[t].state # "none" => tokens[t].user \in Rows

Inv == TypeOK /\ FreshIds /\ Accounts /\ \A r \in Requests : ReqShape(r)
Safe == Tokens /\ HeldIsLive /\ TelegramCanSignIn

-----------------------------------------------------------------------------
(* Types.                                                                  *)

LEMMA RowTypes ==
    /\ NoRow \in UserRow /\ Idle \in Request /\ NoToken \in TokenRow
    /\ \A m \in Mails : [NoRow EXCEPT !.mail = m] \in UserRow
    /\ \A m \in Mails, g \in Googles : [NoRow EXCEPT !.mail = m, !.google = g] \in UserRow
    /\ \A x \in Telegrams : [NoRow EXCEPT !.mail = x, !.telegram = x] \in UserRow
    /\ \A g \in Googles \cup {None} : [NoRow EXCEPT !.google = g] \in UserRow
BY DEF NoRow, UserRow, Idle, Request, NoToken, TokenRow, Mails

\* What a request writes about itself.
LEMMA RequestTypes ==
    /\ \A c \in Clients, row \in UserRow, p \in {"mail", "insert"} :
         [Idle EXCEPT !.at = p, !.who = c, !.row = row] \in Request
    /\ \A c \in Clients, row \in UserRow, u \in UserId, old \in TokenId \cup {0},
          t \in TokenId :
         [at |-> FirstPoint, who |-> c, row |-> row, user |-> u, tok |-> t, old |-> old]
           \in Request
<1>1. NoRow \in UserRow
  BY RowTypes
<1>2. QED
  BY <1>1 DEF Request, Idle, FirstPoint

\* Steps that leave the tables alone keep accounts unique.
LEMMA SameUsers ==
    ASSUME TypeOK, users' = users
    PROVE  \A u, v \in Rows' : SameKey(users[u], users[v])' => u = v
BY DEF TypeOK, Rows, SameKey

LEMMA InitInv == Init => Inv
<1> SUFFICES ASSUME Init PROVE Inv
  OBVIOUS
<1>1. \A r \in Requests : req[r] = Idle
  BY DEF Init
<1>2. Rows = {}
  BY DEF Init, Rows, NoRow
<1>3. TypeOK
  <2>1. /\ users \in [UserId -> UserRow] /\ tokens \in [TokenId -> TokenRow]
        /\ held \in [Clients -> TokenId \cup {0}] /\ req \in [Requests -> Request]
    BY RowTypes DEF Init
  <2>2. /\ nextToken \in 1..(MaxTokens + 1) /\ doubled \in [TokenId -> Nat]
        /\ relinked \subseteq Telegrams /\ cut \subseteq TokenId
        /\ faults \in Nat /\ commitFirst \in BOOLEAN /\ lapsed \in 0..MaxTokens
    BY DEF Init
  <2>3. QED
    BY <1>2, <2>1, <2>2 DEF TypeOK
<1>4. \A r \in Requests : ReqShape(r)
  BY <1>1, <1>2 DEF Init, ReqShape, RowShape, Idle, NoRow, Working, Uncommitted, FirstPoint
<1>5. FreshIds
  BY <1>1 DEF FreshIds, Inserted, Uncommitted, FirstPoint, Idle
<1>6. Accounts
  BY DEF Init, Accounts, NoToken
<1>7. QED
  BY <1>3, <1>4, <1>5, <1>6 DEF Inv

LEMMA Unexpired ==
    ASSUME TypeOK, NEW c \in Clients
    PROVE  held[c] \in Nat /\ lapsed \in Nat /\ (held[c] > lapsed => held[c] # 0)
BY DEF TypeOK, TokenId

LEMMA ExpiryTypes == TypeOK /\ TokenExpires => lapsed' \in 0..MaxTokens /\ lapsed' = lapsed + 1
BY DEF TypeOK, TokenExpires

\* A step of a request that does not change users.
LEMMA OwnStep ==
    ASSUME Inv, NEW r \in Requests, NEW q \in Request,
           req' = [req EXCEPT ![r] = q], ReqShape(r)', UNCHANGED <<commitFirst, users, tokens, relinked>>,
           \A s \in Requests \ {r} : Inserted(r)' /\ Inserted(s) => req[s].user # q.user,
           held' \in [Clients -> TokenId \cup {0}],
           nextToken' \in 1..(MaxTokens + 1), doubled' \in [TokenId -> Nat],
           cut' \subseteq TokenId, faults' \in Nat, UNCHANGED lapsed
    PROVE  Inv'
<1>1. TypeOK'
  BY SameUsers DEF Inv, TypeOK
<1>2. ASSUME NEW s \in Requests, s # r PROVE ReqShape(s)'
  <2>1. req'[s] = req[s] /\ ReqShape(s) /\ Rows' = Rows
    BY <1>2 DEF Inv, TypeOK, Rows
  <2>2. QED
    BY <2>1 DEF ReqShape, Working, Uncommitted, FirstPoint
<1>3. FreshIds'
  <2>1. req'[r] = q /\ \A s \in Requests \ {r} : req'[s] = req[s] /\ (Inserted(s)' <=> Inserted(s))
    BY DEF Inv, TypeOK, Inserted, Uncommitted, FirstPoint
  <2>2. QED
    BY <2>1 DEF Inv, FreshIds
<1>4. Accounts'
  BY DEF Inv, Accounts, Rows
<1>5. QED
  BY <1>1, <1>2, <1>3, <1>4 DEF Inv

LEMMA EndInv ==
    ASSUME Inv, NEW r \in Requests, End(r), UNCHANGED <<commitFirst, users, tokens, relinked>>,
           held' \in [Clients -> TokenId \cup {0}],
           nextToken' \in 1..(MaxTokens + 1), doubled' \in [TokenId -> Nat],
           cut' \subseteq TokenId, faults' \in Nat, UNCHANGED lapsed
    PROVE  Inv'
<1>1. Idle \in Request
  BY RowTypes
<1>2. req'[r] = Idle
  BY DEF End, Inv, TypeOK
<1>3. ReqShape(r)'
  BY <1>2 DEF ReqShape, RowShape, Idle, NoRow, Working, Uncommitted, FirstPoint
<1>4. ~Inserted(r)'
  BY <1>2 DEF Inserted, Uncommitted, FirstPoint, Idle
<1>5. QED
  BY <1>1, <1>3, <1>4, OwnStep DEF End

\* issue_tokens for an account that is there, or that is inserted.
LEMMA IssueInv ==
    ASSUME Inv, NEW r \in Requests, NEW c \in Clients, NEW u \in UserId, NEW row \in UserRow,
           NEW old \in TokenId \cup {0}, Issue(r, c, u, row, old), RowShape(row),
           u \in Rows <=> row.mail = None, old # 0 => tokens[old].state # "none",
           \A s \in Requests : row.mail # None => req[s].user # u,
           UNCHANGED <<commitFirst, users, tokens, held, hist, faults>>,
           UNCHANGED lapsed
    PROVE  Inv'
<1> DEFINE q == [at |-> FirstPoint, who |-> c, row |-> row, user |-> u,
                 tok |-> nextToken, old |-> old]
<1>1. req' = [req EXCEPT ![r] = q] /\ nextToken \in TokenId /\ nextToken' = nextToken + 1
  BY DEF Issue
<1>2. q \in Request
  BY <1>1, RequestTypes
<1>3. req'[r] = q /\ Rows' = Rows
  BY <1>1 DEF Inv, TypeOK, Rows
<1>4. q.at \in {"commit", "reply"} /\ q.user = u /\ q.tok # 0 /\ q.row = row /\ q.who = c
      /\ q.old = old
  BY <1>1 DEF FirstPoint, TokenId
<1> HIDE DEF q
<1>5. ReqShape(r)'
  BY <1>3, <1>4 DEF ReqShape, Working, UserId
<1>6. nextToken' \in 1..(MaxTokens + 1)
  BY <1>1 DEF TokenId
<1>7. \A s \in Requests \ {r} : Inserted(r)' /\ Inserted(s) => req[s].user # q.user
  BY <1>3, <1>4 DEF Inserted
<1>8. QED
  BY <1>1, <1>2, <1>5, <1>6, <1>7, OwnStep DEF q, Inv, TypeOK, hist

\* Waiting to insert an account, or to look for the address.
LEMMA WaitInv ==
    ASSUME Inv, NEW r \in Requests, NEW c \in Clients, NEW row \in UserRow,
           NEW p \in {"mail", "insert"},
           req' = [req EXCEPT ![r] = [Idle EXCEPT !.at = p, !.who = c, !.row = row]],
           RowShape(row), row.mail # None,
           UNCHANGED <<commitFirst, users, tokens, held, nextToken, hist, faults>>,
           UNCHANGED lapsed
    PROVE  Inv'
<1> DEFINE q == [Idle EXCEPT !.at = p, !.who = c, !.row = row]
<1>1. q \in Request /\ req'[r] = q
  BY RequestTypes DEF Inv, TypeOK
<1>2. q.at = p /\ q.user = 0 /\ q.tok = 0 /\ q.old = 0 /\ q.row = row /\ q.who = c
  BY DEF Idle
<1> HIDE DEF q
<1>3. /\ req'[r].at = p /\ req'[r].user = 0 /\ req'[r].tok = 0 /\ req'[r].old = 0
      /\ req'[r].row = row /\ req'[r].who = c
  BY <1>1, <1>2
<1>4. p \notin {"commit", "reply"} /\ ~Working(r)' /\ ~Uncommitted(r)'
  BY <1>3 DEF Working, Uncommitted, FirstPoint
<1>5. ReqShape(r)'
  BY <1>3, <1>4 DEF ReqShape, RowShape
<1>6. ~Inserted(r)'
  BY <1>4 DEF Inserted
<1>7. QED
  BY <1>1, <1>5, <1>6, OwnStep DEF q, Inv, TypeOK, hist

\* A commit of new columns leaves accounts unique.
LEMMA WriteUnique ==
    ASSUME TypeOK, NEW u \in UserId, NEW row \in UserRow,
           users' = [users EXCEPT ![u] = row], row.mail # None,
           \A v \in Rows \ {u} : ~SameKey(row, users[v])
    PROVE  /\ users' \in [UserId -> UserRow] /\ Rows' = Rows \cup {u}
           /\ \A v, w \in Rows' : SameKey(users[v], users[w])' => v = w
<1>1. users' \in [UserId -> UserRow] /\ users'[u] = row
      /\ \A v \in UserId \ {u} : users'[v] = users[v]
  BY DEF TypeOK
<1>2. Rows' = Rows \cup {u}
  BY <1>1 DEF Rows
<1>3. \A v \in Rows \ {u} : ~SameKey(users[v], row)
  BY DEF SameKey
<1>4. ASSUME NEW v \in Rows', NEW w \in Rows', SameKey(users'[v], users'[w]), v # w
      PROVE  FALSE
  <2>1. CASE v = u
    <3>1. w \in Rows \ {u}
      BY <1>2, <1>4, <2>1
    <3>2. QED
      BY <1>1, <1>4, <2>1, <3>1 DEF Rows
  <2>2. CASE w = u
    <3>1. v \in Rows \ {u}
      BY <1>2, <1>4, <2>2
    <3>2. QED
      BY <1>1, <1>3, <1>4, <2>2, <3>1 DEF Rows
  <2>3. CASE v # u /\ w # u
    BY <1>1, <1>2, <1>4, <2>3 DEF TypeOK, Rows
  <2>4. QED
    BY <2>1, <2>2, <2>3
<1>5. QED
  BY <1>1, <1>2, <1>4 DEF SameKey

\* Other requests keep their shape when one of them has inserted its row.
LEMMA CommitTypes ==
    ASSUME Inv, NEW r \in Requests, Commit(r)
    PROVE  /\ tokens' \in [TokenId -> TokenRow] /\ doubled' \in [TokenId -> Nat]
           /\ Root(r) \in TokenId \cup {0}
<1>1. /\ req[r] \in Request /\ req[r].user \in UserId /\ req[r].tok \in TokenId
      /\ req[r].old \in TokenId \cup {0} /\ tokens \in [TokenId -> TokenRow]
      /\ doubled \in [TokenId -> Nat]
  BY DEF Inv, TypeOK, Request, ReqShape, Working, Commit
<1>2. Root(r) \in TokenId \cup {0}
  BY <1>1 DEF Root, TokenRow
<1>3. NewRow(r) \in TokenRow
  BY <1>1, <1>2 DEF NewRow, TokenRow
<1>4. \A t \in TokenId : [tokens[t] EXCEPT !.state = "revoked"] \in TokenRow
  BY <1>1 DEF TokenRow
<1>5. tokens' \in [TokenId -> TokenRow]
  BY <1>1, <1>3, <1>4 DEF Commit, WriteTokens
<1>6. Cardinality(Rivals(r)) \in Nat
  BY RequestsAssumption, FS_Subset, FS_CardinalityType DEF Rivals
<1>7. \A t \in TokenId : doubled[t] + Cardinality(Rivals(r)) \in Nat
  BY <1>1, <1>6
<1>8. doubled' \in [TokenId -> Nat]
  <2>1. doubled' = doubled \/ doubled' = [doubled EXCEPT ![Root(r)] = @ + Cardinality(Rivals(r))]
    BY DEF Commit, CountRivals
  <2>2. QED
    BY <1>1, <1>7, <2>1
<1>9. QED
  BY <1>2, <1>5, <1>8

LEMMA CommitInv ==
    ASSUME Inv, NEW r \in Requests, Commit(r), UNCHANGED lapsed
    PROVE  Inv'
<1> DEFINE u == req[r].user
           row == req[r].row
<1>t. /\ users \in [UserId -> UserRow] /\ req \in [Requests -> Request] /\ req[r] \in Request
      /\ row \in UserRow /\ u \in UserId /\ req[r].at = "commit" /\ Uncommitted(r)
      /\ Idle \in Request /\ Rows \subseteq UserId
  BY RowTypes DEF Inv, TypeOK, Request, ReqShape, Working, Commit, Uncommitted, FirstPoint, Rows
<1>s. ReqShape(r) /\ (u \in Rows <=> row.mail = None)
  BY <1>t DEF Inv, ReqShape
<1>k. \A v \in Rows \ {u} : ~SameKey(row, users[v])
  BY DEF Commit, KeyTaken
<1> HIDE DEF u, row
<1>1. /\ users' \in [UserId -> UserRow]
      /\ Rows' = IF row.mail # None THEN Rows \cup {u} ELSE Rows
      /\ \A v, w \in Rows' : SameKey(users[v], users[w])' => v = w
  <2>1. CASE row.mail # None
    <3>1. users' = [users EXCEPT ![u] = row]
      BY <2>1 DEF Commit, WriteUser, u, row
    <3>2. TypeOK
      BY DEF Inv
    <3>3. QED
      BY <1>t, <1>k, <2>1, <3>1, <3>2, WriteUnique
  <2>2. CASE row.mail = None /\ row.google # None
    <3> DEFINE new == [users[u] EXCEPT !.google = row.google]
    <3>1. users' = [users EXCEPT ![u] = new]
      BY <2>2, <1>t DEF Commit, WriteUser, u, row
    <3>2. users[u] \in UserRow /\ users[u].mail # None
      BY <1>t, <1>s, <2>2 DEF Rows
    <3>3. /\ new \in UserRow /\ new.google = row.google /\ new.mail = users[u].mail
          /\ new.telegram = users[u].telegram
      BY <1>t, <3>2 DEF UserRow
    <3>4. \A v \in Rows \ {u} : ~SameKey(new, users[v])
      <4>1. \A v \in Rows \ {u} : ~SameKey(users[u], users[v])
        BY <1>s, <2>2 DEF Inv, TypeOK
      <4>2. QED
        BY <1>k, <2>2, <3>3, <4>1 DEF SameKey
    <3> HIDE DEF new
    <3>5. TypeOK /\ new.mail # None
      BY <3>2, <3>3 DEF Inv
    <3>6. /\ users' \in [UserId -> UserRow] /\ Rows' = Rows \cup {u}
          /\ \A v, w \in Rows' : SameKey(users[v], users[w])' => v = w
      BY <1>t, <3>1, <3>3, <3>4, <3>5, WriteUnique
    <3>7. QED
      BY <1>s, <2>2, <3>6
  <2>3. CASE row.mail = None /\ row.google = None
    <3>1. users' = users
      BY <2>3 DEF Commit, WriteUser, row
    <3>2. QED
      BY <1>t, <2>3, <3>1, SameUsers DEF Inv, Rows
  <2>4. QED
    BY <2>1, <2>2, <2>3
<1>2. PICK q \in Request :
        /\ req' = [req EXCEPT ![r] = q] /\ ~Uncommitted(r)'
        /\ q = Idle \/ (commitFirst /\ q = [req[r] EXCEPT !.at = "reply"])
  <2>1. [req[r] EXCEPT !.at = "reply"] \in Request
    BY <1>t DEF Request
  <2>2. CASE commitFirst
    <3>1. req' = [req EXCEPT ![r] = [req[r] EXCEPT !.at = "reply"]] /\ req'[r].at = "reply"
      BY <1>t, <2>2 DEF Commit, Request
    <3>2. QED
      BY <2>1, <2>2, <3>1 DEF Commit, Uncommitted, FirstPoint
  <2>3. CASE ~commitFirst
    <3>1. req' = [req EXCEPT ![r] = Idle] /\ req'[r].at = "idle"
      BY <1>t, <2>3 DEF Commit, End, Idle
    <3>2. FirstPoint' = "reply" /\ ~(req'[r].at = "commit")
      BY <2>3, <3>1 DEF Commit, FirstPoint
    <3>3. ~Uncommitted(r)'
      BY <3>1, <3>2 DEF Uncommitted
    <3>4. QED
      BY <1>t, <3>1, <3>3
  <2>4. QED
    BY <2>2, <2>3
<1>3. req'[r] = q /\ \A s \in Requests \ {r} : req'[s] = req[s]
  BY <1>t, <1>2
<1>4. UNCHANGED <<commitFirst, held, nextToken, relinked, cut, faults>>
  BY DEF Commit
<1>5. TypeOK'
  <2>1. req' \in [Requests -> Request]
    BY <1>t, <1>2
  <2>2. QED
    BY <1>1, <1>4, <2>1, CommitTypes DEF Inv, TypeOK
<1>6. \A s \in Requests \ {r} : Uncommitted(s)' <=> Uncommitted(s)
  BY <1>3, <1>4 DEF Uncommitted, FirstPoint
<1>7. FreshIds'
  BY <1>2, <1>3, <1>6 DEF Inv, FreshIds, Inserted
<1>o. \A t \in TokenId \cup {0} : t # 0 /\ tokens[t].state # "none" => tokens'[t].state # "none"
  <2>1. \A t \in TokenId : tokens'[t].state \in {tokens[t].state, "live", "revoked"}
    BY DEF Commit, WriteTokens, NewRow, Inv, TypeOK, TokenRow
  <2>2. QED
    BY <2>1
<1>8. ReqShape(r)'
  <2>1. CASE q = Idle
    BY <1>2, <1>3, <2>1 DEF ReqShape, RowShape, Idle, NoRow, Working
  <2>2. CASE commitFirst /\ q = [req[r] EXCEPT !.at = "reply"]
    <3>1. q.at = "reply" /\ q.row = row /\ q.user = u /\ q.tok = req[r].tok /\ q.who = req[r].who
          /\ q.old = req[r].old
      BY <1>t, <2>2 DEF Request, u, row
    <3> HIDE DEF u, row
    <3>2. u # 0 /\ q.tok # 0 /\ q.who \in Clients /\ RowShape(row)
      BY <1>s, <1>t, <3>1 DEF ReqShape, Working, u, row
    <3>3. q.old # 0 => tokens'[q.old].state # "none"
      BY <1>o, <1>s, <1>t, <3>1 DEF ReqShape, Request
    <3>4. QED
      BY <1>2, <1>3, <3>1, <3>2, <3>3 DEF ReqShape, RowShape, Working
  <2>3. QED
    BY <1>2, <2>1, <2>2
<1>9. ASSUME NEW s \in Requests \ {r} PROVE ReqShape(s)'
  <2>1. ReqShape(s) /\ req'[s] = req[s]
    BY <1>3 DEF Inv
  <2>2. Uncommitted(s) => (req[s].user \in Rows' <=> req[s].row.mail = None)
    <3>1. CASE row.mail # None
      <4>1. Inserted(r)
        BY <1>t, <3>1 DEF Inserted, row
      <4>2. Inserted(s) => req[s].user # u
        BY <4>1 DEF Inv, FreshIds, u
      <4>3. QED
        BY <1>1, <2>1, <3>1, <4>2, <1>s DEF ReqShape, Inserted
    <3>2. CASE row.mail = None
      BY <1>1, <2>1, <3>2 DEF ReqShape
    <3>3. QED
      BY <3>1, <3>2
  <2>3. req[s].old # 0 => tokens'[req[s].old].state # "none"
    BY <1>o, <1>t, <2>1 DEF ReqShape, Request
  <2>4. QED
    BY <1>6, <2>1, <2>2, <2>3 DEF ReqShape, RowShape, Working
<1>10. Accounts'
  <2>1. Rows \subseteq Rows' /\ u \in Rows'
    BY <1>1, <1>s
  <2>2. \A t \in TokenId : \/ t = req[r].tok /\ tokens'[t] = NewRow(r)
                           \/ tokens'[t].user = tokens[t].user
                              /\ (tokens'[t].state # "none" =>
                                    tokens[t].state # "none" \/ t = req[r].old)
    BY DEF Commit, WriteTokens, Inv, TypeOK, TokenRow
  <2>3. req[r].old # 0 => tokens[req[r].old].state # "none"
    BY <1>s DEF ReqShape
  <2>4. NewRow(r).user = u
    BY DEF NewRow, u
  <2>5. QED
    BY <2>1, <2>2, <2>3, <2>4 DEF Inv, Accounts, TokenId
<1>11. QED
  BY <1>5, <1>7, <1>8, <1>9, <1>10 DEF Inv

LEMMA LinkInv ==
    ASSUME Inv, LinkTelegram, UNCHANGED lapsed
    PROVE  Inv'
<1>1. PICK u \in Rows, x \in Telegrams :
        /\ \A s \in Requests : ~(Inserted(s) /\ req[s].row.telegram = x)
        /\ ByTelegram(x) \subseteq {u} /\ users' = [users EXCEPT ![u].telegram = x]
        /\ relinked' = relinked \cup ({users[u].telegram} \ {x, None})
  BY DEF LinkTelegram
<1> DEFINE new == [users[u] EXCEPT !.telegram = x]
<1>2. u \in UserId /\ users[u] \in UserRow /\ users[u].mail # None /\ Rows \subseteq UserId
      /\ users' = [users EXCEPT ![u] = new]
  BY <1>1 DEF Rows, Inv, TypeOK
<1>3. /\ new \in UserRow /\ new.google = users[u].google /\ new.mail = users[u].mail
      /\ new.telegram = x
  BY <1>2 DEF UserRow
<1>4. \A v \in Rows \ {u} : ~SameKey(new, users[v])
  <2>1. \A v \in Rows \ {u} : ~SameKey(users[u], users[v])
    BY <1>1 DEF Inv, TypeOK
  <2>2. \A v \in Rows \ {u} : users[v].telegram # x
    BY <1>1 DEF ByTelegram
  <2>3. QED
    BY <1>3, <2>1, <2>2 DEF SameKey
<1> HIDE DEF new
<1>5. TypeOK /\ new.mail # None
  BY <1>2, <1>3 DEF Inv
<1>6. /\ users' \in [UserId -> UserRow] /\ Rows' = Rows \cup {u}
      /\ \A v, w \in Rows' : SameKey(users[v], users[w])' => v = w
  BY <1>2, <1>3, <1>4, <1>5, WriteUnique
<1>7. UNCHANGED <<commitFirst, tokens, held, req, nextToken, doubled, cut, faults>>
  BY DEF LinkTelegram
<1>8. relinked' \subseteq Telegrams
  BY <1>1, <1>2 DEF Inv, TypeOK, UserRow
<1>9. TypeOK'
  BY <1>5, <1>6, <1>7, <1>8 DEF TypeOK
<1>10. FreshIds'
  BY <1>7 DEF Inv, FreshIds, Inserted, Uncommitted, FirstPoint
<1>11. Rows' = Rows
  BY <1>6
<1>12. \A s \in Requests : ReqShape(s)'
  BY <1>7, <1>11 DEF Inv, ReqShape, Working, Uncommitted, FirstPoint
<1>13. Accounts'
  BY <1>7, <1>11 DEF Inv, Accounts
<1>14. QED
  BY <1>9, <1>10, <1>12, <1>13 DEF Inv

LEMMA StepInv ==
    ASSUME Inv, UNCHANGED lapsed,
           (\E r \in Requests : Step(r)) \/ LinkTelegram \/ UNCHANGED vars
    PROVE  Inv'
<1>t. /\ req \in [Requests -> Request] /\ Rows \subseteq UserId
      /\ users \in [UserId -> UserRow] /\ held \in [Clients -> TokenId \cup {0}]
      /\ \A r \in Requests : ReqShape(r) /\ req[r] \in Request
  BY DEF Inv, TypeOK, Rows
<1>m. NoRow.mail = None /\ RowShape(NoRow) /\ NoRow \in UserRow
  BY RowTypes DEF NoRow, RowShape
<1>1. CASE UNCHANGED vars
  <2>1. TypeOK'
    BY <1>1, SameUsers DEF vars, hist, Inv, TypeOK
  <2>2. Rows' = Rows /\ UNCHANGED <<commitFirst, req, tokens>>
    BY <1>1 DEF vars, Rows
  <2>3. FreshIds' /\ Accounts'
    BY <2>2 DEF Inv, FreshIds, Inserted, Uncommitted, FirstPoint, Accounts
  <2>4. \A r \in Requests : ReqShape(r)'
    BY <2>2 DEF Inv, ReqShape, Working, Uncommitted, FirstPoint
  <2>5. QED
    BY <2>1, <2>3, <2>4 DEF Inv
<1>2. ASSUME NEW r \in Requests, Register(r) PROVE Inv'
  <2>1. PICK c \in Clients, m \in Addresses : NewUser(r, c, [NoRow EXCEPT !.mail = m])
    BY <1>2 DEF Register
  <2> DEFINE row == [NoRow EXCEPT !.mail = m]
  <2>2. row \in UserRow /\ row.mail # None /\ RowShape(row)
    BY RowTypes DEF Mails, NoRow, RowShape
  <2>3. req' = [req EXCEPT ![r] = [Idle EXCEPT !.at = "insert", !.who = c, !.row = row]]
        /\ UNCHANGED <<commitFirst, users, tokens, held, nextToken, hist, faults>>
    BY <1>2, <2>1 DEF Register, NewUser
  <2> HIDE DEF row
  <2>4. QED
    BY <2>2, <2>3, WaitInv
<1>3. ASSUME NEW r \in Requests, Login(r) \/ Refresh(r) PROVE Inv'
  <2>1. PICK c \in Clients, u \in Rows, old \in TokenId \cup {0} :
          Issue(r, c, u, NoRow, old) /\ (old # 0 => tokens[old].state # "none")
    <3>1. CASE Login(r)
      BY <3>1 DEF Login, ByMail
    <3>2. CASE Refresh(r)
      <4>1. PICK c \in Clients : held[c] # 0 /\ Issue(r, c, tokens[held[c]].user, NoRow, held[c])
                                 /\ tokens[held[c]].state = "live"
        BY <3>2, Unexpired DEF Refresh, Inv
      <4>2. tokens[held[c]].user \in Rows
        BY <1>t, <4>1 DEF Inv, Accounts
      <4>3. QED
        BY <1>t, <4>1, <4>2
    <3>3. QED
      BY <1>3, <3>1, <3>2
  <2>2. UNCHANGED <<commitFirst, users, tokens, held, hist, faults>>
    BY <1>3 DEF Login, Refresh
  <2>3. QED
    BY <1>t, <1>m, <2>1, <2>2, IssueInv
<1>4. ASSUME NEW r \in Requests, GoogleBySub(r) PROVE Inv'
  <2>1. PICK c \in Clients, p \in Profiles :
          \/ \E u \in ByGoogle(p[1]) : Issue(r, c, u, NoRow, 0)
          \/ /\ req' = [req EXCEPT ![r] = [Idle EXCEPT !.at = "mail", !.who = c,
                            !.row = [NoRow EXCEPT !.mail = p[2], !.google = p[1]]]]
             /\ UNCHANGED nextToken
    BY <1>4 DEF GoogleBySub
  <2> DEFINE row == [NoRow EXCEPT !.mail = p[2], !.google = p[1]]
  <2>2. row \in UserRow /\ row.mail # None /\ RowShape(row)
    BY RowTypes DEF Mails, NoRow, RowShape
  <2>3. UNCHANGED <<commitFirst, users, tokens, held, hist, faults>>
    BY <1>4 DEF GoogleBySub
  <2>4. ASSUME NEW u \in ByGoogle(p[1]), Issue(r, c, u, NoRow, 0) PROVE Inv'
    BY <1>t, <1>m, <2>3, <2>4, IssueInv DEF ByGoogle
  <2> HIDE DEF row
  <2>5. CASE req' = [req EXCEPT ![r] = [Idle EXCEPT !.at = "mail", !.who = c, !.row = row]]
             /\ UNCHANGED nextToken
    BY <2>2, <2>3, <2>5, WaitInv
  <2>6. QED
    BY <2>1, <2>4, <2>5 DEF row
<1>5. ASSUME NEW r \in Requests, GoogleByMail(r) PROVE Inv'
  <2> DEFINE row == req[r].row
             new == [NoRow EXCEPT !.google = row.google]
  <2>1. row \in UserRow /\ RowShape(row) /\ req[r].who \in Clients /\ req[r].at = "mail"
    BY <1>5, <1>t DEF GoogleByMail, ReqShape, Request
  <2>2. UNCHANGED <<commitFirst, users, tokens, held, hist, faults>>
    BY <1>5 DEF GoogleByMail
  <2>3. new \in UserRow /\ new.mail = None /\ RowShape(new)
    BY <2>1, RowTypes DEF UserRow, NoRow, RowShape
  <2>4. \/ \E u \in ByMail(row.mail) : Issue(r, req[r].who, u, new, 0)
        \/ NewUser(r, req[r].who, row)
    BY <1>5 DEF GoogleByMail
  <2>5. row.mail # None
    BY <1>t, <2>1 DEF ReqShape
  <2> HIDE DEF row, new
  <2>6. ASSUME NEW u \in ByMail(row.mail), Issue(r, req[r].who, u, new, 0) PROVE Inv'
    BY <1>t, <2>1, <2>2, <2>3, <2>6, IssueInv DEF ByMail
  <2>7. CASE NewUser(r, req[r].who, row)
    BY <2>1, <2>2, <2>5, <2>7, WaitInv DEF NewUser
  <2>8. QED
    BY <2>4, <2>6, <2>7
<1>6. ASSUME NEW r \in Requests, TelegramLogin(r) PROVE Inv'
  <2>1. PICK c \in Clients, x \in Telegrams :
          \/ \E u \in ByTelegram(x) : Issue(r, c, u, NoRow, 0)
          \/ NewUser(r, c, [NoRow EXCEPT !.mail = x, !.telegram = x])
    BY <1>6 DEF TelegramLogin
  <2> DEFINE row == [NoRow EXCEPT !.mail = x, !.telegram = x]
  <2>2. row \in UserRow /\ row.mail # None /\ RowShape(row)
    BY RowTypes DEF Mails, NoRow, RowShape
  <2>3. UNCHANGED <<commitFirst, users, tokens, held, hist, faults>>
    BY <1>6 DEF TelegramLogin
  <2>4. ASSUME NEW u \in ByTelegram(x), Issue(r, c, u, NoRow, 0) PROVE Inv'
    BY <1>t, <1>m, <2>3, <2>4, IssueInv DEF ByTelegram
  <2> HIDE DEF row
  <2>5. CASE NewUser(r, c, row)
    BY <2>2, <2>3, <2>5, WaitInv DEF NewUser
  <2>6. QED
    BY <2>1, <2>4, <2>5 DEF row
<1>7. ASSUME NEW r \in Requests, InsertUser(r) PROVE Inv'
  <2>1. PICK u \in UserId \ (Rows \cup {req[s].user : s \in Requests}) :
          Issue(r, req[r].who, u, req[r].row, 0)
    BY <1>7 DEF InsertUser
  <2>2. /\ req[r].row \in UserRow /\ RowShape(req[r].row) /\ req[r].who \in Clients
        /\ req[r].row.mail # None
    BY <1>7, <1>t DEF InsertUser, ReqShape, Request
  <2>3. UNCHANGED <<commitFirst, users, tokens, held, hist, faults>>
    BY <1>7 DEF InsertUser
  <2>4. \A s \in Requests : req[s].user # u
    BY <2>1
  <2>5. QED
    BY <2>1, <2>2, <2>3, <2>4, IssueInv
<1>8. ASSUME NEW r \in Requests, InsertConflicts(r) PROVE Inv'
  BY <1>8, EndInv DEF InsertConflicts, hist, Inv, TypeOK
<1>9. ASSUME NEW r \in Requests, CommitFails(r) PROVE Inv'
  <2>1. End(r) /\ UNCHANGED <<commitFirst, users, tokens, held, nextToken, relinked, doubled>>
        /\ faults' \in {faults, faults + 1}
        /\ cut' \in {cut, cut \cup {req[r].tok}}
    BY <1>9 DEF CommitFails, Fault
  <2>2. req[r].tok \in TokenId
    BY <1>9, <1>t DEF CommitFails, ReqShape, Working, Request
  <2>3. QED
    BY <2>1, <2>2, EndInv DEF Inv, TypeOK
<1>10. ASSUME NEW r \in Requests, Reply(r) \/ ReplyLost(r) PROVE Inv'
  <2>1. /\ req[r].at = "reply" /\ AfterReply(r)
        /\ UNCHANGED <<commitFirst, users, tokens, nextToken, relinked, doubled>>
        /\ faults' \in {faults, faults + 1}
        /\ cut' \in {cut, cut \cup ({req[r].old} \ {0})}
        /\ held' \in {held, [held EXCEPT ![req[r].who] = req[r].tok]}
    BY <1>10 DEF Reply, ReplyLost, Fault, hist
  <2>2. req[r].tok \in TokenId /\ req[r].old \in TokenId \cup {0} /\ req[r].who \in Clients
    BY <1>t, <2>1 DEF ReqShape, Working, Request
  <2>3. /\ cut' \subseteq TokenId /\ held' \in [Clients -> TokenId \cup {0}] /\ faults' \in Nat
        /\ doubled' \in [TokenId -> Nat] /\ nextToken' \in 1..(MaxTokens + 1)
    BY <1>t, <2>1, <2>2 DEF Inv, TypeOK
  <2>4. CASE commitFirst
    BY <2>1, <2>3, <2>4, EndInv DEF AfterReply
  <2>5. CASE ~commitFirst
    <3> DEFINE q == [req[r] EXCEPT !.at = "commit"]
    <3>1. req' = [req EXCEPT ![r] = q] /\ q \in Request /\ req'[r] = q
      BY <1>t, <2>1, <2>5 DEF AfterReply, Request
    <3>2. /\ q.at = "commit" /\ q.row = req[r].row /\ q.user = req[r].user /\ q.tok = req[r].tok
          /\ q.who = req[r].who /\ q.old = req[r].old
      BY <1>t DEF Request
    <3> HIDE DEF q
    <3>3. Uncommitted(r) /\ Rows' = Rows
      BY <2>1, <2>5 DEF Uncommitted, FirstPoint, Rows
    <3>4. ReqShape(r)'
      BY <1>t, <2>1, <3>1, <3>2, <3>3 DEF ReqShape, RowShape, Working
    <3>5. \A s \in Requests \ {r} : Inserted(r)' /\ Inserted(s) => req[s].user # q.user
      BY <3>1, <3>2, <3>3 DEF Inserted, Inv, FreshIds
    <3>6. QED
      BY <2>1, <2>3, <3>1, <3>4, <3>5, OwnStep
  <2>6. QED
    BY <2>4, <2>5
<1>11. QED
  BY <1>1, <1>2, <1>3, <1>4, <1>5, <1>6, <1>7, <1>8, <1>9, <1>10, CommitInv, LinkInv DEF Step

LEMMA NextInv == Inv /\ [Next]_vars => Inv'
<1> SUFFICES ASSUME Inv, [Next]_vars PROVE Inv'
  OBVIOUS
<1>1. CASE TokenExpires
  <2>1. UNCHANGED <<commitFirst, users, tokens, held, req, nextToken, hist, faults>>
        /\ lapsed' \in 0..MaxTokens
    BY <1>1, ExpiryTypes DEF TokenExpires, Inv
  <2>2. TypeOK'
    BY <2>1, SameUsers DEF hist, Inv, TypeOK
  <2>3. Rows' = Rows
    BY <2>1 DEF Rows
  <2>4. FreshIds' /\ Accounts'
    BY <2>1, <2>3 DEF Inv, FreshIds, Inserted, Uncommitted, FirstPoint, Accounts
  <2>5. \A r \in Requests : ReqShape(r)'
    BY <2>1, <2>3 DEF Inv, ReqShape, Working, Uncommitted, FirstPoint
  <2>6. QED
    BY <2>2, <2>4, <2>5 DEF Inv
<1>2. QED
  BY <1>1, StepInv DEF Next, vars

\* Overlapping sign-ins make one account for one person.
THEOREM OneAccount == Spec => []TypeOK
<1>1. Inv /\ [Next]_vars => Inv'
  BY NextInv
<1>2. Inv => TypeOK
  BY DEF Inv
<1>3. QED
  BY InitInv, <1>1, <1>2, PTL DEF Spec
-----------------------------------------------------------------------------
(* Tokens and made-up addresses.                                           *)

LEMMA InitSafe == Init => Safe
<1> SUFFICES ASSUME Init PROVE Safe
  OBVIOUS
<1>1. Rows = {}
  BY DEF Init, Rows, NoRow
<1>2. \A r \in Requests : ~Working(r)
  BY DEF Init, Working, Idle
<1>3. Tokens
  BY <1>2 DEF Init, Tokens, NoToken
<1>4. QED
  BY <1>1, <1>3 DEF Init, Safe, HeldIsLive, TelegramCanSignIn, ByMail

\* A request that has not issued anything, or is over, disturbs no token.
LEMMA QuietStep ==
    ASSUME Inv, Tokens, NEW r \in Requests, NEW q \in Request,
           req' = [req EXCEPT ![r] = q],
           q.at \notin {"commit", "reply"}, q.tok = 0, q.old = 0,
           UNCHANGED <<commitFirst, tokens, held, nextToken>>, cut \subseteq cut'
    PROVE  Tokens'
<1>1. req'[r] = q /\ \A s \in Requests \ {r} : req'[s] = req[s]
  BY DEF Inv, TypeOK
<1>2. ~Working(r)'
  BY <1>1 DEF Working
<1>3. ASSUME NEW s \in Requests, Working(s)' PROVE TokShape(s)' /\ (req[s].old # 0 => OldShape(s))'
  <2>1. s # r /\ req'[s] = req[s] /\ Working(s) /\ (Uncommitted(s)' <=> Uncommitted(s))
    BY <1>1, <1>2, <1>3 DEF Working, Uncommitted, FirstPoint
  <2>2. TokShape(s) /\ (req[s].old # 0 => OldShape(s)) /\ req[s].tok # 0
    BY <2>1 DEF Tokens, Inv, ReqShape
  <2>3. TokShape(s)'
    BY <1>1, <2>1, <2>2 DEF TokShape
  <2>4. QED
    BY <2>1, <2>2, <2>3 DEF OldShape
<1>4. QED
  BY <1>3 DEF Tokens

\* HeldIsLive while tokens do not change, if request r was not the excuse.
LEMMA KeptLive ==
    ASSUME Inv, HeldIsLive, NEW r \in Requests,
           \A s \in Requests \ {r} : req'[s] = req[s],
           UNCHANGED <<commitFirst, tokens, held>>, cut \subseteq cut',
           \A c \in Clients :
             (\/ commitFirst /\ req[r].at = "reply" /\ req[r].old = held[c]
              \/ ~commitFirst /\ req[r].at = "commit" /\ req[r].tok = held[c])
             => held[c] \in cut' \cup {0}, UNCHANGED lapsed
    PROVE  HeldIsLive'
<1>1. \A c \in Clients : held[c] = 0 => held[c] =< lapsed
  BY Unexpired DEF Inv
<1>2. QED
  BY <1>1 DEF HeldIsLive

\* Issuing a token that nobody has seen.
LEMMA IssueTokens ==
    ASSUME Inv, Tokens, NEW r \in Requests, NEW c \in Clients, NEW u, NEW row,
           NEW old \in TokenId \cup {0}, Issue(r, c, u, row, old), ~Working(r),
           old # 0 => old = held[c] /\ tokens[old].state = "live",
           UNCHANGED <<commitFirst, tokens, held, cut>>
    PROVE  Tokens'
<1>1. /\ nextToken \in TokenId /\ nextToken' = nextToken + 1
      /\ req'[r].at = FirstPoint /\ req'[r].who = c /\ req'[r].tok = nextToken
      /\ req'[r].old = old
      /\ \A s \in Requests \ {r} : req'[s] = req[s]
  BY DEF Issue, Inv, TypeOK
<1>2. Uncommitted(r)' /\ ~(~commitFirst /\ req'[r].at = "commit")
  BY <1>1 DEF Uncommitted, FirstPoint
<1>t. /\ nextToken \in Nat /\ MaxTokens \in Nat /\ held \in [Clients -> TokenId \cup {0}]
      /\ \A s \in Requests : req[s].tok \in TokenId \cup {0} /\ req[s].old \in TokenId \cup {0}
      /\ \A s \in Requests : ~Working(s) => req[s].tok = 0 /\ req[s].old = 0
  BY DEF Inv, TypeOK, ReqShape, Working, Request
<1>3. \A s \in Requests : req[s].tok < nextToken /\ req[s].old < nextToken
  BY <1>1, <1>t DEF Tokens, TokShape, TokenId
<1>4. old < nextToken /\ \A d \in Clients : held[d] < nextToken
  BY <1>1, <1>t DEF Tokens, TokenId
<1>5. \A s \in Requests \ {r} : Working(s) => old # req[s].tok
  <2>1. SUFFICES ASSUME NEW s \in Requests \ {r}, Working(s), old = req[s].tok PROVE FALSE
    OBVIOUS
  <2>2. TokShape(s) /\ req[s].tok # 0
    BY <2>1 DEF Tokens, Inv, ReqShape
  <2>3. held[c] = req[s].tok /\ tokens[req[s].tok].state = "live"
    BY <2>1, <2>2
  <2>4. ~commitFirst /\ req[s].at = "commit" /\ ~Uncommitted(s)
    BY <2>2, <2>3 DEF TokShape
  <2>5. QED
    BY <2>4 DEF Uncommitted
<1>6. TokShape(r)'
  <2>1. tokens[nextToken].state = "none"
    BY <1>1, <1>t DEF Tokens, TokenId
  <2>2. \A s \in Requests : req'[s].old < nextToken /\ (s # r => req'[s].tok < nextToken)
    BY <1>1, <1>3, <1>4
  <2>3. \A s \in Requests : req'[s].old # nextToken /\ (s # r => req'[s].tok # nextToken)
    <3>1. \A s \in Requests : req'[s].old \in Int /\ (s # r => req'[s].tok \in Int)
      BY <1>1, <1>t DEF TokenId
    <3>2. QED
      BY <2>2, <3>1, <1>t
  <2>4. \A d \in Clients : held[d] # nextToken
    BY <1>4, <1>t DEF TokenId
  <2>5. nextToken < nextToken + 1 /\ old < nextToken + 1
    BY <1>4, <1>t DEF TokenId
  <2>6. QED
    BY <1>1, <1>2, <2>1, <2>3, <2>4, <2>5 DEF TokShape
<1>7. old # 0 => OldShape(r)'
  BY <1>1, <1>2 DEF Tokens, OldShape
<1>8. ASSUME NEW s \in Requests \ {r}, Working(s)'
      PROVE  TokShape(s)' /\ (req[s].old # 0 => OldShape(s))'
  <2>1. req'[s] = req[s] /\ Working(s) /\ (Uncommitted(s)' <=> Uncommitted(s))
    BY <1>1, <1>8 DEF Working, Uncommitted, FirstPoint
  <2>2. TokShape(s) /\ (req[s].old # 0 => OldShape(s))
    BY <2>1 DEF Tokens
  <2>3. req[s].tok < nextToken + 1 /\ req[s].old < nextToken + 1 /\ req[s].tok # nextToken
    BY <1>3, <1>t DEF TokenId
  <2>4. TokShape(s)'
    BY <1>1, <1>5, <2>1, <2>2, <2>3 DEF TokShape
  <2>5. QED
    BY <2>1, <2>2, <2>4 DEF OldShape
<1>9. /\ \A d \in Clients : held[d] < nextToken + 1
      /\ \A t \in TokenId : t >= nextToken + 1 => tokens[t].state = "none"
  BY <1>4, <1>t DEF Tokens, TokenId
<1>10. QED
  BY <1>1, <1>6, <1>7, <1>8, <1>9 DEF Tokens

LEMMA IssueSafe ==
    ASSUME Inv, Safe, NEW r \in Requests, NEW c \in Clients, NEW u, NEW row,
           NEW old \in TokenId \cup {0}, Issue(r, c, u, row, old), ~Working(r),
           old # 0 => old = held[c] /\ tokens[old].state = "live",
           UNCHANGED <<commitFirst, users, tokens, held, hist, faults>>,
           UNCHANGED lapsed
    PROVE  Safe'
<1>1. Tokens'
  BY IssueTokens DEF Safe, hist
<1>2. HeldIsLive'
  <2>1. \A s \in Requests \ {r} : req'[s] = req[s]
    BY DEF Issue, Inv, TypeOK
  <2>2. req[r].at \notin {"commit", "reply"}
    BY DEF Working
  <2>3. QED
    BY <2>1, <2>2, KeptLive DEF Safe, hist
<1>3. TelegramCanSignIn'
  BY DEF Safe, TelegramCanSignIn, ByMail, Rows, hist
<1>4. QED
  BY <1>1, <1>2, <1>3 DEF Safe

\* Waiting, or refused.
LEMMA QuietSafe ==
    ASSUME Inv, Safe, NEW r \in Requests, NEW q \in Request,
           req' = [req EXCEPT ![r] = q], ~Working(r),
           q.at \notin {"commit", "reply"}, q.tok = 0, q.old = 0,
           UNCHANGED <<commitFirst, users, tokens, held, nextToken, hist>>,
           UNCHANGED lapsed
    PROVE  Safe'
<1>1. Tokens'
  BY QuietStep DEF Safe, hist
<1>2. HeldIsLive'
  <2>1. \A s \in Requests \ {r} : req'[s] = req[s]
    BY DEF Inv, TypeOK
  <2>2. req[r].at \notin {"commit", "reply"}
    BY DEF Working
  <2>3. QED
    BY <2>1, <2>2, KeptLive DEF Safe, hist
<1>3. TelegramCanSignIn'
  BY DEF Safe, TelegramCanSignIn, ByMail, Rows, hist
<1>4. QED
  BY <1>1, <1>2, <1>3 DEF Safe

\* A commit revokes nothing but the token the request was sent.
LEMMA CommitTokens ==
    ASSUME Inv, Safe, NEW r \in Requests, Commit(r), UNCHANGED lapsed
    PROVE  Tokens' /\ HeldIsLive'
<1> DEFINE tok == req[r].tok
           old == req[r].old
           who == req[r].who
<1>t. /\ tok \in TokenId /\ old \in TokenId \cup {0} /\ who \in Clients
      /\ req \in [Requests -> Request] /\ held \in [Clients -> TokenId \cup {0}]
      /\ tokens \in [TokenId -> TokenRow] /\ req[r].at = "commit" /\ Uncommitted(r)
      /\ \A s \in Requests : Working(s) => req[s].tok \in TokenId
  BY DEF Inv, TypeOK, Request, ReqShape, Working, Commit, Uncommitted, FirstPoint
<1>s. TokShape(r) /\ (old # 0 => OldShape(r))
  BY <1>t DEF Safe, Tokens, Working
<1>1. WriteTokens(r) /\ UNCHANGED <<commitFirst, held, nextToken, cut>>
  BY DEF Commit
<1>2. /\ tokens'[tok].state = "live"
      /\ \A t \in TokenId \ {tok, old} : tokens'[t] = tokens[t]
  <2>1. tokens'[tok] = NewRow(r) /\ \A t \in TokenId \ {tok, old} : tokens'[t] = tokens[t]
    BY <1>1, <1>t, Zenon DEF WriteTokens
  <2>2. QED
    BY <2>1 DEF NewRow
<1>3. /\ \A s \in Requests \ {r} : req'[s] = req[s]
      /\ commitFirst => req'[r] = [req[r] EXCEPT !.at = "reply"]
      /\ ~commitFirst => req'[r] = Idle
  BY <1>t DEF Commit, End
<1>4. /\ commitFirst => /\ req'[r].at = "reply" /\ req'[r].tok = tok /\ req'[r].old = old
                        /\ req'[r].who = who
      /\ ~commitFirst => ~Working(r)'
  BY <1>3, <1>t DEF Request, Idle, Working
<1> HIDE DEF tok, old, who
<1>5. ASSUME NEW s \in Requests \ {r}, Working(s)'
      PROVE  TokShape(s)' /\ (req[s].old # 0 => OldShape(s))'
  <2>1. req'[s] = req[s] /\ Working(s) /\ (Uncommitted(s)' <=> Uncommitted(s))
    BY <1>1, <1>3, <1>5 DEF Working, Uncommitted, FirstPoint
  <2>2. TokShape(s) /\ (req[s].old # 0 => OldShape(s)) /\ req[s].tok \in TokenId
    BY <1>t, <2>1 DEF Safe, Tokens
  <2>3. req[s].tok # tok /\ req[s].tok # old
    BY <1>s, <2>2 DEF TokShape, tok, old
  <2>4. tokens'[req[s].tok] = tokens[req[s].tok]
    BY <1>2, <2>2, <2>3
  <2>5. \A p \in Requests : /\ req'[p].old # req[s].tok
                            /\ p # s => req'[p].tok # req[s].tok
    <3>1. Idle.old = 0 /\ Idle.tok = 0 /\ req[s].tok # 0
      BY <2>2 DEF Idle, TokenId
    <3>2. req'[r].old \in {old, 0} /\ req'[r].tok \in {tok, 0}
      BY <1>3, <1>4, <3>1
    <3>3. QED
      BY <1>3, <2>2, <2>3, <3>1, <3>2 DEF TokShape
  <2>6. TokShape(s)'
    BY <1>1, <2>1, <2>2, <2>4, <2>5 DEF TokShape
  <2>7. QED
    BY <1>1, <2>1, <2>2, <2>6 DEF OldShape
<1>6. ASSUME Working(r)' PROVE TokShape(r)' /\ (req[r].old # 0 => OldShape(r))'
  <2>1. /\ commitFirst /\ req'[r].at = "reply" /\ req'[r].tok = tok /\ req'[r].old = old
        /\ req'[r].who = who
    BY <1>4, <1>6
  <2>2. ~Uncommitted(r)'
    BY <1>1, <2>1 DEF Uncommitted, FirstPoint
  <2>3. TokShape(r)'
    <3>1. \A p \in Requests : req'[p].old # tok /\ (p # r => req'[p].tok # tok)
      BY <1>3, <1>s, <2>1 DEF TokShape, tok, old
    <3>2. QED
      BY <1>1, <1>2, <1>s, <2>1, <2>2, <3>1 DEF TokShape, tok, old, who
  <2>4. QED
    BY <1>1, <1>s, <2>1, <2>3 DEF OldShape, tok, old, who
<1>7. Tokens'
  <2>1. tok < nextToken /\ old < nextToken
    BY <1>s DEF TokShape, tok, old
  <2>2. \A t \in TokenId : t >= nextToken => t # tok /\ t # old
    BY <2>1, <1>t DEF TokenId, Inv, TypeOK
  <2>3. \A t \in TokenId : t >= nextToken => tokens'[t].state = "none"
    BY <1>2, <2>2 DEF Safe, Tokens
  <2>4. QED
    BY <1>1, <1>5, <1>6, <2>3 DEF Safe, Tokens
<1>z. \A c \in Clients : held[c] > lapsed <=> ~(held[c] =< lapsed)
  BY Unexpired DEF Inv
<1>8. ASSUME NEW c \in Clients, ~(held[c] =< lapsed), held[c] \notin cut
      PROVE  \/ tokens'[held[c]].state = "live"
             \/ \E s \in Requests :
                  \/ commitFirst /\ req'[s].at = "reply" /\ req'[s].old = held[c]
                  \/ ~commitFirst /\ req'[s].at = "commit" /\ req'[s].tok = held[c]
  <2>1. CASE held[c] = tok
    BY <1>2, <2>1
  <2>2. CASE held[c] = old
    <3>1. old # 0 /\ c = who
      BY <1>8, <1>z, <1>s, <2>2, Unexpired DEF OldShape, old, who, Inv
    <3>2. commitFirst
      BY <1>8, <1>s, <1>t, <2>2, <3>1 DEF OldShape, old, who
    <3>3. QED
      BY <1>4, <2>2, <3>2
  <2>3. CASE held[c] # tok /\ held[c] # old
    <3>1. tokens'[held[c]] = tokens[held[c]]
      BY <1>2, <1>8, <1>z, <1>t, <2>3, Unexpired DEF Inv
    <3>2. CASE tokens[held[c]].state = "live"
      BY <3>1, <3>2
    <3>3. CASE \E s \in Requests :
                 \/ commitFirst /\ req[s].at = "reply" /\ req[s].old = held[c]
                 \/ ~commitFirst /\ req[s].at = "commit" /\ req[s].tok = held[c]
      <4>1. PICK s \in Requests :
              \/ commitFirst /\ req[s].at = "reply" /\ req[s].old = held[c]
              \/ ~commitFirst /\ req[s].at = "commit" /\ req[s].tok = held[c]
        BY <3>3
      <4>2. s # r
        BY <1>t, <2>3, <4>1 DEF tok
      <4>3. QED
        BY <1>3, <4>1, <4>2
    <3>4. QED
      BY <1>8, <3>2, <3>3 DEF Safe, HeldIsLive
  <2>4. QED
    BY <2>1, <2>2, <2>3
<1>9. HeldIsLive'
  BY <1>1, <1>8 DEF HeldIsLive
<1>10. QED
  BY <1>7, <1>9

\* An account that is written with a made-up address has the id.
LEMMA CommitTelegram ==
    ASSUME Inv, Safe, NEW r \in Requests, Commit(r)
    PROVE  TelegramCanSignIn'
<1>1. /\ users \in [UserId -> UserRow] /\ req[r].user \in UserId /\ RowShape(req[r].row)
      /\ Uncommitted(r) /\ ReqShape(r) /\ UNCHANGED relinked
  BY DEF Inv, TypeOK, Request, ReqShape, Working, Commit, Uncommitted, FirstPoint
<1>2. ASSUME NEW x \in Telegrams \ relinked, NEW u \in Rows', users'[u].mail = x
      PROVE  users'[u].telegram = x
  <2>1. u \in UserId /\ x # None
    BY <1>2 DEF Rows, Mails
  <2>2. CASE req[r].row.mail # None /\ u = req[r].user
    <3>1. users'[u] = req[r].row
      BY <1>1, <2>2 DEF Commit, WriteUser
    <3>2. QED
      BY <1>1, <1>2, <3>1 DEF RowShape
  <2>3. CASE ~(req[r].row.mail # None /\ u = req[r].user)
    <3>1. users'[u].mail = users[u].mail /\ users'[u].telegram = users[u].telegram
      BY <1>1, <2>1, <2>3 DEF Commit, WriteUser, UserRow
    <3>2. u \in ByMail(x)
      BY <1>2, <2>1, <3>1 DEF ByMail, Rows
    <3>3. QED
      BY <1>2, <3>1, <3>2 DEF Safe, TelegramCanSignIn
  <2>4. QED
    BY <2>2, <2>3
<1>3. QED
  BY <1>1, <1>2 DEF TelegramCanSignIn, ByMail

\* The transaction is rolled back: who was answered already has a dead token.
LEMMA FailSafe ==
    ASSUME Inv, Safe, NEW r \in Requests, CommitFails(r), UNCHANGED lapsed
    PROVE  Safe'
<1>1. /\ req[r].at = "commit" /\ End(r) /\ UNCHANGED <<commitFirst, users, tokens, held, nextToken, relinked>>
      /\ cut' = IF commitFirst THEN cut ELSE cut \cup {req[r].tok}
  BY DEF CommitFails
<1>2. Idle \in Request /\ Idle.at \notin {"commit", "reply"} /\ Idle.tok = 0 /\ Idle.old = 0
  BY RowTypes DEF Idle
<1>3. Tokens'
  BY <1>1, <1>2, QuietStep DEF End, Safe
<1>4. HeldIsLive'
  <2>1. \A s \in Requests \ {r} : req'[s] = req[s]
    BY <1>1 DEF End, Inv, TypeOK
  <2>2. QED
    BY <1>1, <2>1, KeptLive DEF Safe
<1>5. TelegramCanSignIn'
  BY <1>1 DEF Safe, TelegramCanSignIn, ByMail, Rows
<1>6. QED
  BY <1>3, <1>4, <1>5 DEF Safe

\* The answer, before or after the commit.
LEMMA ReplySafe ==
    ASSUME Inv, Safe, NEW r \in Requests, Reply(r) \/ ReplyLost(r), UNCHANGED lapsed
    PROVE  Safe'
<1> DEFINE tok == req[r].tok
           old == req[r].old
           who == req[r].who
<1>t. /\ tok \in TokenId /\ old \in TokenId \cup {0} /\ who \in Clients /\ req[r] \in Request
      /\ req \in [Requests -> Request] /\ held \in [Clients -> TokenId \cup {0}]
      /\ req[r].at = "reply" /\ Working(r)
      /\ \A s \in Requests : Working(s) => req[s].tok \in TokenId
  BY DEF Inv, TypeOK, Request, ReqShape, Working, Reply, ReplyLost
<1>s. TokShape(r) /\ (old # 0 => OldShape(r))
  BY <1>t DEF Safe, Tokens
<1>1. /\ UNCHANGED <<commitFirst, users, tokens, nextToken, relinked>>
      /\ \/ held' = [held EXCEPT ![who] = tok] /\ cut' = cut
         \/ held' = held /\ cut' = cut \cup ({old} \ {0})
  BY DEF Reply, ReplyLost, hist
<1>2. /\ \A s \in Requests \ {r} : req'[s] = req[s]
      /\ commitFirst => req'[r] = Idle
      /\ ~commitFirst => req'[r] = [req[r] EXCEPT !.at = "commit"]
  BY <1>t DEF Reply, ReplyLost, AfterReply, End
<1>3. /\ commitFirst => ~Working(r)' /\ req'[r].tok = 0 /\ req'[r].old = 0
      /\ ~commitFirst => /\ req'[r].at = "commit" /\ req'[r].tok = tok /\ req'[r].old = old
                         /\ req'[r].who = who
  BY <1>2, <1>t DEF Request, Idle, Working
<1>4. tok \notin {held[c] : c \in Clients} /\ tok < nextToken /\ tok # 0 /\ tok # old
  BY <1>s, <1>t DEF TokShape, TokenId, tok, old
<1> HIDE DEF tok, old, who
<1>5. \A c \in Clients : held'[c] = held[c] \/ (c = who /\ held'[c] = tok)
  BY <1>1, <1>t
<1>6. ASSUME NEW s \in Requests \ {r}, Working(s)'
      PROVE  TokShape(s)' /\ (req[s].old # 0 => OldShape(s))'
  <2>1. req'[s] = req[s] /\ Working(s) /\ (Uncommitted(s)' <=> Uncommitted(s))
    BY <1>1, <1>2, <1>6 DEF Working, Uncommitted, FirstPoint
  <2>2. TokShape(s) /\ (req[s].old # 0 => OldShape(s)) /\ req[s].tok \in TokenId
    BY <1>t, <2>1 DEF Safe, Tokens
  <2>3. req[s].tok # tok /\ req[s].old # tok
    BY <1>s, <2>2 DEF TokShape, tok
  <2>4. \A p \in Requests : /\ req'[p].old # req[s].tok
                            /\ p # s => req'[p].tok # req[s].tok
    <3>1. req'[r].old \in {old, 0} /\ req'[r].tok \in {tok, 0} /\ req[s].tok # 0
      BY <1>3, <2>2 DEF TokenId
    <3>2. req[s].tok # old
      BY <2>2 DEF TokShape, old
    <3>3. QED
      BY <1>2, <2>2, <2>3, <3>1, <3>2 DEF TokShape
  <2>5. TokShape(s)'
    BY <1>1, <1>5, <2>1, <2>2, <2>3, <2>4 DEF TokShape
  <2>6. ASSUME req[s].old # 0 PROVE OldShape(s)'
    <3>1. OldShape(s) /\ req[s].who \in Clients
      BY <2>1, <2>2, <2>6 DEF Inv, ReqShape, Working
    <3>2. QED
      BY <1>1, <1>5, <2>1, <2>3, <3>1 DEF OldShape
  <2>7. QED
    BY <2>1, <2>5, <2>6
<1>7. ASSUME Working(r)' PROVE TokShape(r)' /\ (req[r].old # 0 => OldShape(r))'
  <2>1. /\ ~commitFirst /\ req'[r].at = "commit" /\ req'[r].tok = tok /\ req'[r].old = old
        /\ req'[r].who = who
    BY <1>3, <1>7
  <2>2. Uncommitted(r)' /\ Uncommitted(r)
    BY <1>1, <1>t, <2>1 DEF Uncommitted, FirstPoint
  <2>3. TokShape(r)'
    <3>1. \A p \in Requests : req'[p].old # tok /\ (p # r => req'[p].tok # tok)
      BY <1>2, <1>s, <2>1 DEF TokShape, tok, old
    <3>2. \A c \in Clients : held'[c] = tok => c = who
      BY <1>4, <1>5
    <3>3. QED
      BY <1>1, <1>s, <2>1, <2>2, <3>1, <3>2 DEF TokShape, tok, old, who
  <2>4. ASSUME old # 0 PROVE OldShape(r)'
    <3>1. \A c \in Clients : held'[c] = old => c = who
      BY <1>s, <1>4, <1>5, <2>4 DEF OldShape, old, who
    <3>2. held'[who] # old \/ old \in cut'
      BY <1>1, <1>4, <1>t, <2>4
    <3>3. QED
      BY <2>1, <3>1, <3>2 DEF OldShape
  <2>5. QED
    BY <2>1, <2>3, <2>4
<1>8. Tokens'
  <2>1. \A c \in Clients : held'[c] < nextToken
    BY <1>4, <1>5 DEF Safe, Tokens
  <2>2. \A c, d \in Clients : held'[c] # 0 /\ held'[c] = held'[d] => c = d
    BY <1>4, <1>5 DEF Safe, Tokens
  <2>3. QED
    BY <1>1, <1>6, <1>7, <2>1, <2>2 DEF Safe, Tokens
<1>9. HeldIsLive'
  <2>1. CASE held' = held
    <3>1. cut \subseteq cut' /\ old \in cut' \cup {0}
      BY <1>1, <1>4, <1>t, <2>1
    <3>2. QED
      BY <1>1, <1>2, <1>t, <2>1, <3>1, KeptLive DEF Safe, old
  <2>2. CASE held' = [held EXCEPT ![who] = tok] /\ cut' = cut
    <3>1. ASSUME NEW c \in Clients, c # who, ~(held[c] =< lapsed), held[c] \notin cut
          PROVE  \/ tokens[held[c]].state = "live"
                 \/ \E s \in Requests :
                      \/ commitFirst /\ req'[s].at = "reply" /\ req'[s].old = held[c]
                      \/ ~commitFirst /\ req'[s].at = "commit" /\ req'[s].tok = held[c]
      <4>1. ASSUME NEW s \in Requests,
                   \/ commitFirst /\ req[s].at = "reply" /\ req[s].old = held[c]
                   \/ ~commitFirst /\ req[s].at = "commit" /\ req[s].tok = held[c]
            PROVE  req'[s] = req[s]
        <5>1. CASE s = r
          <6>1. old = held[c] /\ held[c] # 0
            BY <1>t, <3>1, <4>1, <5>1, Unexpired DEF old, Inv
          <6>2. QED
            BY <1>s, <3>1, <6>1 DEF OldShape, old, who
        <5>2. QED
          BY <1>2, <5>1
      <4>2. QED
        BY <3>1, <4>1 DEF Safe, HeldIsLive
    <3>2. \/ tokens[tok].state = "live"
          \/ ~commitFirst /\ req'[r].at = "commit" /\ req'[r].tok = tok
      <4>1. CASE commitFirst
        BY <1>s, <1>t, <4>1 DEF TokShape, Uncommitted, FirstPoint, tok
      <4>2. CASE ~commitFirst
        BY <1>3, <4>2
      <4>3. QED
        BY <4>1, <4>2
    <3>3. held'[who] = tok /\ \A c \in Clients \ {who} : held'[c] = held[c]
      BY <1>t, <2>2
    <3>4. QED
      BY <1>1, <2>2, <3>1, <3>2, <3>3 DEF HeldIsLive
  <2>3. QED
    BY <1>1, <2>1, <2>2
<1>10. TelegramCanSignIn'
  BY <1>1 DEF Safe, TelegramCanSignIn, ByMail, Rows
<1>11. QED
  BY <1>8, <1>9, <1>10 DEF Safe

\* Who loses the id the address was made up for is counted as re-linked.
LEMMA LinkSafe ==
    ASSUME Inv, Safe, LinkTelegram, UNCHANGED lapsed
    PROVE  Safe'
<1>1. PICK u \in Rows, x \in Telegrams :
        /\ users' = [users EXCEPT ![u].telegram = x]
        /\ relinked' = relinked \cup ({users[u].telegram} \ {x, None})
  BY DEF LinkTelegram
<1>2. UNCHANGED <<commitFirst, tokens, held, req, nextToken, cut>>
  BY DEF LinkTelegram
<1>3. Tokens' /\ HeldIsLive'
  <2>1. \A r \in Requests : (Working(r)' <=> Working(r)) /\ (Uncommitted(r)' <=> Uncommitted(r))
    BY <1>2 DEF Working, Uncommitted, FirstPoint
  <2>2. QED
    BY <1>2, <2>1 DEF Safe, Tokens, TokShape, OldShape, HeldIsLive
<1>4. ASSUME NEW y \in Telegrams \ relinked', NEW v \in Rows', users'[v].mail = y
      PROVE  users'[v].telegram = y
  <2>1. /\ users \in [UserId -> UserRow] /\ u \in UserId /\ v \in UserId /\ y # None
    BY <1>4 DEF Inv, TypeOK, Rows, Mails
  <2>2. users'[v].mail = users[v].mail /\ y \notin relinked
    BY <1>1, <1>4, <2>1 DEF UserRow
  <2>3. users[v].telegram = y
    BY <1>4, <2>1, <2>2 DEF Safe, TelegramCanSignIn, ByMail, Rows
  <2>4. CASE v = u
    BY <1>1, <1>4, <2>1, <2>3, <2>4 DEF UserRow
  <2>5. CASE v # u
    BY <1>1, <2>1, <2>3, <2>5
  <2>6. QED
    BY <2>4, <2>5
<1>5. QED
  BY <1>3, <1>4 DEF Safe, TelegramCanSignIn, ByMail

LEMMA StepSafe ==
    ASSUME Inv, Safe, UNCHANGED lapsed,
           (\E r \in Requests : Step(r)) \/ LinkTelegram \/ UNCHANGED vars
    PROVE  Safe'
<1>t. /\ held \in [Clients -> TokenId \cup {0}]
      /\ \A r \in Requests : ReqShape(r) /\ req[r] \in Request
  BY DEF Inv, TypeOK
<1>r. /\ NoRow \in UserRow /\ Idle \in Request
      /\ Idle.at \notin {"commit", "reply"} /\ Idle.tok = 0 /\ Idle.old = 0
  BY RowTypes DEF Idle
<1>w. \A c \in Clients, row \in UserRow, p \in {"mail", "insert"} :
        LET q == [Idle EXCEPT !.at = p, !.who = c, !.row = row]
        IN q \in Request /\ q.at \notin {"commit", "reply"} /\ q.tok = 0 /\ q.old = 0
  BY RequestTypes DEF Idle
<1>1. CASE UNCHANGED vars
  <2>1. UNCHANGED <<commitFirst, users, tokens, held, req, nextToken, relinked, cut>>
    BY <1>1 DEF vars, hist
  <2>2. \A r \in Requests : (Working(r)' <=> Working(r)) /\ (Uncommitted(r)' <=> Uncommitted(r))
    BY <2>1 DEF Working, Uncommitted, FirstPoint
  <2>3. QED
    BY <2>1, <2>2 DEF Safe, Tokens, TokShape, OldShape, HeldIsLive, TelegramCanSignIn, ByMail, Rows
<1>2. ASSUME NEW r \in Requests, NEW c \in Clients, NEW row \in UserRow,
             NEW p \in {"mail", "insert"},
             req' = [req EXCEPT ![r] = [Idle EXCEPT !.at = p, !.who = c, !.row = row]],
             ~Working(r), UNCHANGED <<commitFirst, users, tokens, held, nextToken, hist>>
      PROVE  Safe'
  <2> DEFINE q == [Idle EXCEPT !.at = p, !.who = c, !.row = row]
  <2>1. q \in Request /\ q.at \notin {"commit", "reply"} /\ q.tok = 0 /\ q.old = 0
    BY <1>w
  <2>2. req' = [req EXCEPT ![r] = q]
    BY <1>2
  <2> HIDE DEF q
  <2>3. QED
    BY <1>2, <2>1, <2>2, QuietSafe
<1>3. ASSUME NEW r \in Requests, Register(r) \/ TelegramLogin(r) PROVE Safe'
  <2>1. ~Working(r) /\ UNCHANGED <<commitFirst, users, tokens, held, hist, faults>>
    BY <1>3 DEF Register, TelegramLogin, Begins, Working
  <2>2. CASE \E c \in Clients, row \in UserRow : NewUser(r, c, row)
    BY <1>2, <2>1, <2>2 DEF NewUser
  <2>3. CASE \E c \in Clients, u \in UserId : Issue(r, c, u, NoRow, 0)
    BY <2>1, <2>3, IssueSafe
  <2>4. QED
    BY <1>3, <2>2, <2>3, RowTypes DEF Register, TelegramLogin, Mails, ByTelegram, Rows
<1>4. ASSUME NEW r \in Requests, Login(r) PROVE Safe'
  BY <1>4, IssueSafe DEF Login, Begins, Working
<1>5. ASSUME NEW r \in Requests, GoogleBySub(r) PROVE Safe'
  <2>1. ~Working(r) /\ UNCHANGED <<commitFirst, users, tokens, held, hist, faults>>
    BY <1>5 DEF GoogleBySub, Begins, Working
  <2>2. PICK c \in Clients, p \in Profiles :
          \/ \E u \in ByGoogle(p[1]) : Issue(r, c, u, NoRow, 0)
          \/ /\ req' = [req EXCEPT ![r] = [Idle EXCEPT !.at = "mail", !.who = c,
                            !.row = [NoRow EXCEPT !.mail = p[2], !.google = p[1]]]]
             /\ UNCHANGED nextToken
    BY <1>5 DEF GoogleBySub
  <2>3. [NoRow EXCEPT !.mail = p[2], !.google = p[1]] \in UserRow
    BY RowTypes DEF Mails
  <2>4. CASE \E u \in ByGoogle(p[1]) : Issue(r, c, u, NoRow, 0)
    BY <2>1, <2>4, IssueSafe
  <2>5. CASE /\ req' = [req EXCEPT ![r] = [Idle EXCEPT !.at = "mail", !.who = c,
                            !.row = [NoRow EXCEPT !.mail = p[2], !.google = p[1]]]]
             /\ UNCHANGED nextToken
    BY <1>2, <2>1, <2>3, <2>5
  <2>6. QED
    BY <2>2, <2>4, <2>5
<1>6. ASSUME NEW r \in Requests, GoogleByMail(r) PROVE Safe'
  <2>1. /\ ~Working(r) /\ req[r].who \in Clients /\ req[r].row \in UserRow
        /\ UNCHANGED <<commitFirst, users, tokens, held, hist, faults>>
    BY <1>6, <1>t DEF GoogleByMail, Working, ReqShape, Request
  <2>2. CASE NewUser(r, req[r].who, req[r].row)
    BY <1>2, <2>1, <2>2 DEF NewUser
  <2>3. CASE \E u \in ByMail(req[r].row.mail) :
               Issue(r, req[r].who, u, [NoRow EXCEPT !.google = req[r].row.google], 0)
    BY <2>1, <2>3, IssueSafe
  <2>4. QED
    BY <1>6, <2>2, <2>3 DEF GoogleByMail
<1>7. ASSUME NEW r \in Requests, InsertUser(r) PROVE Safe'
  <2>1. ~Working(r) /\ req[r].who \in Clients
    BY <1>7, <1>t DEF InsertUser, Working, ReqShape
  <2>2. QED
    BY <1>7, <2>1, IssueSafe DEF InsertUser
<1>8. ASSUME NEW r \in Requests, InsertConflicts(r) PROVE Safe'
  BY <1>8, <1>r, QuietSafe DEF InsertConflicts, End, Working
<1>9. ASSUME NEW r \in Requests, Refresh(r) PROVE Safe'
  <2>1. PICK c \in Clients : /\ held[c] # 0 /\ tokens[held[c]].state = "live"
                             /\ Issue(r, c, tokens[held[c]].user, NoRow, held[c])
    BY <1>9, Unexpired DEF Refresh, Inv
  <2>2. ~Working(r) /\ held[c] \in TokenId \cup {0}
        /\ UNCHANGED <<commitFirst, users, tokens, held, hist, faults>>
    BY <1>9, <1>t DEF Refresh, Begins, Working
  <2>3. QED
    BY <2>1, <2>2, IssueSafe
<1>10. ASSUME NEW r \in Requests, Commit(r) PROVE Safe'
  BY <1>10, CommitTokens, CommitTelegram DEF Safe
<1>11. QED
  BY <1>1, <1>3, <1>4, <1>5, <1>6, <1>7, <1>8, <1>9, <1>10, FailSafe, ReplySafe, LinkSafe
  DEF Step

LEMMA NextSafe == Inv /\ Safe /\ [Next]_vars => Safe'
<1> SUFFICES ASSUME Inv, Safe, [Next]_vars PROVE Safe'
  OBVIOUS
<1>1. CASE TokenExpires
  <2>1. UNCHANGED <<commitFirst, users, tokens, held, req, nextToken, relinked, cut>>
    BY <1>1 DEF TokenExpires, hist
  <2>2. \A r \in Requests : (Working(r)' <=> Working(r)) /\ (Uncommitted(r)' <=> Uncommitted(r))
    BY <2>1 DEF Working, Uncommitted, FirstPoint
  <2>3. Tokens' /\ TelegramCanSignIn'
    BY <2>1, <2>2 DEF Safe, Tokens, TokShape, OldShape, TelegramCanSignIn, ByMail, Rows
  <2>4. \A c \in Clients : held[c] =< lapsed => held[c] =< lapsed'
    BY <1>1, ExpiryTypes, Unexpired DEF Inv
  <2>5. HeldIsLive'
    BY <2>1, <2>4 DEF Safe, HeldIsLive
  <2>6. QED
    BY <2>3, <2>5 DEF Safe
<1>2. QED
  BY <1>1, StepSafe DEF Next, vars

\* Until it expires, a client can refresh with the token it has.
THEOREM TokenKept == Spec => []HeldIsLive
<1>1. Init => Inv /\ Safe
  BY InitInv, InitSafe
<1>2. Inv /\ Safe /\ [Next]_vars => (Inv /\ Safe)'
  BY NextInv, NextSafe
<1>3. Inv /\ Safe => HeldIsLive
  BY DEF Safe
<1>4. QED
  BY <1>1, <1>2, <1>3, PTL DEF Spec

\* Nobody else takes the address made up for a Telegram account.
THEOREM TelegramOwnsAddress == Spec => []TelegramCanSignIn
<1>1. Init => Inv /\ Safe
  BY InitInv, InitSafe
<1>2. Inv /\ Safe /\ [Next]_vars => (Inv /\ Safe)'
  BY NextInv, NextSafe
<1>3. Inv /\ Safe => TelegramCanSignIn
  BY DEF Safe
<1>4. QED
  BY <1>1, <1>2, <1>3, PTL DEF Spec

-----------------------------------------------------------------------------
(* How many refresh tokens a sign-in leaves usable.                        *)

\* Usable tokens of sign-in s, and refreshes under way with a token of s that
\* has been spent since they read it: each will add one.
Live(s) == {t \in TokenId : tokens[t].state = "live" /\ tokens[t].root = s}
Late(s) == {r \in Requests : /\ Uncommitted(r) /\ req[r].old # 0
                             /\ tokens[req[r].old].state # "live"
                             /\ tokens[req[r].old].root = s}

\* The sign-in a token goes back to has committed a token itself.
Roots == \A t \in TokenId : tokens[t].state # "none" =>
            tokens[t].root \in TokenId /\ tokens[tokens[t].root].state # "none"

Count == \A s \in TokenId : Cardinality(Live(s)) + Cardinality(Late(s)) <= 1 + doubled[s]

LEMMA CountFinite ==
    \A s : /\ IsFiniteSet(Live(s)) /\ Cardinality(Live(s)) \in Nat
           /\ IsFiniteSet(Late(s)) /\ Cardinality(Late(s)) \in Nat
<1>1. IsFiniteSet(TokenId)
  BY FS_Interval DEF TokenId
<1>2. \A s : Live(s) \in SUBSET TokenId /\ Late(s) \in SUBSET Requests
  BY DEF Live, Late
<1>3. \A s : IsFiniteSet(Live(s)) /\ IsFiniteSet(Late(s))
  BY <1>1, <1>2, RequestsAssumption, FS_Subset
<1>4. QED
  BY <1>3, FS_CardinalityType

\* A request that spends no token, nor comes late with one.
Calm(r) ==
    /\ \A s \in Requests \ {r} : req'[s] = req[s]
    /\ UNCHANGED <<commitFirst, tokens, doubled>>
    /\ Uncommitted(r)' /\ req'[r].old # 0 =>
         \/ tokens[req'[r].old].state = "live"
         \/ Uncommitted(r) /\ req'[r].old = req[r].old

LEMMA CalmCount ==
    ASSUME Inv, Roots, Count, NEW r \in Requests, Calm(r)
    PROVE  Roots' /\ Count'
<1>1. Roots'
  BY DEF Calm, Roots
<1>2. ASSUME NEW s \in TokenId
      PROVE  (Cardinality(Live(s)) + Cardinality(Late(s)) <= 1 + doubled[s])'
  <2>1. Live(s)' = Live(s) /\ doubled' = doubled
    BY DEF Calm, Live
  <2>2. \A q \in Requests \ {r} : req'[q] = req[q] /\ (Uncommitted(q)' <=> Uncommitted(q))
    BY DEF Calm, Uncommitted, FirstPoint
  <2>3. Late(s)' \subseteq Late(s)
    BY <2>2 DEF Calm, Late
  <2>4. Cardinality(Late(s)') <= Cardinality(Late(s)) /\ Cardinality(Late(s)') \in Nat
    BY <2>3, CountFinite, FS_Subset, FS_CardinalityType
  <2>5. Cardinality(Live(s)) + Cardinality(Late(s)) <= 1 + doubled[s] /\ doubled[s] \in Nat
    BY DEF Count, Inv, TypeOK
  <2>6. QED
    BY <2>1, <2>4, <2>5, CountFinite
<1>3. QED
  BY <1>1, <1>2 DEF Count

\* Every step of a request but the commit.
LEMMA StepCalm ==
    ASSUME Inv, NEW r \in Requests, Step(r), ~Commit(r)
    PROVE  Calm(r)
<1>t. req \in [Requests -> Request] /\ Idle.at = "idle" /\ Idle.old = 0
  BY DEF Inv, TypeOK, Idle
<1>1. ASSUME NEW c, NEW u, NEW row, NEW old, Issue(r, c, u, row, old),
             old = 0 \/ tokens[old].state = "live",
             UNCHANGED <<commitFirst, tokens, hist>>
      PROVE  Calm(r)
  BY <1>1, <1>t DEF Issue, Calm, hist
<1>2. ASSUME NEW q, req' = [req EXCEPT ![r] = q], q.old = 0,
             UNCHANGED <<commitFirst, tokens, doubled>>
      PROVE  Calm(r)
  BY <1>2, <1>t DEF Calm
<1>w. ASSUME NEW c, NEW row, NEW p,
             req' = [req EXCEPT ![r] = [Idle EXCEPT !.at = p, !.who = c, !.row = row]],
             UNCHANGED <<commitFirst, tokens, doubled>>
      PROVE  Calm(r)
  <2>1. [Idle EXCEPT !.at = p, !.who = c, !.row = row].old = 0
    BY DEF Idle
  <2>2. QED
    BY <1>2, <1>w, <2>1
<1>3. CASE Register(r)
  <2>1. PICK c \in Clients, m \in Addresses : NewUser(r, c, [NoRow EXCEPT !.mail = m])
    BY <1>3 DEF Register
  <2>2. QED
    BY <1>w, <1>3, <2>1 DEF Register, NewUser, hist
<1>4. CASE Login(r)
  BY <1>1, <1>4 DEF Login
<1>5. CASE GoogleBySub(r)
  <2>1. PICK c \in Clients, p \in Profiles :
          \/ \E u \in ByGoogle(p[1]) : Issue(r, c, u, NoRow, 0)
          \/ req' = [req EXCEPT ![r] = [Idle EXCEPT !.at = "mail", !.who = c,
                          !.row = [NoRow EXCEPT !.mail = p[2], !.google = p[1]]]]
    BY <1>5 DEF GoogleBySub
  <2>2. UNCHANGED <<commitFirst, tokens, doubled, hist>>
    BY <1>5 DEF GoogleBySub, hist
  <2>3. CASE \E u \in ByGoogle(p[1]) : Issue(r, c, u, NoRow, 0)
    BY <1>1, <2>2, <2>3
  <2>4. CASE req' = [req EXCEPT ![r] = [Idle EXCEPT !.at = "mail", !.who = c,
                          !.row = [NoRow EXCEPT !.mail = p[2], !.google = p[1]]]]
    BY <1>w, <2>2, <2>4
  <2>5. QED
    BY <2>1, <2>3, <2>4
<1>6. CASE GoogleByMail(r)
  <2>1. UNCHANGED <<commitFirst, tokens, doubled, hist>>
    BY <1>6 DEF GoogleByMail, hist
  <2>2. CASE \E u \in ByMail(req[r].row.mail) :
               Issue(r, req[r].who, u, [NoRow EXCEPT !.google = req[r].row.google], 0)
    BY <1>1, <2>1, <2>2
  <2>3. CASE NewUser(r, req[r].who, req[r].row)
    BY <1>w, <2>1, <2>3 DEF NewUser
  <2>4. QED
    BY <1>6, <2>2, <2>3 DEF GoogleByMail
<1>7. CASE TelegramLogin(r)
  <2>1. PICK c \in Clients, x \in Telegrams :
          \/ \E u \in ByTelegram(x) : Issue(r, c, u, NoRow, 0)
          \/ NewUser(r, c, [NoRow EXCEPT !.mail = x, !.telegram = x])
    BY <1>7 DEF TelegramLogin
  <2>2. UNCHANGED <<commitFirst, tokens, doubled, hist>>
    BY <1>7 DEF TelegramLogin, hist
  <2>3. CASE \E u \in ByTelegram(x) : Issue(r, c, u, NoRow, 0)
    BY <1>1, <2>2, <2>3
  <2>4. CASE NewUser(r, c, [NoRow EXCEPT !.mail = x, !.telegram = x])
    BY <1>w, <2>2, <2>4 DEF NewUser
  <2>5. QED
    BY <2>1, <2>3, <2>4
<1>8. CASE InsertUser(r)
  BY <1>1, <1>8 DEF InsertUser
<1>9. CASE InsertConflicts(r) \/ CommitFails(r)
  BY <1>2, <1>9, <1>t DEF InsertConflicts, CommitFails, End, hist
<1>10. CASE Refresh(r)
  BY <1>1, <1>10 DEF Refresh
<1>11. CASE Reply(r) \/ ReplyLost(r)
  <2>1. /\ req[r].at = "reply" /\ AfterReply(r) /\ UNCHANGED <<commitFirst, tokens, doubled>>
    BY <1>11 DEF Reply, ReplyLost, hist
  <2>2. CASE commitFirst
    BY <1>2, <1>t, <2>1, <2>2 DEF AfterReply, End
  <2>3. CASE ~commitFirst
    <3>1. req' = [req EXCEPT ![r].at = "commit"] /\ Uncommitted(r)
      BY <2>1, <2>3 DEF AfterReply, Uncommitted, FirstPoint
    <3>2. req'[r].old = req[r].old
      BY <1>t, <3>1 DEF Request
    <3>3. QED
      BY <1>t, <2>1, <3>1, <3>2 DEF Calm
  <2>4. QED
    BY <2>2, <2>3
<1>12. QED
  BY <1>3, <1>4, <1>5, <1>6, <1>7, <1>8, <1>9, <1>10, <1>11 DEF Step

\* A commit adds a token, and takes one or ends a late refresh, unless it is
\* the first of its sign-in; rivals of the token it takes become late.
LEMMA CommitCount ==
    ASSUME Inv, Safe, Roots, Count, NEW r \in Requests, Commit(r)
    PROVE  Roots' /\ Count'
<1> DEFINE tok == req[r].tok
           old == req[r].old
<1>t. /\ tok \in TokenId /\ old \in TokenId \cup {0} /\ Uncommitted(r)
      /\ req \in [Requests -> Request] /\ tokens \in [TokenId -> TokenRow]
      /\ doubled \in [TokenId -> Nat] /\ 0 \notin TokenId
      /\ \A q \in Requests : req[q].old \in TokenId \cup {0}
  BY DEF Inv, TypeOK, Request, ReqShape, Working, Commit, Uncommitted, FirstPoint, TokenId
<1>s. /\ tokens[tok].state = "none" /\ \A q \in Requests : req[q].old # tok
      /\ \A q \in Requests : req[q].old # 0 => tokens[req[q].old].state # "none"
  BY <1>t DEF Safe, Tokens, TokShape, Working, Commit, Inv, ReqShape
<1>r. old # 0 => Root(r) = tokens[old].root /\ Root(r) \in TokenId
                 /\ tokens[Root(r)].state # "none" /\ Root(r) # tok
  BY <1>s, <1>t DEF Roots, Root
<1>1. /\ tokens'[tok].state = "live" /\ tokens'[tok].root = Root(r)
      /\ \A t \in TokenId \ {tok, old} : tokens'[t] = tokens[t]
      /\ old # 0 => tokens'[old].state = "revoked" /\ tokens'[old].root = tokens[old].root
  <2>1. /\ tokens'[tok] = NewRow(r) /\ \A t \in TokenId \ {tok, old} : tokens'[t] = tokens[t]
        /\ old # 0 => tokens'[old] = [tokens[old] EXCEPT !.state = "revoked"]
    <3>1. tokens' = [t \in TokenId |->
                       IF t = tok THEN NewRow(r)
                       ELSE IF t = old THEN [tokens[t] EXCEPT !.state = "revoked"]
                            ELSE tokens[t]]
      BY DEF Commit, WriteTokens
    <3>2. old # tok
      BY <1>s
    <3> HIDE DEF tok, old
    <3>3. QED
      BY <1>t, <3>1, <3>2
  <2>2. old # 0 => tokens[old] \in TokenRow
    BY <1>t
  <2>3. QED
    BY <2>1, <2>2 DEF NewRow, TokenRow
<1>2. /\ \A q \in Requests \ {r} : req'[q] = req[q] /\ (Uncommitted(q)' <=> Uncommitted(q))
      /\ ~Uncommitted(r)'
  <2>1. /\ commitFirst' = commitFirst /\ \A q \in Requests \ {r} : req'[q] = req[q]
        /\ req'[r].at = IF commitFirst THEN "reply" ELSE "idle"
    BY <1>t DEF Commit, End, Idle, Request
  <2>2. QED
    BY <2>1 DEF Uncommitted, FirstPoint
<1>d. IF old # 0 /\ tokens[old].state = "live"
      THEN /\ doubled'[Root(r)] = doubled[Root(r)] + Cardinality(Rivals(r))
           /\ \A s \in TokenId \ {Root(r)} : doubled'[s] = doubled[s]
      ELSE doubled' = doubled
  BY <1>t, <1>r DEF Commit, CountRivals
<1>v. IsFiniteSet(Rivals(r)) /\ Cardinality(Rivals(r)) \in Nat
  BY RequestsAssumption, FS_Subset, FS_CardinalityType DEF Rivals
<1> DEFINE rivals == Rivals(r)
           root == Root(r)
<1>l. \A s \in TokenId : \A q \in Late(s)' :
        \/ q \in Late(s) \ {r}
        \/ q \in rivals /\ old # 0 /\ tokens[old].state = "live" /\ s = root
  <2> SUFFICES ASSUME NEW s \in TokenId, NEW q \in Late(s)'
               PROVE  \/ q \in Late(s) \ {r}
                      \/ q \in rivals /\ old # 0 /\ tokens[old].state = "live" /\ s = root
    OBVIOUS
  <2>1. /\ q \in Requests /\ q # r /\ req'[q] = req[q] /\ Uncommitted(q)
        /\ req[q].old # 0 /\ tokens'[req[q].old].state # "live"
        /\ tokens'[req[q].old].root = s
    BY <1>2 DEF Late
  <2>2. CASE req[q].old # old
    BY <1>1, <1>s, <1>t, <2>1, <2>2 DEF Late
  <2>3. CASE req[q].old = old
    BY <1>1, <1>r, <2>1, <2>3 DEF Late, Rivals
  <2>4. QED
    BY <2>2, <2>3
<1>3. Roots'
  <2>1. ASSUME NEW t \in TokenId, tokens[t].state # "none" PROVE tokens'[t].state # "none"
    <3>1. CASE t = tok
      BY <1>1, <3>1
    <3>2. CASE t = old
      BY <1>1, <1>t, <3>2
    <3>3. CASE t \notin {tok, old}
      BY <1>1, <2>1, <3>3
    <3>4. QED
      BY <3>1, <3>2, <3>3
  <2>2. ASSUME NEW t \in TokenId, tokens'[t].state # "none"
        PROVE  tokens'[t].root \in TokenId /\ tokens'[tokens'[t].root].state # "none"
    <3>1. CASE t = tok
      <4>1. CASE old = 0
        BY <1>1, <1>t, <3>1, <4>1 DEF Root
      <4>2. CASE old # 0
        BY <1>1, <1>r, <2>1, <3>1, <4>2
      <4>3. QED
        BY <4>1, <4>2
    <3>2. CASE t # tok
      <4>1. tokens'[t].root = tokens[t].root /\ tokens[t].state # "none"
        BY <1>1, <1>s, <1>t, <2>2, <3>2
      <4>2. QED
        BY <2>1, <4>1 DEF Roots
    <3>3. QED
      BY <3>1, <3>2
  <2>3. QED
    BY <2>2 DEF Roots
<1>4. ASSUME NEW s \in TokenId
      PROVE  (Cardinality(Live(s)) + Cardinality(Late(s)) <= 1 + doubled[s])'
  <2> DEFINE live == Live(s)
             late == Late(s)
             liveN == Live(s)'
             lateN == Late(s)'
  <2>t. /\ IsFiniteSet(live) /\ Cardinality(live) \in Nat
        /\ IsFiniteSet(late) /\ Cardinality(late) \in Nat
        /\ IsFiniteSet(liveN) /\ Cardinality(liveN) \in Nat
        /\ IsFiniteSet(lateN) /\ Cardinality(lateN) \in Nat
    <3>1. liveN \in SUBSET TokenId /\ lateN \in SUBSET Requests /\ IsFiniteSet(TokenId)
      BY FS_Interval DEF TokenId, Live, Late
    <3>2. QED
      BY <3>1, CountFinite, RequestsAssumption, FS_Subset, FS_CardinalityType
  <2>i. Cardinality(live) + Cardinality(late) <= 1 + doubled[s] /\ doubled[s] \in Nat
    BY <1>t DEF Count
  <2>a. tok \notin live /\ (s # root => liveN = live)
    <3>1. tok \notin live
      BY <1>s DEF Live
    <3>2. ASSUME s # root, NEW t \in TokenId PROVE t \in liveN <=> t \in live
      <4>1. CASE t = tok
        BY <1>1, <3>1, <3>2, <4>1 DEF Live
      <4>2. CASE t = old
        BY <1>1, <1>r, <1>t, <3>2, <4>2 DEF Live
      <4>3. CASE t \notin {tok, old}
        BY <1>1, <4>3 DEF Live
      <4>4. QED
        BY <4>1, <4>2, <4>3
    <3>3. QED
      BY <3>1, <3>2 DEF Live
  <2>b. s = root => liveN = (live \ {old}) \cup {tok}
    <3>1. ASSUME s = root, NEW t \in TokenId PROVE t \in liveN <=> t \in (live \ {old}) \cup {tok}
      <4>1. CASE t = tok
        BY <1>1, <3>1, <4>1 DEF Live
      <4>2. CASE t = old /\ t # tok
        BY <1>1, <1>t, <3>1, <4>2 DEF Live
      <4>3. CASE t \notin {tok, old}
        BY <1>1, <4>3 DEF Live
      <4>4. QED
        BY <4>1, <4>2, <4>3
    <3>2. QED
      BY <1>t, <3>1 DEF Live
  <2>c. /\ Cardinality((live \ {old}) \cup {tok}) = Cardinality(live \ {old}) + 1
        /\ Cardinality(live \ {old}) = IF old \in live THEN Cardinality(live) - 1
                                                       ELSE Cardinality(live)
    BY <2>a, <2>t, FS_AddElement, FS_RemoveElement
  <2> HIDE DEF tok, old, live, late, liveN, lateN, root, rivals
  <2>1. CASE s # root
    <3>1. lateN \subseteq late
      BY <1>l, <2>1 DEF late, lateN
    <3>2. Cardinality(lateN) <= Cardinality(late)
      BY <2>t, <3>1, FS_Subset
    <3>3. doubled'[s] = doubled[s]
      BY <1>d, <2>1 DEF root
    <3>4. QED
      BY <2>a, <2>i, <2>t, <2>1, <3>2, <3>3 DEF live, late, liveN, lateN
  <2>2. CASE s = root /\ old = 0
    <3>1. s = tok /\ doubled' = doubled
      BY <1>d, <2>2 DEF Root, root, tok, old
    <3>2. live = {} /\ lateN = {}
      <4>1. live = {}
        BY <1>s, <3>1 DEF Live, Roots, live
      <4>2. late = {}
        BY <1>s, <1>t, <3>1 DEF Late, Roots, late
      <4>3. QED
        BY <1>l, <2>2, <4>1, <4>2 DEF late, lateN
    <3>3. Cardinality(liveN) = 1 /\ Cardinality(lateN) = 0
      <4>1. Cardinality(live) = 0 /\ old \notin live
        BY <3>2, FS_EmptySet
      <4>2. QED
        BY <2>b, <2>c, <2>2, <3>2, <4>1, FS_EmptySet
    <3>4. QED
      BY <2>i, <3>1, <3>3 DEF liveN, lateN
  <2>3. CASE s = root /\ old # 0 /\ tokens[old].state = "live"
    <3>1. old \in live
      BY <1>r, <1>t, <2>3 DEF Live, live, root, old
    <3>2. Cardinality(liveN) = Cardinality(live)
      <4>1. Cardinality(liveN) = Cardinality((live \ {old}) \cup {tok})
        BY <2>b, <2>3, Zenon
      <4>2. Cardinality(live \ {old}) = Cardinality(live) - 1
        BY <2>c, <3>1
      <4>3. QED
        BY <2>c, <2>t, <4>1, <4>2
    <3>3. lateN \subseteq late \cup rivals
      BY <1>l, <2>3 DEF late, lateN
    <3>4. Cardinality(lateN) <= Cardinality(late) + Cardinality(rivals)
      <4>1. IsFiniteSet(rivals) /\ Cardinality(rivals) \in Nat
        BY <1>v DEF rivals
      <4>2. /\ IsFiniteSet(late \cup rivals) /\ IsFiniteSet(late \cap rivals)
            /\ Cardinality(late \cup rivals)
                 = Cardinality(late) + Cardinality(rivals) - Cardinality(late \cap rivals)
        BY <2>t, <4>1, FS_Union, FS_Subset
      <4>3. Cardinality(late \cap rivals) \in Nat /\ Cardinality(late \cup rivals) \in Nat
        BY <4>2, FS_CardinalityType
      <4>4. Cardinality(lateN) <= Cardinality(late \cup rivals)
        BY <3>3, <4>2, FS_Subset
      <4>5. QED
        BY <2>t, <4>1, <4>2, <4>3, <4>4
    <3>5. doubled'[s] = doubled[s] + Cardinality(rivals)
      BY <1>d, <2>3 DEF root, rivals, old
    <3>6. QED
      BY <1>v, <2>i, <2>t, <3>2, <3>4, <3>5 DEF live, late, liveN, lateN, rivals
  <2>4. CASE s = root /\ old # 0 /\ tokens[old].state # "live"
    <3>1. r \in late /\ old \notin live
      BY <1>r, <1>t, <2>4 DEF Late, Live, late, live, root, old
    <3>2. lateN \subseteq late \ {r}
      BY <1>l, <2>4 DEF late, lateN
    <3>3. Cardinality(lateN) <= Cardinality(late) - 1
      <4>1. IsFiniteSet(late \ {r}) /\ Cardinality(late \ {r}) = Cardinality(late) - 1
        BY <2>t, <3>1, FS_RemoveElement
      <4>2. QED
        BY <3>2, <4>1, FS_Subset
    <3>4. Cardinality(liveN) = Cardinality(live) + 1 /\ doubled' = doubled
      BY <1>d, <2>b, <2>c, <2>4, <3>1 DEF old
    <3>5. QED
      BY <2>i, <2>t, <3>3, <3>4 DEF live, late, liveN, lateN
  <2>5. QED
    BY <2>1, <2>2, <2>3, <2>4
<1>5. QED
  BY <1>3, <1>4 DEF Count

\* A sign-in has no more usable tokens than overlapping refreshes account for.
THEOREM ExtraTokensExplained == Spec => []LiveAccounted
<1>1. Init => Inv /\ Safe /\ Roots /\ Count
  <2>1. ASSUME Init PROVE Roots /\ Count
    <3>1. \A s : Live(s) = {} /\ Late(s) = {}
      BY <2>1 DEF Init, Live, Late, NoToken, Idle
    <3>2. QED
      BY <2>1, <3>1, FS_EmptySet DEF Init, Roots, Count, NoToken
  <2>2. QED
    BY <2>1, InitInv, InitSafe
<1>2. ASSUME Inv, Safe, Roots, Count, [Next]_vars PROVE Roots' /\ Count'
  <2>1. CASE LinkTelegram \/ TokenExpires \/ UNCHANGED vars
    <3>1. UNCHANGED <<commitFirst, tokens, req, doubled>>
      BY <2>1 DEF LinkTelegram, TokenExpires, vars, hist
    <3>2. \A s : Live(s)' = Live(s) /\ Late(s)' = Late(s)
      BY <3>1 DEF Live, Late, Uncommitted, FirstPoint
    <3>3. QED
      BY <1>2, <3>1, <3>2 DEF Roots, Count
  <2>2. ASSUME NEW r \in Requests, Commit(r) PROVE Roots' /\ Count'
    BY <1>2, <2>2, CommitCount
  <2>3. ASSUME NEW r \in Requests, Step(r), ~Commit(r) PROVE Roots' /\ Count'
    BY <1>2, <2>3, StepCalm, CalmCount
  <2>4. QED
    BY <1>2, <2>1, <2>2, <2>3 DEF Next
<1>3. Count /\ Inv => LiveAccounted
  <2>1. \A s : Cardinality(Live(s)) \in Nat /\ Cardinality(Late(s)) \in Nat
    BY CountFinite
  <2>2. Inv => \A s \in TokenId : doubled[s] \in Nat
    BY DEF Inv, TypeOK
  <2>3. Count /\ Inv => \A s \in TokenId : Cardinality(Live(s)) <= 1 + doubled[s]
    BY <2>1, <2>2 DEF Count
  <2>4. QED
    BY <2>3, Zenon DEF LiveAccounted, Live
<1>4. QED
  BY <1>1, <1>2, <1>3, NextInv, NextSafe, PTL DEF Spec
=============================================================================
