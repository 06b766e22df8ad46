-------------------------------- MODULE SignIn --------------------------------
(***************************************************************************)
(* Accounts and refresh tokens (services/auth_service.py, api/auth.py).    *)
(* Registration, password, Google and Telegram sign-in find or create the  *)
(* users row and issue a refresh token; a refresh checks the row of its    *)
(* token, revokes it and issues the next one.  Each request is one         *)
(* transaction of get_db at READ COMMITTED, so that what it has read may   *)
(* have changed when it writes, and unique keys decide.                    *)
(*                                                                         *)
(* Access tokens are signed and have no state.  No code changes is_active, *)
(* so every account is active.  A password is right or the request is      *)
(* refused; requests that are refused change nothing and are one step.     *)
(***************************************************************************)
EXTENDS Integers, FiniteSets

CONSTANTS
    Clients,     \* programs that keep the last token pair they were given
    Requests,
    Addresses,   \* e-mail addresses people have
    Telegrams,   \* Telegram ids; tg_<id>@telegram.local is written as the id
    Googles,     \* Google subs
    Profiles,    \* what Google may answer: a sub and an address
    None,
    MaxUsers,    \* bound: users rows
    MaxTokens,   \* bound: tokens ever issued
    MaxExpired,  \* bound: tokens that expire
    MaxFaults    \* bound: requests that break off, answers that are lost

Mails == Addresses \cup Telegrams

ASSUME NamesAssumption ==
    /\ Profiles \subseteq Googles \X Addresses
    /\ Addresses \cap Telegrams = {}
    /\ None \notin Mails \cup Googles
ASSUME RequestsAssumption == IsFiniteSet(Requests)
ASSUME BoundsAssumption ==
    MaxUsers \in Nat /\ MaxTokens \in Nat /\ MaxExpired \in Nat /\ MaxFaults \in Nat

VARIABLES
    commitFirst,  \* get_db commits before the answer is sent (FastAPI < 0.118)
    users,        \* users rows, committed; mail = None: no row
    tokens,       \* refresh_tokens rows, committed, and the sign-in of each
    held,         \* the token each client would refresh with; 0: none
    req,          \* the requests
    nextToken,
    lapsed,       \* tokens up to this one are past their expires_at
    relinked,     \* Telegram ids whose account a link code gave another one
    doubled,      \* refreshes under way when their token was spent, by sign-in
    cut,          \* tokens whose successor's answer was lost, or that were
                  \* answered and never committed
    faults

hist == <<relinked, doubled, cut>>
vars == <<commitFirst, users, tokens, held, req, nextToken, lapsed, hist, faults>>

UserId  == 1..MaxUsers
TokenId == 1..MaxTokens

UserRow == [mail : Mails \cup {None}, google : Googles \cup {None},
            telegram : Telegrams \cup {None}]
NoRow   == [mail |-> None, google |-> None, telegram |-> None]

TokenRow == [user : UserId \cup {0}, root : TokenId \cup {0},
             state : {"none", "live", "revoked"}]
NoToken  == [user |-> 0, root |-> 0, state |-> "none"]

\* row: the columns the request writes; user, tok: what it signs in to and
\* issues; old: the token it was sent.
Request == [at : {"idle", "mail", "insert", "commit", "reply"},
            who : Clients \cup {None}, row : UserRow, user : UserId \cup {0},
            tok : TokenId \cup {0}, old : TokenId \cup {0}]
Idle == [at |-> "idle", who |-> None, row |-> NoRow, user |-> 0, tok |-> 0, old |-> 0]

Init ==
    /\ commitFirst \in BOOLEAN
    /\ users = [u \in UserId |-> NoRow]
    /\ tokens = [t \in TokenId |-> NoToken]
    /\ held = [c \in Clients |-> 0]
    /\ req = [r \in Requests |-> Idle]
    /\ nextToken = 1 /\ lapsed = 0
    /\ relinked = {} /\ doubled = [t \in TokenId |-> 0] /\ cut = {}
    /\ faults = 0

-----------------------------------------------------------------------------
(* Shared pieces.                                                          *)

Fault == faults < MaxFaults /\ faults' = faults + 1

Rows == {u \in UserId : users[u].mail # None}
ByMail(m)     == {u \in Rows : users[u].mail = m}
ByGoogle(g)   == {u \in Rows : users[u].google = g}
ByTelegram(x) == {u \in Rows : users[u].telegram = x}

\* A request that has done its work goes on to the commit or the answer.
FirstPoint == IF commitFirst THEN "commit" ELSE "reply"
Uncommitted(r) == req[r].at = FirstPoint \/ (~commitFirst /\ req[r].at = "commit")

\* Rows inserted and not committed: their keys are locked.
Inserted(r) == Uncommitted(r) /\ req[r].row.mail # None

SameKey(a, b) ==
    \/ a.mail # None /\ a.mail = b.mail
    \/ a.google # None /\ a.google = b.google
    \/ a.telegram # None /\ a.telegram = b.telegram

KeyLocked(r, row) == \E s \in Requests \ {r} : Inserted(s) /\ SameKey(row, req[s].row)
\* Mutant: nothing is unique.
KeyNeverTaken(u, row) == FALSE
KeyTaken(u, row)  == \E v \in Rows \ {u} : SameKey(row, users[v])

\* A request begins, if there are tokens left for all that have begun.
Begins(r) ==
    /\ req[r].at = "idle"
    /\ nextToken + Cardinality({s \in Requests : req[s].at \in {"mail", "insert"}}) \in TokenId

\* issue_tokens for user u, the columns in row to be written.
Issue(r, c, u, row, old) ==
    /\ nextToken \in TokenId
    /\ nextToken' = nextToken + 1
    /\ req' = [req EXCEPT ![r] = [at |-> FirstPoint, who |-> c, row |-> row,
                                  user |-> u, tok |-> nextToken, old |-> old]]

\* The account does not exist: a row is to be inserted.
NewUser(r, c, row) ==
    /\ req' = [req EXCEPT ![r] = [Idle EXCEPT !.at = "insert", !.who = c, !.row = row]]
    /\ UNCHANGED nextToken

End(r) == req' = [req EXCEPT ![r] = Idle]

-----------------------------------------------------------------------------
(* Signing in.                                                             *)

\* Registration and password are for addresses that EmailStr accepts; it
\* refuses those made up for Telegram ids, whose domain is .local.
Register(r) ==
    /\ Begins(r)
    /\ \E c \in Clients, m \in Addresses :
         ByMail(m) = {} /\ NewUser(r, c, [NoRow EXCEPT !.mail = m])
    /\ UNCHANGED <<commitFirst, users, tokens, held, hist, faults>>

Login(r) ==
    /\ Begins(r)
    /\ \E c \in Clients, m \in Addresses : \E u \in ByMail(m) : Issue(r, c, u, NoRow, 0)
    /\ UNCHANGED <<commitFirst, users, tokens, held, hist, faults>>

\* google_exchange_code looks for the sub, then for the address.
GoogleBySub(r) ==
    /\ Begins(r)
    /\ \E c \in Clients, p \in Profiles :
         \/ \E u \in ByGoogle(p[1]) : Issue(r, c, u, NoRow, 0)
         \/ /\ ByGoogle(p[1]) = {}
            /\ req' = [req EXCEPT ![r] = [Idle EXCEPT !.at = "mail", !.who = c,
                          !.row = [NoRow EXCEPT !.mail = p[2], !.google = p[1]]]]
            /\ UNCHANGED nextToken
    /\ UNCHANGED <<commitFirst, users, tokens, held, hist, faults>>

GoogleByMail(r) ==
    /\ req[r].at = "mail"
    /\ LET row == req[r].row
       IN \/ \E u \in ByMail(row.mail) :
               Issue(r, req[r].who, u, [NoRow EXCEPT !.google = row.google], 0)
          \/ ByMail(row.mail) = {} /\ NewUser(r, req[r].who, row)
    /\ UNCHANGED <<commitFirst, users, tokens, held, hist, faults>>

TelegramLogin(r) ==
    /\ Begins(r)
    /\ \E c \in Clients, x \in Telegrams :
         \/ \E u \in ByTelegram(x) : Issue(r, c, u, NoRow, 0)
         \/ /\ ByTelegram(x) = {}
            /\ NewUser(r, c, [NoRow EXCEPT !.mail = x, !.telegram = x])
    /\ UNCHANGED <<commitFirst, users, tokens, held, hist, faults>>

\* The flush waits for rows with the same keys that are not committed yet.
InsertUser(r) ==
    /\ req[r].at = "insert"
    /\ ~KeyLocked(r, req[r].row) /\ ~KeyTaken(0, req[r].row)
    /\ \E u \in UserId \ (Rows \cup {req[s].user : s \in Requests}) :
         Issue(r, req[r].who, u, req[r].row, 0)
    /\ UNCHANGED <<commitFirst, users, tokens, held, hist, faults>>

\* Unique keys: somebody else has made the account since the lookup.
InsertConflicts(r) ==
    /\ req[r].at = "insert"
    /\ ~KeyLocked(r, req[r].row) /\ KeyTaken(0, req[r].row)
    /\ End(r)
    /\ UNCHANGED <<commitFirst, users, tokens, held, nextToken, hist, faults>>

-----------------------------------------------------------------------------
(* refresh_session.                                                        *)

\* Mutant: whether the token was revoked is not looked at.
RefreshRevoked(r) ==
    /\ Begins(r)
    /\ \E c \in Clients : held[c] > lapsed /\ tokens[held[c]].state # "none"
                          /\ Issue(r, c, tokens[held[c]].user, NoRow, held[c])
    /\ UNCHANGED <<commitFirst, users, tokens, held, hist, faults>>

\* The token is found, not revoked, and not expired.
Refresh(r) ==
    /\ Begins(r)
    /\ \E c \in Clients : held[c] > lapsed /\ tokens[held[c]].state = "live"
                          /\ Issue(r, c, tokens[held[c]].user, NoRow, held[c])
    /\ UNCHANGED <<commitFirst, users, tokens, held, hist, faults>>

-----------------------------------------------------------------------------
(* The end of a request.                                                   *)

\* What the request changes in users: a new row, the google_sub, or nothing.
WriteUser(r) ==
    LET row == req[r].row
    IN users' = IF row.mail # None THEN [users EXCEPT ![req[r].user] = row]
                ELSE IF row.google # None
                     THEN [users EXCEPT ![req[r].user].google = row.google]
                     ELSE users

Root(r) == IF req[r].old = 0 THEN req[r].tok ELSE tokens[req[r].old].root

NewRow(r) == [user |-> req[r].user, root |-> Root(r), state |-> "live"]

\* Mutant: the new row replaces all of the user's.
WriteTokensAlone(r) ==
    tokens' = [t \in TokenId |->
                 IF t = req[r].tok THEN NewRow(r)
                 ELSE IF tokens[t].user = req[r].user
                      THEN [tokens[t] EXCEPT !.state = "revoked"] ELSE tokens[t]]

WriteTokens(r) ==
    tokens' = [t \in TokenId |->
                 IF t = req[r].tok THEN NewRow(r)
                 ELSE IF t = req[r].old THEN [tokens[t] EXCEPT !.state = "revoked"]
                      ELSE tokens[t]]

\* When a token is spent, the other refreshes with it that are under way.
Rivals(r) == {s \in Requests \ {r} : Uncommitted(s) /\ req[s].old = req[r].old}
CountRivals(r) ==
    doubled' = IF req[r].old # 0 /\ tokens[req[r].old].state = "live"
               THEN [doubled EXCEPT ![Root(r)] = @ + Cardinality(Rivals(r))] ELSE doubled

Commit(r) ==
    /\ req[r].at = "commit"
    /\ ~KeyLocked(r, req[r].row) /\ ~KeyTaken(req[r].user, req[r].row)
    /\ WriteUser(r) /\ WriteTokens(r) /\ CountRivals(r)
    /\ IF commitFirst THEN req' = [req EXCEPT ![r].at = "reply"] ELSE End(r)
    /\ UNCHANGED <<commitFirst, held, nextToken, relinked, cut, faults>>

\* The transaction is rolled back: the database breaks off, or the google_sub
\* has got another account.  Who was answered already is not told.
CommitFails(r) ==
    /\ req[r].at = "commit"
    /\ \/ ~KeyLocked(r, req[r].row) /\ KeyTaken(req[r].user, req[r].row)
          /\ UNCHANGED faults
       \/ Fault
    /\ End(r)
    /\ cut' = IF commitFirst THEN cut ELSE cut \cup {req[r].tok}
    /\ UNCHANGED <<commitFirst, users, tokens, held, nextToken, relinked, doubled>>

AfterReply(r) ==
    IF commitFirst THEN End(r) ELSE req' = [req EXCEPT ![r].at = "commit"]

Reply(r) ==
    /\ req[r].at = "reply"
    /\ held' = [held EXCEPT ![req[r].who] = req[r].tok]
    /\ AfterReply(r)
    /\ UNCHANGED <<commitFirst, users, tokens, nextToken, hist, faults>>

\* The answer does not arrive: the client keeps the token it has.
ReplyLost(r) ==
    /\ req[r].at = "reply" /\ Fault
    /\ AfterReply(r)
    /\ cut' = cut \cup ({req[r].old} \ {0})
    /\ UNCHANGED <<commitFirst, users, tokens, held, nextToken, relinked, doubled>>

\* consume_link_code gives an account a Telegram id that no other has.
LinkTelegramTakesOver ==
    /\ \E u \in Rows, x \in Telegrams :
         /\ \A s \in Requests : ~(Inserted(s) /\ req[s].row.telegram = x)
         /\ users' = [v \in UserId |->
                        IF v = u THEN [users[v] EXCEPT !.telegram = x]
                        ELSE IF users[v].telegram = x
                             THEN [users[v] EXCEPT !.telegram = None] ELSE users[v]]
         /\ relinked' = relinked \cup ({users[u].telegram} \ {x, None})
    /\ UNCHANGED <<commitFirst, tokens, held, req, nextToken, doubled, cut, faults>>

LinkTelegram ==
    /\ \E u \in Rows, x \in Telegrams :
         /\ \A s \in Requests : ~(Inserted(s) /\ req[s].row.telegram = x)
         /\ ByTelegram(x) \subseteq {u}
         /\ users' = [users EXCEPT ![u].telegram = x]
         /\ relinked' = relinked \cup ({users[u].telegram} \ {x, None})
    /\ UNCHANGED <<commitFirst, tokens, held, req, nextToken, doubled, cut, faults>>

-----------------------------------------------------------------------------
\* All tokens live equally long, and so expire in the order they were issued.
TokenExpires ==
    /\ lapsed + 1 < nextToken /\ lapsed < MaxExpired
    /\ lapsed' = lapsed + 1
    /\ UNCHANGED <<commitFirst, users, tokens, held, req, nextToken, hist, faults>>

Step(r) ==
    \/ Register(r) \/ Login(r) \/ GoogleBySub(r) \/ GoogleByMail(r) \/ TelegramLogin(r)
    \/ InsertUser(r) \/ InsertConflicts(r) \/ Refresh(r)
    \/ Commit(r) \/ CommitFails(r) \/ Reply(r) \/ ReplyLost(r)

Next ==
    \/ UNCHANGED lapsed /\ ((\E r \in Requests : Step(r)) \/ LinkTelegram)
    \/ TokenExpires

Spec == Init /\ [][Next]_vars

-----------------------------------------------------------------------------
(* Properties.                                                             *)

\* Every variable has its type, and overlapping sign-ups never make two
\* accounts of one address, Google or Telegram account.
TypeOK ==
    /\ commitFirst \in BOOLEAN
    /\ users \in [UserId -> UserRow] /\ tokens \in [TokenId -> TokenRow]
    /\ held \in [Clients -> TokenId \cup {0}]
    /\ req \in [Requests -> Request]
    /\ nextToken \in 1..(MaxTokens + 1) /\ lapsed \in 0..MaxTokens
    /\ relinked \subseteq Telegrams /\ doubled \in [TokenId -> Nat]
    /\ cut \subseteq TokenId /\ faults \in Nat
    /\ \A u, v \in Rows : SameKey(users[u], users[v]) => u = v

\* Until it expires, a client can refresh with the token it has, unless an
\* answer was lost or has yet to come: refreshes that overlap do not take each
\* other's tokens.  When the answer is sent first, there is also no refreshing
\* until the commit, nor after it has failed.
HeldIsLive ==
    \A c \in Clients :
        \/ held[c] =< lapsed \* none, or expired
        \/ held[c] \in cut
        \/ tokens[held[c]].state = "live"
        \/ \E r \in Requests :
             \/ commitFirst /\ req[r].at = "reply" /\ req[r].old = held[c]
             \/ ~commitFirst /\ req[r].at = "commit" /\ req[r].tok = held[c]

\* A sign-in leaves one usable refresh token, and one more for each refresh
\* that was under way when another one spent the same token.
LiveAccounted ==
    \A s \in TokenId :
        Cardinality({t \in TokenId : tokens[t].state = "live" /\ tokens[t].root = s})
            <= 1 + doubled[s]

\* The address made up for a Telegram id is taken only by the account that has
\* the id, so that its owner can sign in, unless the account has been linked
\* to another Telegram account since.
TelegramCanSignIn ==
    \A x \in Telegrams \ relinked : \A u \in ByMail(x) : users[u].telegram = x
=============================================================================
