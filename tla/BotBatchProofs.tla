---------------------------- MODULE BotBatchProofs ----------------------------
(* DeletedNotActive, TypeOK and ReportTrue for any bots, any requests and    *)
(* any failures.                                                            *)
EXTENDS BotBatch, TLAPS, WellFoundedInduction

\* Invariants of one session: its record has its type and it tells the truth.
SessionOK(r) == /\ req[r] \in Request
                /\ req[r].at \in {"call", "write", "commit", "answered"}
                     => req[r].cur \in Bots
                /\ req[r].at \notin {"commit", "answered"}
                     => req[r].dirty = {} /\ req[r].hides = {}
                /\ \A b \in Bots : HeldOK(r, b)

ProofInv ==
    /\ life \in [Bots -> Life]
    /\ req \in [Requests -> Request]
    /\ \A r \in Requests : SessionOK(r)
    /\ DeletedNotActive

\* A step of one session that makes no bot ACTIVE leaves the others intact.
LEMMA OthersKeep ==
    ASSUME ProofInv, NEW r \in Requests, NEW s \in Requests, s # r,
           req'[s] = req[s],
           \A b \in Bots : life'[b] = "ACTIVE" => life[b] = "ACTIVE"
    PROVE  SessionOK(s)'
  BY DEF ProofInv, SessionOK, HeldOK

\* What is left to show of a step of one session.
LEMMA OneSession ==
    ASSUME ProofInv, NEW r \in Requests, NEW q,
           req' = [req EXCEPT ![r] = q],
           life' \in [Bots -> Life],
           \A b \in Bots : life'[b] = "ACTIVE" => life[b] = "ACTIVE",
           q \in Request, SessionOK(r)', DeletedNotActive'
    PROVE  ProofInv'
  <1>1. req' \in [Requests -> Request]
    BY DEF ProofInv
  <1>2. ASSUME NEW s \in Requests PROVE SessionOK(s)'
    <2>1. CASE s = r
      BY <2>1
    <2>2. CASE s # r
      <3>1. req'[s] = req[s]
        BY <2>2 DEF ProofInv
      <3>2. QED
        BY <2>2, <3>1, OthersKeep
    <2>3. QED
      BY <2>1, <2>2
  <1>3. QED
    BY <1>1, <1>2 DEF ProofInv

LEMMA BatchInit == Init => ProofInv
  BY DEF Init, Idle, Request, Op, Point, Held, Life, ProofInv, SessionOK, HeldOK,
         DeletedNotActive

\* The next bot is one of those the request has to do.
LEMMA NextIsABot ==
    ASSUME NEW r, req[r].todo \subseteq Bots, req[r].todo # {}
    PROVE  NextBot(r) \in Bots /\ NextBot(r) \in req[r].todo
  <1> DEFINE less == {ss \in Nat \X Nat : ss[1] < ss[2]}
  <1>1. IsWellFoundedOn(less, Nat)
    BY NatLessThanWellFounded DEF OpToRel
  <1>2. req[r].todo \subseteq Nat
    BY BotsAssumption
  <1>3. PICK x \in req[r].todo : \A y \in req[r].todo : <<y, x>> \notin less
    BY <1>1, <1>2, WFMin
  <1>4. ASSUME NEW y \in req[r].todo PROVE x =< y
    <2>1. x \in Nat /\ y \in Nat
      BY <1>2
    <2>2. ~(y < x)
      BY <1>3, <2>1
    <2>3. QED
      BY <2>1, <2>2
  <1>5. NextBot(r) \in req[r].todo
    BY <1>4 DEF NextBot, Min
  <1>6. QED
    BY <1>5

\* Loading, taking and refusing bots: what a session loads is what there is.
LEMMA BatchReads ==
    ASSUME ProofInv, NEW r \in Requests,
           Authenticate(r) \/ SelectIds(r) \/ Take(r) \/ Refuse(r)
             \/ CallSucceeds(r) \/ CallRefused(r) \/ Break(r) \/ ReportBreaks(r)
             \/ Answer(r) \/ AnswerUnkept(r)
    PROVE  ProofInv'
  <1>t. /\ req[r] \in Request /\ SessionOK(r) /\ life \in [Bots -> Life]
        /\ req \in [Requests -> Request]
    BY DEF ProofInv
  <1>u. UNCHANGED <<life, deleted>>
    BY DEF Authenticate, SelectIds, Take, Refuse, CallSucceeds, CallRefused, Break,
           ReportBreaks, Answer, AnswerUnkept
  <1>d. DeletedNotActive'
    BY <1>u DEF ProofInv, DeletedNotActive
  <1>1. CASE Authenticate(r)
    <2>1. PICK op \in Op, all \in BOOLEAN :
            req' = [req EXCEPT ![r] = [Idle EXCEPT !.op = op, !.all = all,
                                                   !.at = "ids", !.held = life]]
      BY <1>1 DEF Authenticate
    <2> DEFINE q == [Idle EXCEPT !.op = op, !.all = all, !.at = "ids", !.held = life]
    <2>2. q \in Request
      BY <1>t DEF Idle, Request, Point, Held
    <2>3. SessionOK(r)'
      BY <1>t, <1>u, <2>1, <2>2 DEF SessionOK, HeldOK, Idle
    <2>4. QED
      BY <1>t, <1>u, <1>d, <2>1, <2>2, <2>3, OneSession
  <1>2. CASE SelectIds(r)
    <2> DEFINE All == {{x \in Bots : ~deleted[x] /\ Eligible(req[r].op, life[x])}}
               One == {{x} : x \in Bots}
    <2>1. PICK S \in IF req[r].all THEN All ELSE One :
            req' = [req EXCEPT ![r].ids = S, ![r].todo = S, ![r].at = "next"]
      BY <1>2 DEF SelectIds
    <2>a. S \in SUBSET Bots
      OBVIOUS
    <2> DEFINE q == [req[r] EXCEPT !.ids = S, !.todo = S, !.at = "next"]
    <2>2. q \in Request /\ req' = [req EXCEPT ![r] = q]
      BY <1>t, <2>a, <2>1 DEF Request, Point
    <2>3. SessionOK(r)'
      BY <1>t, <1>u, <2>1, <2>2 DEF SessionOK, HeldOK, Request
    <2>4. QED
      BY <1>t, <1>u, <1>d, <2>2, <2>3, OneSession
  <1>3. CASE Take(r)
    <2> DEFINE b == NextBot(r)
               n == IF req[r].op = "remove" /\ Seen(r, b) # "ACTIVE"
                    THEN "write" ELSE "call"
               q == [req[r] EXCEPT !.cur = b, !.todo = @ \ {b},
                                   !.held[b] = Seen(r, b), !.at = n]
    <2>1. req' = [req EXCEPT ![r] = q]
      BY <1>3, <1>t DEF Take
    <2>2. b \in Bots
      BY <1>3, <1>t, NextIsABot DEF Take, Request
    <2>3. Seen(r, b) \in Life
      BY <1>t, <2>2 DEF Seen, Request, Held
    <2>4. q \in Request
      BY <1>t, <2>2, <2>3 DEF Request, Point, Held
    <2>5. SessionOK(r)'
      <3>1. /\ req'[r] \in Request /\ req'[r].cur = b
            /\ req'[r].held = [req[r].held EXCEPT ![b] = Seen(r, b)]
            /\ req'[r].dirty = {} /\ req'[r].hides = {} /\ req'[r].at \in {"call", "write"}
        BY <1>3, <1>t, <2>1, <2>4 DEF SessionOK, Request, Take
      <3>2. \A x \in Bots : req[r].held[x] \in {"STOPPED", "CLOSED"} => life[x] # "ACTIVE"
        BY <1>3, <1>t DEF SessionOK, HeldOK, Take
      <3>3. Seen(r, b) \in {"STOPPED", "CLOSED"} => life[b] # "ACTIVE"
        BY <2>2, <3>2 DEF Seen
      <3>4. ASSUME NEW x \in Bots PROVE HeldOK(r, x)'
        <4>1. req[r].held \in [Bots -> Held]
          BY <1>t DEF Request
        <4>2. req'[r].held[x] = IF x = b THEN Seen(r, b) ELSE req[r].held[x]
          BY <3>1, <4>1
        <4>3. CASE x = b
          BY <4>2, <4>3, <3>1, <3>3, <2>3, <1>u DEF HeldOK, Life
        <4>4. CASE x # b
          BY <4>2, <4>4, <3>1, <3>2, <1>u DEF HeldOK
        <4>5. QED
          BY <4>3, <4>4
      <3>5. QED
        BY <2>2, <3>1, <3>4 DEF SessionOK
    <2>6. QED
      BY <1>t, <1>u, <1>d, <2>1, <2>4, <2>5, OneSession
  <1>4. ASSUME NEW b, Fails(r, b), b \in Bots PROVE ProofInv'
    <2> DEFINE q == [req[r] EXCEPT !.failed = @ \cup {b}, !.todo = @ \ {b},
                       !.held = [x \in Bots |-> "expired"],
                       !.dirty = {}, !.hides = {}, !.cur = -1, !.at = "next"]
    <2>1. req' = [req EXCEPT ![r] = q]
      BY <1>4, <1>t DEF Fails
    <2>2. q \in Request
      BY <1>4, <1>t DEF Request, Point, Held
    <2>3. SessionOK(r)'
      BY <1>t, <1>u, <2>1, <2>2 DEF SessionOK, HeldOK, Request
    <2>4. QED
      BY <1>t, <1>u, <1>d, <2>1, <2>2, <2>3, OneSession
  <1>5. CASE Refuse(r)
    <2>1. NextBot(r) \in Bots
      BY <1>5, <1>t, NextIsABot DEF Refuse, Request
    <2>2. QED
      BY <1>5, <2>1, <1>4 DEF Refuse
  <1>6. ASSUME req[r].at = "call", req' = [req EXCEPT ![r].at = "write"]
        PROVE  ProofInv'
    <2> DEFINE q == [req[r] EXCEPT !.at = "write"]
    <2>1. q \in Request /\ req' = [req EXCEPT ![r] = q]
      BY <1>6, <1>t DEF Request, Point
    <2>2. SessionOK(r)'
      <3>1. /\ req'[r] \in Request /\ req'[r].at = "write"
            /\ req'[r].cur = req[r].cur /\ req'[r].held = req[r].held
            /\ req'[r].dirty = req[r].dirty /\ req'[r].hides = req[r].hides
        BY <1>t, <2>1 DEF Request
      <3>2. QED
        BY <1>6, <1>t, <1>u, <3>1 DEF SessionOK, HeldOK
    <2>3. QED
      BY <1>t, <1>u, <1>d, <2>1, <2>2, OneSession
  <1>7. CASE CallRefused(r)
    <2>1. req[r].cur \in Bots
      BY <1>7, <1>t DEF CallRefused, SessionOK
    <2>2. QED
      BY <1>7, <2>1, <1>4, <1>6 DEF CallRefused
  <1>8. CASE Break(r) \/ AnswerUnkept(r)
    <2>1. PICK p \in {"broken", "unkept"} :
            req' = [req EXCEPT ![r].held = [x \in Bots |-> "expired"],
                               ![r].dirty = {}, ![r].hides = {}, ![r].at = p]
      BY <1>8 DEF Break, AnswerUnkept
    <2> DEFINE q == [req[r] EXCEPT !.held = [x \in Bots |-> "expired"],
                       !.dirty = {}, !.hides = {}, !.at = p]
    <2>2. q \in Request /\ req' = [req EXCEPT ![r] = q]
      BY <1>t, <2>1 DEF Request, Point, Held
    <2>3. SessionOK(r)'
      BY <1>t, <1>u, <2>1, <2>2 DEF SessionOK, HeldOK, Request
    <2>4. QED
      BY <1>t, <1>u, <1>d, <2>2, <2>3, OneSession
  <1>9. CASE ReportBreaks(r)
    <2> DEFINE q == [req[r] EXCEPT !.at = "broken", !.dirty = {}, !.hides = {}]
    <2>1. q \in Request /\ req' = [req EXCEPT ![r] = q]
      BY <1>9, <1>t DEF ReportBreaks, Request, Point
    <2>2. \A b \in Bots : req[r].held[b] \in {"STOPPED", "CLOSED"}
                            => life[b] # "ACTIVE"
      BY <1>9, <1>t DEF ReportBreaks, SessionOK, HeldOK
    <2>3. SessionOK(r)'
      BY <1>t, <1>u, <2>1, <2>2 DEF SessionOK, HeldOK, Request
    <2>4. QED
      BY <1>t, <1>u, <1>d, <2>1, <2>3, OneSession
  <1>10. CASE Answer(r)
    <2> DEFINE q == [req[r] EXCEPT !.at = "answered"]
    <2>1. q \in Request /\ req' = [req EXCEPT ![r] = q]
      BY <1>10, <1>t DEF Answer, Request, Point
    <2>2. /\ req'[r] \in Request /\ req'[r].at = "answered"
          /\ req'[r].cur = req[r].cur /\ req'[r].held = req[r].held
          /\ req'[r].dirty = req[r].dirty /\ req'[r].hides = req[r].hides
      BY <1>t, <2>1 DEF Request
    <2>3. SessionOK(r)'
      <3>1. req[r].cur \in Bots /\ \A x \in Bots : HeldOK(r, x)
        BY <1>10, <1>t DEF Answer, SessionOK
      <3>2. \A x \in Bots : HeldOK(r, x)'
        BY <3>1, <1>u, <2>2 DEF HeldOK
      <3>3. QED
        BY <3>1, <3>2, <2>2 DEF SessionOK
    <2>4. QED
      BY <1>t, <1>u, <1>d, <2>1, <2>3, OneSession
  <1>11. QED
    BY <1>1, <1>2, <1>3, <1>5, <1>6, <1>7, <1>8, <1>9, <1>10 DEF CallSucceeds

\* The attributes are set: what was held is set, or reloaded.
LEMMA BatchWrites ==
    ASSUME ProofInv, NEW r \in Requests, Write(r)
    PROVE  ProofInv'
  <1> DEFINE b == req[r].cur
             h == HeldAfter(r)
             d == IF SetsStatus(r) THEN {b} ELSE {}
             g == IF req[r].op = "remove" THEN {b} ELSE {}
             q == [req[r] EXCEPT !.held = h, !.dirty = d, !.hides = g,
                                 !.ok = @ \cup {b}, !.at = "commit"]
  <1>1. /\ req[r] \in Request /\ SessionOK(r) /\ life \in [Bots -> Life]
        /\ req \in [Requests -> Request] /\ req[r].at = "write" /\ b \in Bots
        /\ req[r].dirty = {} /\ req[r].hides = {}
    BY DEF ProofInv, SessionOK, Write
  <1>2. UNCHANGED <<life, deleted>>
    BY DEF Write
  <1>3. DeletedNotActive'
    BY <1>2 DEF ProofInv, DeletedNotActive
  <1>4. req' = [req EXCEPT ![r] = q]
    <2>1. d = IF SetsStatus(r) THEN req[r].dirty \cup {b} ELSE req[r].dirty
      BY <1>1
    <2>2. g = IF req[r].op = "remove" THEN req[r].hides \cup {b} ELSE req[r].hides
      BY <1>1
    <2>3. QED
      BY <1>1, <2>1, <2>2 DEF Write
  <1>5. Reload(req[r].held) \in [Bots -> Held]
    BY <1>1 DEF Reload, Request, Held
  <1>6. h \in [Bots -> Held]
    BY <1>5, <1>1 DEF HeldAfter, Target, Held, Life
  <1>7. q \in Request
    BY <1>1, <1>6 DEF Request, Point
  <1>8. SessionOK(r)'
    <2>1. /\ req'[r] \in Request /\ req'[r].cur = b /\ req'[r].at = "commit"
          /\ req'[r].held = h /\ req'[r].dirty = d /\ req'[r].hides = g
      BY <1>1, <1>4, <1>7 DEF Request
    <2>2. req[r].held \in [Bots -> Held] /\ req[r].held[b] # "expired"
      BY <1>1 DEF SessionOK, HeldOK, Request
    <2>3. \A x \in Bots : req[r].held[x] \in {"STOPPED", "CLOSED"} => life[x] # "ACTIVE"
      BY <1>1 DEF SessionOK, HeldOK
    <2>4. ASSUME NEW x \in Bots PROVE HeldOK(r, x)'
      <3>1. CASE x = b
        <4>1. CASE SetsStatus(r)
          <5>1. h[x] \in {"STOPPED", "CLOSED"} /\ x \in d
            BY <1>5, <1>1, <3>1, <4>1 DEF HeldAfter, Target
          <5>2. QED
            BY <2>1, <5>1 DEF HeldOK
        <4>2. CASE ~SetsStatus(r)
          <5>1. h[x] = req[r].held[b] /\ req[r].held[b] # "ACTIVE"
            BY <1>5, <1>1, <2>2, <3>1, <4>2 DEF HeldAfter, Reload, SetsStatus
          <5>2. life[x] # "ACTIVE"
            BY <2>2, <2>3, <3>1, <5>1 DEF Held, Life
          <5>3. QED
            BY <1>2, <2>1, <4>2, <5>2 DEF HeldOK
        <4>3. QED
          BY <4>1, <4>2
      <3>2. CASE x # b
        <4>1. h[x] \in {"STOPPED", "CLOSED"} => life[x] # "ACTIVE"
          BY <1>5, <2>2, <2>3, <3>2 DEF HeldAfter, Reload
        <4>2. QED
          BY <1>2, <2>1, <3>2, <4>1 DEF HeldOK
      <3>3. QED
        BY <3>1, <3>2
    <2>5. QED
      BY <1>1, <2>1, <2>4 DEF SessionOK
  <1>9. QED
    BY <1>1, <1>2, <1>3, <1>4, <1>7, <1>8, OneSession

\* What a flush leaves: no bot becomes ACTIVE, and what is hidden is not.
LEMMA FlushIsSafe ==
    ASSUME ProofInv, NEW r \in Requests, Flush(r)
    PROVE  /\ life' \in [Bots -> Life]
           /\ \A b \in Bots : life'[b] = "ACTIVE" => life[b] = "ACTIVE"
           /\ \A b \in Bots : b \in req[r].dirty => life'[b] # "ACTIVE"
           /\ DeletedNotActive'
  <1>1. \A b \in Bots : HeldOK(r, b)
    BY DEF ProofInv, SessionOK
  <1>2. life' \in [Bots -> Life]
    BY <1>1 DEF ProofInv, Flush, HeldOK, Life
  <1>3. \A b \in Bots : life'[b] = IF b \in req[r].dirty THEN req[r].held[b] ELSE life[b]
    BY DEF Flush
  <1>4. \A b \in Bots : b \in req[r].dirty => life'[b] # "ACTIVE"
    BY <1>1, <1>3 DEF HeldOK
  <1>5. \A b \in Bots : life'[b] = "ACTIVE" => life[b] = "ACTIVE"
    BY <1>3, <1>4
  <1>6. \A b \in Bots : deleted'[b] => deleted[b] \/ b \in req[r].hides
    BY DEF Flush
  <1>7. \A b \in Bots : b \in req[r].hides => life'[b] # "ACTIVE"
    BY <1>1, <1>3, <1>4 DEF HeldOK
  <1>8. DeletedNotActive'
    BY <1>5, <1>6, <1>7 DEF ProofInv, DeletedNotActive
  <1>9. QED
    BY <1>2, <1>4, <1>5, <1>8

\* A commit takes the row for the object; a report changes nothing more.
LEMMA BatchCommits ==
    ASSUME ProofInv, NEW r \in Requests, Commit(r) \/ Report(r) \/ CommitAnswered(r)
    PROVE  ProofInv'
  <1>1. /\ req[r] \in Request /\ SessionOK(r) /\ life \in [Bots -> Life]
        /\ req \in [Requests -> Request]
    BY DEF ProofInv
  <1>2. Flush(r)
    BY DEF Commit, Report, CommitAnswered
  <1>3. \A x \in Bots : IF x \in req[r].dirty THEN life'[x] # "ACTIVE"
                                             ELSE life'[x] = life[x]
    BY <1>2, FlushIsSafe DEF Flush
  <1>4. \A x \in Bots : req[r].held[x] \in {"STOPPED", "CLOSED"} => life'[x] # "ACTIVE"
    BY <1>1, <1>3 DEF SessionOK, HeldOK
  <1>5. CASE Commit(r)
    <2> DEFINE c == req[r].cur
               q == [req[r] EXCEPT !.held[c] = life'[c], !.dirty = {},
                                   !.hides = {}, !.cur = -1, !.at = "next"]
    <2>1. c \in Bots
      BY <1>1, <1>5 DEF Commit, SessionOK
    <2>2. req' = [req EXCEPT ![r] = q]
      BY <1>1, <1>5 DEF Commit
    <2>3. life'[c] \in Life /\ life' \in [Bots -> Life]
      BY <1>2, <2>1, FlushIsSafe
    <2>4. q \in Request
      BY <1>1, <2>1, <2>3 DEF Request, Point, Held
    <2>5. /\ req'[r] \in Request /\ req'[r].at = "next"
          /\ req'[r].held = [req[r].held EXCEPT ![c] = life'[c]]
          /\ req'[r].dirty = {} /\ req'[r].hides = {}
      BY <1>1, <2>2, <2>4 DEF Request
    <2>6. req[r].held \in [Bots -> Held]
      BY <1>1 DEF Request
    <2>7. \A x \in Bots : req'[r].held[x] \in {"STOPPED", "CLOSED"} => life'[x] # "ACTIVE"
      BY <1>4, <2>5, <2>6
    <2>8. SessionOK(r)'
      BY <2>5, <2>7 DEF SessionOK, HeldOK
    <2>9. QED
      BY <1>1, <1>2, <2>2, <2>3, <2>4, <2>8, FlushIsSafe, OneSession
  <1>6. CASE Report(r) \/ CommitAnswered(r)
    <2> DEFINE q == [req[r] EXCEPT !.at = "done", !.dirty = {}, !.hides = {}]
    <2>1. req' = [req EXCEPT ![r] = q]
      BY <1>1, <1>6 DEF Report, CommitAnswered
    <2>2. q \in Request
      BY <1>1 DEF Request, Point
    <2>3. /\ req'[r] \in Request /\ req'[r].at = "done" /\ req'[r].held = req[r].held
          /\ req'[r].dirty = {} /\ req'[r].hides = {}
      BY <1>1, <2>1, <2>2 DEF Request
    <2>4. SessionOK(r)'
      BY <1>4, <2>3 DEF SessionOK, HeldOK
    <2>5. life' \in [Bots -> Life]
      BY <1>2, FlushIsSafe
    <2>6. QED
      BY <1>1, <1>2, <2>1, <2>2, <2>4, <2>5, FlushIsSafe, OneSession
  <1>7. QED
    BY <1>5, <1>6

LEMMA BatchStep == ProofInv /\ [Next]_vars => ProofInv'
  <1>1. ASSUME ProofInv, UNCHANGED vars PROVE ProofInv'
    BY <1>1 DEF vars, ProofInv, SessionOK, HeldOK, DeletedNotActive
  <1>2. ASSUME ProofInv, NEW r \in Requests, Step(r) PROVE ProofInv'
    BY <1>2, BatchReads, BatchWrites, BatchCommits DEF Step
  <1>3. QED
    BY <1>1, <1>2 DEF Next, Done

\* DeletedNotActive for every set of bots and of requests: however removals,
\* stops and closes overlap and whatever they believe of a bot when they
\* commit, no removed bot is left ACTIVE.
THEOREM RemovedNotActive == Spec => []DeletedNotActive
  <1>1. ProofInv => DeletedNotActive
    BY DEF ProofInv
  <1>2. QED
    BY BatchInit, BatchStep, <1>1, PTL DEF Spec

-----------------------------------------------------------------------------
(* What a request reports.                                                 *)

\* The bots a request is about are those to come, the present one, and those
\* it will report; the last are told apart, and ok are those it has committed.
Told(r) ==
    /\ req[r].at \in {"idle", "ids"}
         => req[r].ok = {} /\ req[r].failed = {} /\ wrote[r] = {}
    /\ req[r].at \in {"next", "call", "write", "commit", "answered"} =>
         /\ req[r].ids = req[r].todo \cup req[r].ok \cup req[r].failed
                           \cup (IF req[r].at = "next" THEN {} ELSE {req[r].cur})
         /\ req[r].todo \cap req[r].ok = {} /\ req[r].todo \cap req[r].failed = {}
    /\ req[r].at \in {"call", "write"}
         => req[r].cur \notin req[r].todo \cup req[r].ok \cup req[r].failed
    /\ ~req[r].all /\ req[r].at \in {"next", "call", "write", "commit", "answered"}
         => \E b \in Bots : req[r].ids = {b}
    /\ req[r].at = "answered" => ~req[r].all /\ ~commitFirst
    /\ req[r].at = "unkept" =>
         /\ ~req[r].all /\ ~commitFirst /\ wrote[r] = {}
         /\ req[r].ok = req[r].ids /\ req[r].failed = {}
    /\ req[r].at \in {"commit", "answered"} =>
         /\ req[r].ok = wrote[r] \cup {req[r].cur} /\ req[r].cur \notin wrote[r]
         /\ req[r].dirty \cup req[r].hides = {req[r].cur}
    /\ req[r].at \in {"next", "call", "write", "done"} => req[r].ok = wrote[r]
    /\ req[r].at = "done" => req[r].ok \cup req[r].failed = req[r].ids
    /\ req[r].at \in {"next", "call", "write", "commit", "answered", "done"}
         => req[r].ok \cap req[r].failed = {}

\* A request that has answered ahead of its commit has one bot, changed, and
\* no other to come.
LEMMA AnsweredOne ==
    ASSUME NEW r \in Requests, req[r] \in Request, Told(r), wrote[r] \in SUBSET Bots,
           ~req[r].all, req[r].at \in {"commit", "answered"}
    PROVE  /\ req[r].ok = req[r].ids /\ req[r].failed = {} /\ req[r].todo = {}
           /\ wrote[r] = {}
  <1>1. PICK b \in Bots : req[r].ids = {b}
    BY DEF Told
  <1>2. /\ req[r].ids = req[r].todo \cup req[r].ok \cup req[r].failed \cup {req[r].cur}
        /\ req[r].ok = wrote[r] \cup {req[r].cur} /\ req[r].cur \notin wrote[r]
        /\ req[r].todo \cap req[r].ok = {} /\ req[r].ok \cap req[r].failed = {}
    BY DEF Told
  <1>3. QED
    BY <1>1, <1>2

ToldInv ==
    /\ commitFirst \in BOOLEAN /\ deleted \in [Bots -> BOOLEAN]
    /\ wrote \in [Requests -> SUBSET Bots] /\ faults \in Nat
    /\ \A r \in Requests : Told(r)

LEMMA ToldInit == Init => ToldInv
  BY DEF Init, Idle, ToldInv, Told

\* What is left to show of a step of one session.
LEMMA OneTold ==
    ASSUME ProofInv, ToldInv, NEW r \in Requests, NEW q \in Request, NEW w \in SUBSET Bots,
           req' = [req EXCEPT ![r] = q], wrote' = [wrote EXCEPT ![r] = w],
           deleted' \in [Bots -> BOOLEAN], faults' \in Nat,
           commitFirst' = commitFirst, Told(r)'
    PROVE  ToldInv'
  <1>1. wrote' \in [Requests -> SUBSET Bots]
    BY DEF ToldInv
  <1>2. ASSUME NEW s \in Requests, s # r PROVE Told(s)'
    <2>1. req'[s] = req[s] /\ wrote'[s] = wrote[s] /\ Told(s)
      BY <1>2 DEF ProofInv, ToldInv
    <2>2. QED
      BY <2>1 DEF Told
  <1>3. QED
    BY <1>1, <1>2 DEF ToldInv

\* Steps that commit nothing.
LEMMA ToldReads ==
    ASSUME ProofInv, ToldInv, NEW r \in Requests,
           Authenticate(r) \/ SelectIds(r) \/ Take(r) \/ Refuse(r)
             \/ CallSucceeds(r) \/ CallRefused(r) \/ Break(r) \/ ReportBreaks(r)
             \/ Write(r) \/ Answer(r) \/ AnswerUnkept(r),
           commitFirst' = commitFirst
    PROVE  ToldInv'
  <1>t. /\ req[r] \in Request /\ SessionOK(r) /\ life \in [Bots -> Life]
        /\ req \in [Requests -> Request] /\ Told(r) /\ wrote[r] \in SUBSET Bots
        /\ wrote \in [Requests -> SUBSET Bots]
    BY DEF ProofInv, ToldInv
  <1>u. /\ deleted' \in [Bots -> BOOLEAN] /\ faults' \in Nat
        /\ wrote' = [wrote EXCEPT ![r] = wrote[r]] /\ wrote'[r] = wrote[r]
    <2>1. UNCHANGED <<deleted, wrote>> /\ faults' \in {faults, faults + 1}
      BY DEF Authenticate, SelectIds, Take, Refuse, CallSucceeds, CallRefused, Break,
             ReportBreaks, Write, Answer, AnswerUnkept, Fault
    <2>2. QED
      BY <1>t, <2>1 DEF ToldInv
  <1>q. ASSUME NEW q \in Request, req' = [req EXCEPT ![r] = q],
               Told(r)'
        PROVE  ToldInv'
    BY <1>t, <1>u, <1>q, OneTold
  <1>1. CASE Authenticate(r)
    <2>1. PICK op \in Op \ {"none"}, all \in BOOLEAN :
            req' = [req EXCEPT ![r] = [Idle EXCEPT !.op = op, !.all = all,
                                                   !.at = "ids", !.held = life]]
      BY <1>1 DEF Authenticate
    <2> DEFINE q == [Idle EXCEPT !.op = op, !.all = all, !.at = "ids", !.held = life]
    <2>2. q \in Request /\ q.at = "ids" /\ q.ok = {} /\ q.failed = {}
      BY <1>t DEF Idle, Request, Point, Held
    <2>3. wrote[r] = {}
      BY <1>1, <1>t DEF Authenticate, Told
    <2>4. req'[r] = q
      BY <1>t, <2>1
    <2> HIDE DEF q
    <2>5. Told(r)'
      BY <1>u, <2>2, <2>3, <2>4 DEF Told
    <2>6. QED
      BY <1>q, <2>1, <2>2, <2>5 DEF q
  <1>2. CASE SelectIds(r)
    <2> DEFINE All == {{x \in Bots : ~deleted[x] /\ Eligible(req[r].op, life[x])}}
               One == {{x} : x \in Bots}
    <2>1. PICK S \in IF req[r].all THEN All ELSE One :
            req' = [req EXCEPT ![r].ids = S, ![r].todo = S, ![r].at = "next"]
      BY <1>2 DEF SelectIds
    <2>2. S \in SUBSET Bots
      OBVIOUS
    <2> DEFINE q == [req[r] EXCEPT !.ids = S, !.todo = S, !.at = "next"]
    <2>3. q \in Request /\ req' = [req EXCEPT ![r] = q]
      BY <1>t, <2>1, <2>2 DEF Request, Point
    <2>4. ~req[r].all => \E b \in Bots : S = {b}
      OBVIOUS
    <2>5. req[r].ok = {} /\ req[r].failed = {} /\ wrote[r] = {}
      BY <1>2, <1>t DEF SelectIds, Told
    <2>6. /\ req'[r].at = "next" /\ req'[r].ids = S /\ req'[r].todo = S
          /\ req'[r].ok = {} /\ req'[r].failed = {} /\ wrote[r] = {}
          /\ req'[r].all = req[r].all
      BY <1>t, <2>3, <2>5 DEF Request
    <2>7. Told(r)'
      BY <1>u, <2>4, <2>6 DEF Told
    <2>8. QED
      BY <1>q, <2>3, <2>7
  <1>3. CASE Take(r)
    <2> DEFINE b == NextBot(r)
               n == IF req[r].op = "remove" /\ Seen(r, b) # "ACTIVE"
                    THEN "write" ELSE "call"
               q == [req[r] EXCEPT !.cur = b, !.todo = @ \ {b},
                                   !.held[b] = Seen(r, b), !.at = n]
    <2>1. req' = [req EXCEPT ![r] = q]
      BY <1>3, <1>t DEF Take
    <2>2. b \in req[r].todo /\ b \in Bots
      BY <1>3, <1>t, NextIsABot DEF Take, Request
    <2>3. Seen(r, b) \in Life
      BY <1>t, <2>2 DEF Seen, Request, Held
    <2>4. q \in Request
      BY <1>t, <2>2, <2>3 DEF Request, Point, Held
    <2>5. /\ req'[r].at \in {"call", "write"} /\ req'[r].cur = b
          /\ req'[r].ids = req[r].ids /\ req'[r].todo = req[r].todo \ {b}
          /\ req'[r].ok = req[r].ok /\ req'[r].failed = req[r].failed
          /\ req'[r].all = req[r].all
      BY <1>t, <2>1, <2>4 DEF Request
    <2>6. req[r].at = "next" /\ b \notin req[r].ok \cup req[r].failed
      BY <1>3, <1>t, <2>2 DEF Take, Told
    <2> HIDE DEF b
    <2>7. /\ req[r].ids = req[r].todo \cup req[r].ok \cup req[r].failed
          /\ req[r].todo \cap req[r].ok = {} /\ req[r].todo \cap req[r].failed = {}
          /\ req[r].ok = wrote[r] /\ req[r].ok \cap req[r].failed = {}
          /\ ~req[r].all => \E x \in Bots : req[r].ids = {x}
      BY <1>t, <2>6 DEF Told
    <2>8. Told(r)'
      BY <1>u, <2>2, <2>5, <2>6, <2>7 DEF Told
    <2>9. QED
      BY <1>q, <2>1, <2>4, <2>8
  <1>4. ASSUME NEW b \in Bots, Fails(r, b),
               \/ req[r].at = "next" /\ b \in req[r].todo
               \/ req[r].at = "call" /\ b = req[r].cur
        PROVE  ToldInv'
    <2> DEFINE q == [req[r] EXCEPT !.failed = @ \cup {b}, !.todo = @ \ {b},
                       !.held = [x \in Bots |-> "expired"],
                       !.dirty = {}, !.hides = {}, !.cur = -1, !.at = "next"]
    <2>1. req' = [req EXCEPT ![r] = q]
      BY <1>4, <1>t DEF Fails
    <2>2. q \in Request
      BY <1>t DEF Request, Point, Held
    <2>3. /\ req'[r].at = "next" /\ req'[r].ids = req[r].ids
          /\ req'[r].todo = req[r].todo \ {b}
          /\ req'[r].ok = req[r].ok /\ req'[r].failed = req[r].failed \cup {b}
          /\ req'[r].all = req[r].all
      BY <1>t, <2>1, <2>2 DEF Request
    <2>4. Told(r)'
      BY <1>4, <1>t, <1>u, <2>3 DEF Told
    <2>5. QED
      BY <1>q, <2>1, <2>2, <2>4
  <1>5. CASE Refuse(r)
    <2>1. /\ NextBot(r) \in Bots /\ NextBot(r) \in req[r].todo
          /\ req[r].at = "next" /\ Fails(r, NextBot(r))
      BY <1>5, <1>t, NextIsABot DEF Refuse, Request
    <2>2. QED
      BY <2>1, <1>4
  <1>6. ASSUME req[r].at = "call", req' = [req EXCEPT ![r].at = "write"]
        PROVE  ToldInv'
    <2> DEFINE q == [req[r] EXCEPT !.at = "write"]
    <2>1. q \in Request /\ req' = [req EXCEPT ![r] = q]
      BY <1>6, <1>t DEF Request, Point
    <2>2. /\ req'[r].at = "write" /\ req'[r].ids = req[r].ids /\ req'[r].all = req[r].all
          /\ req'[r].todo = req[r].todo /\ req'[r].cur = req[r].cur
          /\ req'[r].ok = req[r].ok /\ req'[r].failed = req[r].failed
      BY <1>t, <2>1 DEF Request
    <2>3. Told(r)'
      BY <1>6, <1>t, <1>u, <2>2 DEF Told
    <2>4. QED
      BY <1>q, <2>1, <2>3
  <1>7. CASE CallRefused(r)
    <2>1. req[r].cur \in Bots
      BY <1>7, <1>t DEF CallRefused, SessionOK
    <2>2. QED
      BY <1>7, <2>1, <1>4, <1>6 DEF CallRefused
  <1>8. CASE Break(r) \/ ReportBreaks(r)
    <2>1. PICK h \in [Bots -> Held] :
            req' = [req EXCEPT ![r] = [req[r] EXCEPT !.held = h, !.dirty = {},
                                         !.hides = {}, !.at = "broken"]]
      <3>1. CASE Break(r)
        <4>1. [x \in Bots |-> "expired"] \in [Bots -> Held]
          BY DEF Held
        <4>2. QED
          BY <1>t, <3>1, <4>1 DEF Break
      <3>2. CASE ReportBreaks(r)
        <4>1. /\ req[r].held \in [Bots -> Held]
              /\ req' = [req EXCEPT ![r] = [req[r] EXCEPT !.dirty = {}, !.hides = {},
                                                          !.at = "broken"]]
          BY <1>t, <3>2 DEF ReportBreaks, Request
        <4>2. [req[r] EXCEPT !.dirty = {}, !.hides = {}, !.at = "broken"]
                = [req[r] EXCEPT !.held = req[r].held, !.dirty = {}, !.hides = {},
                                 !.at = "broken"]
          BY <1>t DEF Request
        <4>3. QED
          BY <4>1, <4>2
      <3>3. QED
        BY <1>8, <3>1, <3>2
    <2> DEFINE q == [req[r] EXCEPT !.held = h, !.dirty = {}, !.hides = {}, !.at = "broken"]
    <2>2. q \in Request /\ req'[r].at = "broken"
      BY <1>t, <2>1 DEF Request, Point
    <2>3. Told(r)'
      BY <2>2 DEF Told
    <2>4. QED
      BY <1>q, <2>1, <2>2, <2>3
  <1>9. CASE Write(r)
    <2> DEFINE b == req[r].cur
               h == HeldAfter(r)
               d == IF SetsStatus(r) THEN {b} ELSE {}
               g == IF req[r].op = "remove" THEN {b} ELSE {}
               q == [req[r] EXCEPT !.held = h, !.dirty = d, !.hides = g,
                                   !.ok = @ \cup {b}, !.at = "commit"]
    <2>1. /\ req[r].at = "write" /\ b \in Bots
          /\ req[r].dirty = {} /\ req[r].hides = {}
      BY <1>9, <1>t DEF Write, SessionOK
    <2>2. req' = [req EXCEPT ![r] = q]
      <3>1. d = IF SetsStatus(r) THEN req[r].dirty \cup {b} ELSE req[r].dirty
        BY <2>1
      <3>2. g = IF req[r].op = "remove" THEN req[r].hides \cup {b} ELSE req[r].hides
        BY <2>1
      <3>3. QED
        BY <1>9, <1>t, <3>1, <3>2 DEF Write
    <2>3. h \in [Bots -> Held]
      <3>1. Reload(req[r].held) \in [Bots -> Held]
        BY <1>t DEF Reload, Request, Held
      <3>2. QED
        BY <3>1, <2>1 DEF HeldAfter, Target, Held, Life
    <2>4. q \in Request
      BY <1>t, <2>1, <2>3 DEF Request, Point
    <2>5. /\ req'[r].at = "commit" /\ req'[r].ids = req[r].ids /\ req'[r].all = req[r].all
          /\ req'[r].todo = req[r].todo /\ req'[r].cur = b
          /\ req'[r].ok = req[r].ok \cup {b} /\ req'[r].failed = req[r].failed
          /\ req'[r].dirty = d /\ req'[r].hides = g
      BY <1>t, <2>2, <2>4 DEF Request
    <2>6. d \cup g = {b}
      BY DEF SetsStatus
    <2>7. Told(r)'
      BY <1>t, <1>u, <2>1, <2>5, <2>6 DEF Told
    <2>8. QED
      BY <1>q, <2>2, <2>4, <2>7
  <1>10. CASE Answer(r) \/ AnswerUnkept(r)
    <2>1. PICK q \in Request :
            /\ req' = [req EXCEPT ![r] = q]
            /\ q.ids = req[r].ids /\ q.all = req[r].all /\ q.todo = req[r].todo
            /\ q.ok = req[r].ok /\ q.failed = req[r].failed /\ q.cur = req[r].cur
            /\ \/ /\ req[r].at = "commit" /\ ~req[r].all /\ ~commitFirst
                  /\ q.at = "answered" /\ q.dirty = req[r].dirty /\ q.hides = req[r].hides
               \/ req[r].at = "answered" /\ q.at = "unkept"
      <3>1. CASE Answer(r)
        <4> DEFINE q == [req[r] EXCEPT !.at = "answered"]
        <4>1. q \in Request /\ req' = [req EXCEPT ![r] = q]
          BY <1>t, <3>1 DEF Answer, Request, Point
        <4>2. QED
          BY <1>t, <3>1, <4>1 DEF Answer, CommitsFirst, Request
      <3>2. CASE AnswerUnkept(r)
        <4> DEFINE q == [req[r] EXCEPT !.held = [x \in Bots |-> "expired"],
                           !.dirty = {}, !.hides = {}, !.at = "unkept"]
        <4>1. q \in Request /\ req' = [req EXCEPT ![r] = q]
          BY <1>t, <3>2 DEF AnswerUnkept, Request, Point, Held
        <4>2. QED
          BY <1>t, <3>2, <4>1 DEF AnswerUnkept, Request
      <3>3. QED
        BY <1>10, <3>1, <3>2
    <2>2. req'[r] = q
      BY <1>t, <2>1
    <2>3. Told(r)'
      <3>1. CASE req[r].at = "commit"
        BY <1>t, <1>u, <2>1, <2>2, <3>1 DEF Told
      <3>2. CASE req[r].at = "answered"
        <4>1. ~req[r].all /\ ~commitFirst
          BY <1>t, <3>2 DEF Told
        <4>2. /\ req[r].ok = req[r].ids /\ req[r].failed = {} /\ wrote[r] = {}
          BY <1>t, <3>2, <4>1, AnsweredOne
        <4>3. q.at = "unkept"
          BY <2>1, <3>2
        <4>4. QED
          BY <1>u, <2>1, <2>2, <4>1, <4>2, <4>3 DEF Told
      <3>3. QED
        BY <2>1, <3>1, <3>2
    <2>4. QED
      BY <1>q, <2>1, <2>3
  <1>11. QED
    BY <1>1, <1>2, <1>3, <1>5, <1>6, <1>7, <1>8, <1>9, <1>10 DEF CallSucceeds

\* A commit and a report write what the session has changed.
LEMMA ToldCommits ==
    ASSUME ProofInv, ToldInv, NEW r \in Requests,
           Commit(r) \/ Report(r) \/ CommitAnswered(r),
           commitFirst' = commitFirst, ProofInv'
    PROVE  ToldInv'
  <1>t. /\ req[r] \in Request /\ SessionOK(r) /\ req \in [Requests -> Request]
        /\ Told(r) /\ wrote[r] \in SUBSET Bots /\ wrote \in [Requests -> SUBSET Bots]
        /\ req[r].dirty \in SUBSET Bots /\ req[r].hides \in SUBSET Bots
    BY DEF ProofInv, ToldInv, Request
  <1> DEFINE w == wrote[r] \cup req[r].dirty \cup req[r].hides
  <1>1. /\ deleted' \in [Bots -> BOOLEAN] /\ faults' \in Nat
        /\ wrote' = [wrote EXCEPT ![r] = w] /\ w \in SUBSET Bots /\ wrote'[r] = w
    BY <1>t DEF Commit, Report, CommitAnswered, Flush, ToldInv
  <1>2. req'[r] \in Request /\ req' = [req EXCEPT ![r] = req'[r]]
    BY <1>t DEF Commit, Report, CommitAnswered, ProofInv
  <1> HIDE DEF w
  <1>3. /\ req'[r].ids = req[r].ids /\ req'[r].todo = req[r].todo
        /\ req'[r].ok = req[r].ok /\ req'[r].failed = req[r].failed
        /\ req'[r].all = req[r].all
    BY <1>t DEF Commit, Report, CommitAnswered, Request
  <1>4. CASE Commit(r)
    <2>1. req[r].at = "commit" /\ req'[r].at = "next"
      BY <1>4, <1>t DEF Commit, Request
    <2>2. w = wrote[r] \cup {req[r].cur}
      BY <1>t, <2>1 DEF w, Told
    <2>3. Told(r)'
      BY <1>t, <1>1, <1>3, <2>1, <2>2 DEF Told
    <2>4. QED
      BY <1>1, <1>2, <2>3, OneTold
  <1>5. CASE Report(r)
    <2>1. req[r].at = "next" /\ req'[r].at = "done" /\ req[r].todo = {}
      BY <1>5, <1>t DEF Report, Request
    <2>2. w = wrote[r]
      BY <1>t, <2>1 DEF w, SessionOK
    <2>3. Told(r)'
      BY <1>t, <1>1, <1>3, <2>1, <2>2 DEF Told
    <2>4. QED
      BY <1>1, <1>2, <2>3, OneTold
  <1>6. CASE CommitAnswered(r)
    <2>1. req[r].at = "answered" /\ req'[r].at = "done"
      BY <1>6, <1>t DEF CommitAnswered, Request
    <2>2. w = wrote[r] \cup {req[r].cur}
      BY <1>t, <2>1 DEF w, Told
    <2>3. /\ ~req[r].all /\ req[r].ok = w
          /\ req[r].ok \cap req[r].failed = {}
      BY <1>t, <2>1, <2>2 DEF Told
    <2>4. req[r].ok = req[r].ids /\ req[r].failed = {}
      BY <1>t, <2>1, <2>3, AnsweredOne
    <2>5. Told(r)'
      BY <1>1, <1>3, <2>1, <2>3, <2>4 DEF Told
    <2>6. QED
      BY <1>1, <1>2, <2>5, OneTold
  <1>7. QED
    BY <1>4, <1>5, <1>6

LEMMA ToldStep == ProofInv /\ ToldInv /\ [Next]_vars => ToldInv'
  <1>1. ASSUME ProofInv, ToldInv, UNCHANGED vars PROVE ToldInv'
    BY <1>1 DEF vars, ToldInv, Told
  <1>2. ASSUME ProofInv, ToldInv, NEW r \in Requests, Step(r), ProofInv' PROVE ToldInv'
    BY <1>2, ToldReads, ToldCommits DEF Step
  <1>3. QED
    BY <1>1, <1>2, BatchStep DEF Next, Done

LEMMA ToldInductive == Spec => [](ProofInv /\ ToldInv)
  BY BatchInit, BatchStep, ToldInit, ToldStep, PTL DEF Spec

\* ReportTrue for any bots and requests: the answer of a batch, and of every
\* request that get_db commits first, names as changed exactly the bots whose
\* change it has committed, and as failed the others, whatever failed, was
\* refused or was rolled back; where get_db commits last, only the answer of a
\* request for one bot comes before the commit.
THEOREM ReportIsTrue == Spec => []ReportTrue
  <1>1. ASSUME ProofInv, ToldInv, NEW r \in Requests, req[r].at = "answered"
        PROVE  /\ ~req[r].all /\ ~commitFirst /\ req[r].ok = req[r].ids
               /\ req[r].failed = {} /\ wrote[r] = {}
    <2>1. req[r] \in Request /\ Told(r) /\ wrote[r] \in SUBSET Bots
      BY <1>1 DEF ProofInv, ToldInv
    <2>2. ~req[r].all /\ ~commitFirst
      BY <1>1, <2>1 DEF Told
    <2>3. QED
      BY <1>1, <2>1, <2>2, AnsweredOne
  <1>2. ProofInv /\ ToldInv => ReportTrue
    BY <1>1 DEF ToldInv, Told, ReportTrue
  <1>3. QED
    BY <1>2, ToldInductive, PTL

\* Type correctness, and with it: no session carries changes of one bot over to
\* the next one of its batch.
THEOREM BatchTypes == Spec => []TypeOK
  <1>1. ASSUME ProofInv, ToldInv, NEW r \in Requests
        PROVE  req[r].dirty \cup req[r].hides \subseteq {req[r].cur}
    <2>1. SessionOK(r) /\ Told(r)
      BY <1>1 DEF ProofInv, ToldInv
    <2>2. QED
      BY <2>1 DEF SessionOK, Told
  <1>2. ProofInv /\ ToldInv => TypeOK
    BY <1>1 DEF ProofInv, ToldInv, TypeOK
  <1>3. QED
    BY <1>2, ToldInductive, PTL

-----------------------------------------------------------------------------
(* Every request shortens what it has to do.                               *)

\* One step of a session, by the handler it is in.
LEMMA StepShortens ==
    ASSUME ProofInv, NEW r \in Requests, Step(r)
    PROVE  Shortens(r) /\ \A s \in Requests \ {r} : req'[s] = req[s]
  <1>t. req \in [Requests -> Request] /\ req[r] \in Request
    BY DEF ProofInv
  <1>2. \A s \in Requests \ {r} : req'[s] = req[s]
    BY <1>t
    DEF Step, Authenticate, SelectIds, Take, Refuse, Fails, CallSucceeds, CallRefused, Break,
        Write, Commit, Report, ReportBreaks, Answer, CommitAnswered, AnswerUnkept
  <1> SUFFICES Shortens(r)
    BY <1>2
  <1>3. CASE Authenticate(r)
    BY <1>t, <1>3 DEF Authenticate, Idle, Shortens, Shorter, Left
  <1>4. CASE SelectIds(r)
    BY <1>t, <1>4 DEF SelectIds, Shortens, Request
  <1>5. CASE Take(r) \/ Refuse(r)
    <2>1. req[r].todo # {} /\ req[r].todo \subseteq Bots /\ req[r].at = "next"
      BY <1>t, <1>5 DEF Take, Refuse, Request
    <2>2. NextBot(r) \in req[r].todo
      BY <2>1, NextIsABot
    <2>3. req'[r].todo = req[r].todo \ {NextBot(r)} /\ req'[r].at \in {"next", "call", "write"}
      <3>1. CASE Take(r)
        BY <1>t, <3>1 DEF Take, Request
      <3>2. CASE Refuse(r)
        BY <1>t, <3>2 DEF Refuse, Fails, Request
      <3>3. QED
        BY <1>5, <3>1, <3>2
    <2>4. QED
      BY <2>1, <2>2, <2>3 DEF Shortens, Shorter
  <1>6. CASE CallSucceeds(r) \/ CallRefused(r) \/ Break(r)
    <2>1. /\ req[r].at \in {"next", "call", "write", "commit"} /\ req'[r].todo \subseteq req[r].todo
          /\ Left(req'[r].at) < Left(req[r].at) /\ req'[r].at \in {"write", "next", "broken"}
      <3>1. CASE CallSucceeds(r)
        BY <1>t, <3>1 DEF CallSucceeds, Request, Left
      <3>2. CASE CallRefused(r)
        <4>1. CASE Fails(r, req[r].cur)
          <5>1. req'[r].todo = req[r].todo \ {req[r].cur} /\ req'[r].at = "next"
            BY <1>t, <4>1 DEF Fails, Request
          <5>2. QED
            BY <3>2, <5>1 DEF CallRefused, Left
        <4>2. CASE req' = [req EXCEPT ![r].at = "write"]
          BY <1>t, <3>2, <4>2 DEF CallRefused, Request, Left
        <4>3. QED
          BY <3>2, <4>1, <4>2 DEF CallRefused
      <3>3. CASE Break(r)
        BY <1>t, <3>3 DEF Break, Request, Left
      <3>4. QED
        BY <1>6, <3>1, <3>2, <3>3
    <2>2. QED
      BY <2>1 DEF Shortens, Shorter
  <1>7. CASE Write(r) \/ Commit(r) \/ Answer(r)
    <2>1. /\ req[r].at \in {"write", "commit"} /\ req'[r].todo = req[r].todo
          /\ Left(req'[r].at) < Left(req[r].at)
          /\ req'[r].at \in {"commit", "next", "answered"}
      <3>1. CASE Write(r)
        BY <1>t, <3>1 DEF Write, Request, Left
      <3>2. CASE Commit(r)
        BY <1>t, <3>2 DEF Commit, Request, Left
      <3>3. CASE Answer(r)
        BY <1>t, <3>3 DEF Answer, Request, Left
      <3>4. QED
        BY <1>7, <3>1, <3>2, <3>3
    <2>2. QED
      BY <2>1 DEF Shortens, Shorter
  <1>8. CASE Report(r) \/ ReportBreaks(r) \/ CommitAnswered(r) \/ AnswerUnkept(r)
    <2>1. /\ req[r].at \in {"next", "answered"} /\ req'[r].todo = req[r].todo
          /\ req'[r].at \in End
      <3>1. CASE Report(r)
        BY <1>t, <3>1 DEF Report, Request, End
      <3>2. CASE ReportBreaks(r)
        BY <1>t, <3>2 DEF ReportBreaks, Request, End
      <3>3. CASE CommitAnswered(r)
        BY <1>t, <3>3 DEF CommitAnswered, Request, End
      <3>4. CASE AnswerUnkept(r)
        BY <1>t, <3>4 DEF AnswerUnkept, Request, End
      <3>5. QED
        BY <1>8, <3>1, <3>2, <3>3, <3>4
    <2>2. QED
      BY <2>1 DEF Shortens, Shorter, Left, End
  <1>9. QED
    BY <1>3, <1>4, <1>5, <1>6, <1>7, <1>8 DEF Step

\* The safe half of RequestsEnd, for any bots, requests and failures: a batch
\* comes to each bot once, also to those that fail.
THEOREM BatchShortens == Spec => EveryStepShortens
  <1> DEFINE A == \A r \in Requests : Shortens(r)
  <1>1. ProofInv /\ [Next]_vars => [A]_vars
    <2> SUFFICES ASSUME ProofInv, Next PROVE A
      OBVIOUS
    <2>1. ASSUME NEW r \in Requests, Step(r), NEW s \in Requests PROVE Shortens(s)
      BY <2>1, StepShortens DEF Shortens
    <2>2. CASE Done
      BY <2>2 DEF Done, vars, Shortens
    <2>3. QED
      BY <2>1, <2>2 DEF Next
  <1>2. QED
    BY <1>1, BatchInit, BatchStep, PTL DEF Spec, EveryStepShortens
=============================================================================
