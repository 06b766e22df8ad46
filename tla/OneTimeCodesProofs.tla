-------------------------- MODULE OneTimeCodesProofs --------------------------
(* ReplacedGone, TypeOK and OnlyByStandingCode for any users, requests,     *)
(* codes and numbers of rows.                                               *)
EXTENDS OneTimeCodes, TLAPS

\* Rows that have been inserted, committed or not.
Born == {i \in Ids : i < nextId}

\* Everything the transactions know of is a row that was inserted, and a row
\* not committed yet is known to its own transaction only.
Known ==
    /\ nextId \in Nat /\ req \in [Requests -> Request]
    /\ info \in [Ids -> [user : Users \cup {None}, code : Codes \cup {None}]]
    /\ replaced \in [Ids -> SUBSET Ids]
    /\ table \subseteq Born
    /\ \A i \in Ids : replaced[i] \subseteq Born
    /\ \A r \in Requests : req[r].snap \subseteq Born

Pending(r) == req[r].at = "insert"

Private ==
    \A r \in Requests : Pending(r) =>
        /\ req[r].row \in Born /\ req[r].row \notin table
        /\ \A i \in Ids : req[r].row \notin replaced[i]
        /\ \A s \in Requests :
             /\ req[r].row \notin req[s].snap
             /\ Pending(s) /\ s # r => req[s].row # req[r].row

CodeInv == Known /\ Private /\ ReplacedGone

LEMMA CodeInit == Init => CodeInv
  BY RowsAssumption DEF Init, Idle, Request, Point, Ids, CodeInv, Known, Born,
         Private, Pending, ReplacedGone

\* A step of a request that stops short of a row of its own.
LEMMA Ends ==
    ASSUME CodeInv, NEW r \in Requests, NEW q \in Request,
           req' = [req EXCEPT ![r] = q], q.at # "insert",
           q.snap \subseteq table \/ q.snap \subseteq req[r].snap,
           UNCHANGED <<table, nextId, info, replaced>>
    PROVE  CodeInv'
  <1>1. Born' = Born
    BY DEF Born
  <1>2. /\ req' \in [Requests -> Request] /\ req'[r] = q
        /\ \A s \in Requests : s # r => req'[s] = req[s]
    BY DEF CodeInv, Known
  <1>3. Known'
    BY <1>1, <1>2 DEF CodeInv, Known
  <1>4. ASSUME NEW s \in Requests, Pending(s)'
        PROVE  /\ s # r /\ Pending(s) /\ req'[s] = req[s]
               /\ req[s].row \notin q.snap
    BY <1>2, <1>4 DEF Pending, CodeInv, Private
  <1>5. Private'
    BY <1>1, <1>2, <1>4 DEF CodeInv, Private, Pending
  <1>6. QED
    BY <1>3, <1>5 DEF CodeInv, ReplacedGone

LEMMA CodeStep == CodeInv /\ [Next]_vars => CodeInv'
  <1> SUFFICES ASSUME CodeInv, [Next]_vars PROVE CodeInv'
    OBVIOUS
  <1>t. /\ nextId \in Nat /\ req \in [Requests -> Request]
        /\ table \subseteq Born /\ replaced \in [Ids -> SUBSET Ids]
        /\ info \in [Ids -> [user : Users \cup {None}, code : Codes \cup {None}]]
    BY DEF CodeInv, Known
  <1>1. ASSUME NEW r \in Requests, Create(r) PROVE CodeInv'
    <2> DEFINE q(u) == [Idle EXCEPT !.at = "delete", !.user = u,
                          !.snap = {i \in table : info[i].user = u}]
    <2>1. PICK u \in Users : req' = [req EXCEPT ![r] = q(u)]
      BY <1>1 DEF Create
    <2>2. q(u) \in Request /\ q(u).at # "insert" /\ q(u).snap \subseteq table
      BY <1>t DEF Idle, Request, Point, Born
    <2>3. UNCHANGED <<table, nextId, info, replaced>>
      BY <1>1 DEF Create
    <2>4. QED
      BY <2>1, <2>2, <2>3, Ends
  <1>2. ASSUME NEW r \in Requests, Insert(r) PROVE CodeInv'
    <2> DEFINE q == [req[r] EXCEPT !.at = "insert", !.row = nextId]
    <2>1. /\ req' = [req EXCEPT ![r] = q] /\ nextId' = nextId + 1
          /\ UNCHANGED <<table, replaced>>
      BY <1>2, <1>t DEF Insert
    <2>a. nextId \in Ids
      BY <1>2 DEF Insert
    <2>2. q \in Request /\ q.snap = req[r].snap /\ q.at = "insert" /\ q.row = nextId
      BY <1>t, <2>a DEF Request, Point
    <2>3. /\ req'[r] = q /\ req' \in [Requests -> Request]
          /\ \A s \in Requests : s # r => req'[s] = req[s]
          /\ \A s \in Requests : req'[s].snap = req[s].snap
      BY <1>t, <2>1, <2>2
    <2>4. Born \subseteq Born' /\ nextId \in Born' /\ nextId \notin Born
      BY <1>t, <2>1, <2>a DEF Born, Ids
    <2>b. info' \in [Ids -> [user : Users \cup {None}, code : Codes \cup {None}]]
      <3>1. PICK c \in Codes :
              info' = [info EXCEPT ![nextId] = [user |-> req[r].user, code |-> c]]
        BY <1>2 DEF Insert
      <3>2. req[r].user \in Users \cup {None}
        BY <1>t DEF Request
      <3>3. QED
        BY <1>t, <2>a, <3>1, <3>2
    <2>5. Known'
      BY <1>t, <2>1, <2>3, <2>4, <2>b DEF CodeInv, Known
    <2>6. ASSUME NEW s \in Requests, Pending(s)'
          PROVE  /\ req'[s].row \in Born' /\ req'[s].row \notin table'
                 /\ \A i \in Ids : req'[s].row \notin replaced'[i]
                 /\ \A x \in Requests : /\ req'[s].row \notin req'[x].snap
                                        /\ Pending(x)' /\ x # s => req'[x].row # req'[s].row
      <3>1. CASE s = r
        BY <3>1, <1>t, <2>1, <2>2, <2>3, <2>4 DEF CodeInv, Known, Private, Pending
      <3>2. CASE s # r
        BY <3>2, <2>6, <1>t, <2>1, <2>2, <2>3, <2>4 DEF CodeInv, Known, Private, Pending
      <3>3. QED
        BY <3>1, <3>2
    <2>7. Private'
      BY <2>6 DEF Private
    <2>8. QED
      BY <2>1, <2>5, <2>7 DEF CodeInv, ReplacedGone
  <1>3. ASSUME NEW r \in Requests, CommitCreate(r) PROVE CodeInv'
    <2> DEFINE w == req[r].row
               q == [req[r] EXCEPT !.at = "done"]
    <2>1. /\ table' = (table \ req[r].snap) \cup {w} /\ UNCHANGED <<nextId, info>>
          /\ replaced' = [replaced EXCEPT ![w] = req[r].snap]
          /\ req' = [req EXCEPT ![r] = q] /\ Pending(r)
      BY <1>3, <1>t DEF CommitCreate, Pending
    <2>2. /\ w \in Born /\ w \notin table /\ \A i \in Ids : w \notin replaced[i]
          /\ \A s \in Requests : w \notin req[s].snap
      BY <2>1 DEF CodeInv, Private
    <2>3. w \in Ids /\ req[r].snap \subseteq Born /\ req[r].snap \subseteq Ids
      BY <2>2 DEF CodeInv, Known, Born
    <2>4. /\ q \in Request /\ q.snap = req[r].snap
          /\ req'[r] = q /\ req' \in [Requests -> Request]
          /\ \A s \in Requests : s # r => req'[s] = req[s]
          /\ \A s \in Requests : req'[s].snap = req[s].snap
      BY <1>t, <2>1 DEF Request, Point
    <2>5. /\ replaced'[w] = req[r].snap
          /\ \A i \in Ids : i # w => replaced'[i] = replaced[i]
          /\ replaced' \in [Ids -> SUBSET Ids] /\ Born' = Born
      BY <1>t, <2>1, <2>3 DEF Born
    <2>6. Known'
      BY <1>t, <2>1, <2>2, <2>3, <2>4, <2>5 DEF CodeInv, Known
    <2>7. ASSUME NEW s \in Requests, Pending(s)'
          PROVE  s # r /\ Pending(s) /\ req'[s] = req[s] /\ req[s].row # w
      BY <2>1, <2>4, <2>7 DEF CodeInv, Private, Pending, Request
    <2>8. Private'
      <3> SUFFICES ASSUME NEW s \in Requests, Pending(s)'
                   PROVE  /\ req[s].row \in Born /\ req[s].row \notin table'
                          /\ \A i \in Ids : req[s].row \notin replaced'[i]
                          /\ \A x \in Requests :
                               /\ req[s].row \notin req[x].snap
                               /\ Pending(x)' /\ x # s => req'[x].row # req[s].row
        BY <2>4, <2>5, <2>7 DEF Private
      <3>1. s # r /\ Pending(s) /\ req[s].row # w
        BY <2>7
      <3>2. /\ req[s].row \in Born /\ req[s].row \notin table
            /\ \A i \in Ids : req[s].row \notin replaced[i]
            /\ \A x \in Requests : req[s].row \notin req[x].snap
            /\ \A x \in Requests : Pending(x) /\ x # s => req[x].row # req[s].row
        BY <3>1 DEF CodeInv, Private
      <3>3. QED
        BY <2>1, <2>5, <2>7, <3>1, <3>2
    <2>9. ReplacedGone'
      BY <2>1, <2>2, <2>3, <2>5, <1>t DEF CodeInv, ReplacedGone, Born
    <2>10. QED
      BY <2>6, <2>8, <2>9 DEF CodeInv
  <1>4. ASSUME NEW r \in Requests, Read(r) PROVE CodeInv'
    <2> DEFINE q(a) == [Idle EXCEPT !.at = a]
               f(i, v) == [Idle EXCEPT !.at = "mark", !.user = info[i].user,
                                       !.row = i, !.value = v]
    <2>0. UNCHANGED <<table, nextId, info, replaced>>
      BY <1>4 DEF Read
    <2>1. CASE \E a \in {"failed", "invalid"} : req' = [req EXCEPT ![r] = q(a)]
      <3>1. PICK a \in {"failed", "invalid"} : req' = [req EXCEPT ![r] = q(a)]
        BY <2>1
      <3>2. q(a) \in Request /\ q(a).at # "insert" /\ q(a).snap = {}
        BY DEF Idle, Request, Point
      <3>3. QED
        BY <2>0, <3>1, <3>2, Ends
    <2>2. CASE \E i \in table, v \in Values : req' = [req EXCEPT ![r] = f(i, v)]
      <3>1. PICK i \in table, v \in Values : req' = [req EXCEPT ![r] = f(i, v)]
        BY <2>2
      <3>2. i \in Ids /\ info[i].user \in Users \cup {None}
        BY <1>t DEF Born
      <3>3. f(i, v) \in Request /\ f(i, v).at # "insert" /\ f(i, v).snap = {}
        BY <3>2 DEF Idle, Request, Point
      <3>4. QED
        BY <2>0, <3>1, <3>3, Ends
    <2>3. QED
      BY <1>4, <2>1, <2>2 DEF Read, Matches
  <1>5. ASSUME NEW r \in Requests, NEW a \in {"done", "failed"},
               req' = [req EXCEPT ![r].at = a],
               UNCHANGED <<table, nextId, info, replaced>>
        PROVE  CodeInv'
    <2> DEFINE q == [req[r] EXCEPT !.at = a]
    <2>1. q \in Request /\ q.at # "insert" /\ q.snap = req[r].snap
      BY <1>t DEF Request, Point
    <2>2. req' = [req EXCEPT ![r] = q]
      BY <1>5, <1>t
    <2>3. QED
      BY <1>5, <2>1, <2>2, Ends
  <1>6. ASSUME NEW r \in Requests, Mark(r) \/ MarkFails(r) \/ Break(r) PROVE CodeInv'
    <2>1. CASE Mark(r)
      BY <2>1, <1>5 DEF Mark
    <2>2. CASE MarkFails(r)
      BY <2>2, <1>5 DEF MarkFails
    <2>3. CASE Break(r)
      BY <2>3, <1>5 DEF Break
    <2>4. QED
      BY <1>6, <2>1, <2>2, <2>3
  <1>7. ASSUME NEW r \in Requests, Again(r) PROVE CodeInv'
    <2>1. Idle \in Request /\ Idle.at # "insert" /\ Idle.snap = {}
      BY DEF Idle, Request, Point
    <2>2. req' = [req EXCEPT ![r] = Idle] /\ UNCHANGED <<table, nextId, info, replaced>>
      BY <1>7 DEF Again
    <2>3. QED
      BY <2>1, <2>2, Ends
  <1>8. CASE Expire \/ UNCHANGED vars
    <2>1. UNCHANGED <<table, nextId, info, replaced, req>>
      BY <1>8 DEF Expire, vars
    <2>2. QED
      BY <2>1 DEF CodeInv, Known, Private, Pending, ReplacedGone, Born
  <1>9. QED
    BY <1>1, <1>2, <1>3, <1>4, <1>6, <1>7, <1>8 DEF Next, Serve

\* ReplacedGone for all users, requests, codes and numbers of rows: a code that
\* the creation of a newer one has deleted never stands beside it again,
\* however creations and uses overlap and wherever requests break off.
THEOREM ReplacedStaysGone == Spec => []ReplacedGone
  <1>1. CodeInv => ReplacedGone
    BY DEF CodeInv
  <1>2. QED
    BY CodeInit, CodeStep, <1>1, PTL DEF Spec

-----------------------------------------------------------------------------
(* Who a code changes.                                                     *)

\* A request about to change a user has read a row of that user, inserted by
\* then; rows of numbers given out never change.
OwnRow(r) ==
    req[r].at = "mark" => req[r].row \in Born /\ info[req[r].row].user = req[r].user
UserInv == TypeOK /\ \A r \in Requests : OwnRow(r)

LEMMA UserInit == Init => UserInv
  <1>1. 1 \in 1..(MaxRows + 1)
    BY RowsAssumption
  <1>2. QED
    BY <1>1 DEF Init, Idle, Request, Point, UserInv, OwnRow, TypeOK

LEMMA UserStep == CodeInv /\ UserInv /\ [Next]_vars => UserInv'
  <1> SUFFICES ASSUME CodeInv, UserInv, [Next]_vars PROVE UserInv'
    OBVIOUS
  <1>t. /\ kind \in Kinds /\ table \subseteq Ids /\ expired \subseteq Ids /\ used \subseteq Ids
        /\ info \in [Ids -> [user : Users \cup {None}, code : Codes \cup {None}]]
        /\ value \in [Users -> Values \cup {None}]
        /\ nextId \in 1..(MaxRows + 1) /\ req \in [Requests -> Request]
        /\ replaced \in [Ids -> SUBSET Ids] /\ faults \in Nat
    BY DEF UserInv, TypeOK
  <1>b. Born \subseteq Ids /\ table \subseteq Born
    BY DEF Born, CodeInv, Known
  \* A step of a request that changes neither rows nor users.
  <1>s. ASSUME NEW r \in Requests, NEW q \in Request, req' = [req EXCEPT ![r] = q],
               q.at = "mark" => q.row \in Born /\ info[q.row].user = q.user,
               UNCHANGED <<kind, table, info, expired, used, value, nextId, replaced>>,
               faults' \in Nat
        PROVE  UserInv'
    <2>1. /\ req' \in [Requests -> Request] /\ req'[r] = q
          /\ \A s \in Requests : s # r => req'[s] = req[s]
      BY <1>t, <1>s
    <2>2. TypeOK'
      BY <1>s, <2>1 DEF TypeOK, UserInv
    <2>3. Born' = Born
      BY <1>s DEF Born
    <2>4. QED
      BY <1>s, <2>1, <2>2, <2>3 DEF UserInv, OwnRow
  <1>1. ASSUME NEW r \in Requests, Create(r) PROVE UserInv'
    <2> DEFINE q(u) == [Idle EXCEPT !.at = "delete", !.user = u,
                          !.snap = {i \in table : info[i].user = u}]
    <2>1. PICK u \in Users : req' = [req EXCEPT ![r] = q(u)]
      BY <1>1 DEF Create
    <2>2. q(u) \in Request /\ q(u).at # "mark"
      BY <1>t DEF Idle, Request, Point
    <2>3. /\ UNCHANGED <<kind, table, info, expired, used, value, nextId, replaced>>
          /\ faults' \in Nat
      BY <1>1, <1>t DEF Create
    <2> HIDE DEF q
    <2>4. QED
      BY <1>s, <2>1, <2>2, <2>3
  <1>2. ASSUME NEW r \in Requests, Insert(r) PROVE UserInv'
    <2> DEFINE q == [req[r] EXCEPT !.at = "insert", !.row = nextId]
    <2>1. /\ nextId \in Ids /\ nextId' = nextId + 1
          /\ UNCHANGED <<kind, table, expired, used, value, replaced, faults>>
      BY <1>2 DEF Insert
    <2>2. req' = [req EXCEPT ![r] = q]
      BY <1>2, <1>t DEF Insert
    <2>3. q \in Request /\ q.at = "insert"
      BY <1>t, <2>1 DEF Request, Point
    <2>4. /\ req' \in [Requests -> Request] /\ req'[r] = q
          /\ \A s \in Requests : s # r => req'[s] = req[s]
      BY <1>t, <2>2, <2>3
    <2>5. PICK c \in Codes :
            info' = [info EXCEPT ![nextId] = [user |-> req[r].user, code |-> c]]
      BY <1>2 DEF Insert
    <2>6. req[r].user \in Users \cup {None}
      BY <1>t DEF Request
    <2>7. /\ info' \in [Ids -> [user : Users \cup {None}, code : Codes \cup {None}]]
          /\ \A i \in Ids : i # nextId => info'[i] = info[i]
      BY <1>t, <2>1, <2>5, <2>6
    <2>8. nextId' \in 1..(MaxRows + 1)
      BY <2>1, RowsAssumption DEF Ids
    <2>9. TypeOK'
      BY <2>1, <2>4, <2>7, <2>8 DEF TypeOK, UserInv
    <2>10. Born \subseteq Born' /\ nextId \notin Born
      BY <2>1 DEF Born, Ids
    <2>11. ASSUME NEW s \in Requests PROVE OwnRow(s)'
      <3>1. CASE s = r
        BY <2>3, <2>4, <3>1 DEF OwnRow
      <3>2. CASE s # r
        <4>1. OwnRow(s)
          BY DEF UserInv
        <4>2. QED
          BY <1>b, <2>4, <2>7, <2>10, <3>2, <4>1 DEF OwnRow
      <3>3. QED
        BY <3>1, <3>2
    <2>12. QED
      BY <2>9, <2>11 DEF UserInv
  <1>3. ASSUME NEW r \in Requests, CommitCreate(r) PROVE UserInv'
    <2> DEFINE q == [req[r] EXCEPT !.at = "done"]
    <2>1. /\ req[r].row \in Ids /\ req[r].snap \subseteq Ids
      <3>1. req[r].row \in Born
        BY <1>3 DEF CommitCreate, CodeInv, Private, Pending
      <3>2. QED
        BY <1>t, <1>b, <3>1 DEF Request
    <2>2. /\ table' = (table \ req[r].snap) \cup {req[r].row}
          /\ replaced' = [replaced EXCEPT ![req[r].row] = req[r].snap]
          /\ req' = [req EXCEPT ![r] = q]
          /\ UNCHANGED <<kind, info, expired, used, value, nextId, faults>>
      BY <1>3, <1>t DEF CommitCreate
    <2>3. q \in Request /\ q.at = "done"
      BY <1>t DEF Request, Point
    <2>4. /\ req' \in [Requests -> Request] /\ req'[r] = q
          /\ \A s \in Requests : s # r => req'[s] = req[s]
      BY <1>t, <2>2, <2>3
    <2>5. replaced' \in [Ids -> SUBSET Ids] /\ table' \subseteq Ids /\ Born' = Born
      BY <1>t, <2>1, <2>2 DEF Born
    <2>6. TypeOK'
      BY <2>2, <2>4, <2>5 DEF TypeOK, UserInv
    <2>7. QED
      BY <2>2, <2>3, <2>4, <2>5, <2>6 DEF UserInv, OwnRow
  <1>4. ASSUME NEW r \in Requests, Read(r) PROVE UserInv'
    <2> DEFINE q(a) == [Idle EXCEPT !.at = a]
               f(i, v) == [Idle EXCEPT !.at = "mark", !.user = info[i].user,
                                       !.row = i, !.value = v]
    <2>0. /\ UNCHANGED <<kind, table, info, expired, used, value, nextId, replaced>>
          /\ faults' \in Nat
      BY <1>4, <1>t DEF Read
    <2>1. CASE \E a \in {"failed", "invalid"} : req' = [req EXCEPT ![r] = q(a)]
      <3>1. PICK a \in {"failed", "invalid"} : req' = [req EXCEPT ![r] = q(a)]
        BY <2>1
      <3>2. q(a) \in Request /\ q(a).at # "mark"
        BY DEF Idle, Request, Point
      <3> HIDE DEF q
      <3>3. QED
        BY <1>s, <2>0, <3>1, <3>2
    <2>2. CASE \E i \in table, v \in Values : req' = [req EXCEPT ![r] = f(i, v)]
      <3>1. PICK i \in table, v \in Values : req' = [req EXCEPT ![r] = f(i, v)]
        BY <2>2
      <3>2. i \in Born /\ i \in Ids /\ info[i].user \in Users \cup {None}
        BY <1>t, <1>b
      <3>3. /\ f(i, v) \in Request /\ f(i, v).row = i
            /\ f(i, v).user = info[i].user
        BY <3>2 DEF Idle, Request, Point
      <3> HIDE DEF f
      <3>4. QED
        BY <1>s, <2>0, <3>1, <3>2, <3>3
    <2>3. QED
      BY <1>4, <2>1, <2>2 DEF Read, Matches
  <1>5. ASSUME NEW r \in Requests, Mark(r) PROVE UserInv'
    <2> DEFINE q == [req[r] EXCEPT !.at = "done"]
               u == req[r].user
               v == req[r].value
    <2>1. /\ req[r].row \in table /\ ~Taken(r)
          /\ value' = [value EXCEPT ![u] = v] /\ used' = used \cup {req[r].row}
          /\ req' = [req EXCEPT ![r] = q]
          /\ UNCHANGED <<kind, table, info, expired, nextId, replaced, faults>>
      BY <1>5, <1>t DEF Mark
    <2>2. q \in Request /\ q.at = "done" /\ v \in Values \cup {None}
      BY <1>t DEF Request, Point
    <2>3. /\ req' \in [Requests -> Request] /\ req'[r] = q
          /\ \A s \in Requests : s # r => req'[s] = req[s]
      BY <1>t, <2>1, <2>2
    <2>4. /\ value' \in [Users -> Values \cup {None}] /\ used' \subseteq Ids
          /\ Born' = Born
      BY <1>t, <2>1, <2>2 DEF Born
    <2>5. kind = "link" => \A x, w \in Users :
                             value'[x] = value'[w] => x = w \/ value'[x] = None
      <3> SUFFICES ASSUME kind = "link", NEW x \in Users, NEW w \in Users,
                          value'[x] = value'[w], x # w
                   PROVE  value'[x] = None
        OBVIOUS
      <3>1. \A y \in Users \ {u} : value[y] # v /\ value'[y] = value[y]
        BY <1>t, <2>1 DEF Taken
      <3>2. CASE x # u /\ w # u
        BY <3>1, <3>2 DEF UserInv, TypeOK
      <3>3. CASE x = u
        BY <1>t, <2>1, <3>1, <3>3
      <3>4. CASE w = u
        BY <1>t, <2>1, <3>1, <3>4
      <3>5. QED
        BY <3>2, <3>3, <3>4
    <2>6. TypeOK'
      BY <1>t, <2>1, <2>3, <2>4, <2>5 DEF TypeOK
    <2>7. QED
      BY <2>1, <2>2, <2>3, <2>4, <2>6 DEF UserInv, OwnRow
  <1>6. ASSUME NEW r \in Requests, MarkFails(r) \/ Break(r) PROVE UserInv'
    <2> DEFINE q == [req[r] EXCEPT !.at = "failed"]
    <2>1. q \in Request /\ q.at # "mark"
      BY <1>t DEF Request, Point
    <2>2. /\ req' = [req EXCEPT ![r] = q] /\ faults' \in Nat
          /\ UNCHANGED <<kind, table, info, expired, used, value, nextId, replaced>>
      BY <1>6, <1>t DEF MarkFails, Break
    <2> HIDE DEF q
    <2>3. QED
      BY <1>s, <2>1, <2>2
  <1>7. ASSUME NEW r \in Requests, Again(r) PROVE UserInv'
    <2>1. Idle \in Request /\ Idle.at # "mark"
      BY DEF Idle, Request, Point
    <2>2. /\ req' = [req EXCEPT ![r] = Idle] /\ faults' \in Nat
          /\ UNCHANGED <<kind, table, info, expired, used, value, nextId, replaced>>
      BY <1>7, <1>t DEF Again
    <2>3. QED
      BY <1>s, <2>1, <2>2
  <1>8. CASE Expire \/ UNCHANGED vars
    <2>1. /\ UNCHANGED <<kind, table, info, used, value, nextId, req, replaced, faults>>
          /\ expired' \subseteq Ids
      BY <1>8, <1>t DEF Expire, vars
    <2>2. TypeOK' /\ Born' = Born
      BY <2>1 DEF UserInv, TypeOK, Born
    <2>3. QED
      BY <2>1, <2>2 DEF UserInv, OwnRow
  <1>9. QED
    BY <1>1, <1>2, <1>3, <1>4, <1>5, <1>6, <1>7, <1>8 DEF Next, Serve

\* Type correctness: no Telegram account is ever linked to two users, however
\* many of them send codes at once.
THEOREM CodeTypes == Spec => []TypeOK
  <1>1. UserInv => TypeOK
    BY DEF UserInv
  <1>2. QED
    BY CodeInit, CodeStep, UserInit, UserStep, <1>1, PTL DEF Spec

\* One step changes a user only by a row of that user that still stands.
LEMMA ChangeByRow ==
    ASSUME CodeInv, UserInv, [Next]_vars, NEW u \in Users, value'[u] # value[u]
    PROVE  \E r \in Requests :
             /\ req[r].at = "mark" /\ req'[r].at = "done"
             /\ value'[u] = req[r].value
             /\ req[r].row \in table /\ info[req[r].row].user = u
  <1>1. PICK r \in Requests : Mark(r)
    BY DEF Next, Serve, vars, Create, Insert, CommitCreate, Read, MarkFails,
           Break, Again, Expire
  <1>2. /\ req \in [Requests -> Request] /\ value \in [Users -> Values \cup {None}]
        /\ OwnRow(r)
    BY DEF UserInv, TypeOK
  <1>3. /\ req[r].at = "mark" /\ req[r].row \in table
        /\ value' = [value EXCEPT ![req[r].user] = req[r].value]
        /\ req' = [req EXCEPT ![r].at = "done"]
    BY <1>1 DEF Mark
  <1>4. u = req[r].user
    BY <1>2, <1>3
  <1>5. req'[r].at = "done" /\ value'[u] = req[r].value
    BY <1>2, <1>3, <1>4 DEF Request
  <1>6. QED
    BY <1>2, <1>3, <1>4, <1>5 DEF OwnRow

\* For any users, codes and requests: a password or a Telegram account changes
\* only by a code of its own user that still stands at the commit.
THEOREM StandingCodeOnly == Spec => OnlyByStandingCode
  <1>1. CodeInv /\ UserInv /\ [Next]_vars
        => [\A u \in Users : value'[u] # value[u] =>
              \E r \in Requests :
                 /\ req[r].at = "mark" /\ req'[r].at = "done"
                 /\ value'[u] = req[r].value
                 /\ req[r].row \in table /\ info[req[r].row].user = u]_vars
    BY ChangeByRow
  <1>2. QED
    BY CodeInit, CodeStep, UserInit, UserStep, <1>1, PTL DEF Spec, OnlyByStandingCode
=============================================================================
