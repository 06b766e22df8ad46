-------------------------- MODULE AccountLimitsProofs --------------------------
(* OvershootBounded, TypeOK and NotOnDeletedKey for any limits, roles and   *)
(* number of creations.                                                     *)
EXTENDS AccountLimits, FiniteSetTheorems, TLAPS

\* Creations that have counted and not committed, under a role with at most
\* the limit of role x.
Passed(k, x) ==
    {r \in Requests : /\ req[r].at \in {"key", "insert"} /\ req[r].kind = k
                      /\ Limit[k][req[r].role] =< Limit[k][x]}

\* Rows that count and rows on their way, together, for one role's limit.
Bound(k, x) ==
    Cardinality(Within(k, x)) + Cardinality(Passed(k, x)) =< Limit[k][x] + crowd[k] - 1

LimitInv ==
    /\ live \in [Kind -> SUBSET Ids] /\ next \in [Kind -> Nat]
    /\ role \in Roles /\ req \in [Requests -> Request] /\ gone \subseteq Ids
    /\ by \in [Kind -> [Ids -> Roles \cup {None}]] /\ crowd \in [Kind -> Nat \ {0}]
    /\ \A k \in Kind : Cardinality(OpenOf(k)) =< crowd[k]
    /\ \A k \in Kind, x \in Roles : Bound(k, x)

\* A set of rows or of requests is finite.
LEMMA FiniteSubset ==
    ASSUME NEW S, S \subseteq Ids \/ S \subseteq Requests
    PROVE  IsFiniteSet(S) /\ Cardinality(S) \in Nat
  <1>1. IsFiniteSet(Ids)
    BY RowsAssumption, FS_Interval DEF Ids
  <1>2. QED
    BY <1>1, RequestsAssumption, FS_Subset, FS_CardinalityType

LEMMA Finite ==
    ASSUME LimitInv, NEW k \in Kind, NEW x \in Roles
    PROVE  /\ IsFiniteSet(Within(k, x)) /\ Cardinality(Within(k, x)) \in Nat
           /\ IsFiniteSet(Passed(k, x)) /\ Cardinality(Passed(k, x)) \in Nat
           /\ crowd[k] \in Nat /\ crowd[k] >= 1 /\ Limit[k][x] \in Nat
  <1>1. Within(k, x) \subseteq Ids /\ Passed(k, x) \subseteq Requests
    BY DEF LimitInv, Within, Passed
  <1>2. /\ IsFiniteSet(Within(k, x)) /\ Cardinality(Within(k, x)) \in Nat
        /\ IsFiniteSet(Passed(k, x)) /\ Cardinality(Passed(k, x)) \in Nat
    BY <1>1, FiniteSubset
  <1>3. crowd[k] \in Nat /\ crowd[k] >= 1
    BY DEF LimitInv
  <1>4. QED
    BY <1>2, <1>3, LimitAssumption

\* Fewer rows, fewer on their way, or more at once: the bound stays.
LEMMA Shrinks ==
    ASSUME LimitInv, NEW k \in Kind, NEW x \in Roles, NEW A, NEW P, NEW n \in Nat,
           A \subseteq Within(k, x), P \subseteq Passed(k, x), crowd[k] =< n
    PROVE  Cardinality(A) + Cardinality(P) =< Limit[k][x] + n - 1
  <1>1. Bound(k, x)
    BY DEF LimitInv
  <1>2. Cardinality(A) =< Cardinality(Within(k, x)) /\ Cardinality(A) \in Nat
    BY Finite, FS_Subset, FS_CardinalityType
  <1>3. Cardinality(P) =< Cardinality(Passed(k, x)) /\ Cardinality(P) \in Nat
    BY Finite, FS_Subset, FS_CardinalityType
  <1>4. QED
    BY <1>1, <1>2, <1>3, Finite DEF Bound

\* A row for a creation: the bound stays.
LEMMA Commits ==
    ASSUME LimitInv, NEW k \in Kind, NEW x \in Roles, NEW r \in Passed(k, x),
           NEW i, NEW A, NEW P,
           A \subseteq Within(k, x) \cup {i}, P \subseteq Passed(k, x) \ {r}
    PROVE  Cardinality(A) + Cardinality(P) =< Limit[k][x] + crowd[k] - 1
  <1>1. Bound(k, x)
    BY DEF LimitInv
  <1>2. /\ IsFiniteSet(Within(k, x) \cup {i})
        /\ Cardinality(Within(k, x) \cup {i}) =< Cardinality(Within(k, x)) + 1
    <2>1. IsFiniteSet(Within(k, x)) /\ Cardinality(Within(k, x)) \in Nat
      BY Finite
    <2>2. /\ IsFiniteSet(Within(k, x) \cup {i})
          /\ \/ Cardinality(Within(k, x) \cup {i}) = Cardinality(Within(k, x))
             \/ Cardinality(Within(k, x) \cup {i}) = Cardinality(Within(k, x)) + 1
      BY <2>1, FS_AddElement
    <2>3. QED
      BY <2>1, <2>2
  <1>3. /\ IsFiniteSet(A) /\ Cardinality(A) =< Cardinality(Within(k, x) \cup {i})
        /\ Cardinality(A) \in Nat /\ Cardinality(Within(k, x) \cup {i}) \in Nat
    BY <1>2, FS_Subset, FS_CardinalityType
  <1>4. /\ IsFiniteSet(Passed(k, x) \ {r})
        /\ Cardinality(Passed(k, x) \ {r}) = Cardinality(Passed(k, x)) - 1
    BY Finite, FS_RemoveElement
  <1>5. IsFiniteSet(P) /\ Cardinality(P) =< Cardinality(Passed(k, x)) - 1
        /\ Cardinality(P) \in Nat
    BY <1>4, FS_Subset, FS_CardinalityType
  <1>6. QED
    BY <1>1, <1>2, <1>3, <1>5, Finite DEF Bound

LEMMA LimitInit == Init => LimitInv
  <1> SUFFICES ASSUME Init PROVE LimitInv
    OBVIOUS
  <1>1. /\ live \in [Kind -> SUBSET Ids] /\ next \in [Kind -> Nat]
        /\ role \in Roles /\ req \in [Requests -> Request] /\ gone \subseteq Ids
        /\ by \in [Kind -> [Ids -> Roles \cup {None}]] /\ crowd \in [Kind -> Nat \ {0}]
    BY DEF Init, Idle, Request, Point, Kind
  <1>2. ASSUME NEW k \in Kind PROVE crowd[k] = 1 /\ Cardinality(OpenOf(k)) = 0
    <2>1. OpenOf(k) = {} /\ crowd[k] = 1
      BY DEF Init, Idle, OpenOf, Open
    <2>2. QED
      BY <2>1, FS_EmptySet
  <1>3. ASSUME NEW k \in Kind, NEW x \in Roles PROVE Bound(k, x)
    <2>1. Within(k, x) = {} /\ Passed(k, x) = {}
      BY DEF Init, Idle, Passed, Within
    <2>2. Limit[k][x] \in Nat
      BY LimitAssumption
    <2>3. Cardinality(Within(k, x)) = 0 /\ Cardinality(Passed(k, x)) = 0
      BY <2>1, FS_EmptySet
    <2>4. QED
      BY <1>2, <2>2, <2>3 DEF Bound
  <1>4. QED
    BY <1>1, <1>2, <1>3 DEF LimitInv

LEMMA LimitStep == LimitInv /\ [Next]_vars => LimitInv'
  <1> SUFFICES ASSUME LimitInv, [Next]_vars PROVE LimitInv'
    OBVIOUS
  <1>t. /\ live \in [Kind -> SUBSET Ids] /\ next \in [Kind -> Nat]
        /\ role \in Roles /\ req \in [Requests -> Request] /\ gone \subseteq Ids
        /\ by \in [Kind -> [Ids -> Roles \cup {None}]] /\ crowd \in [Kind -> Nat \ {0}]
        /\ \A k \in Kind : Cardinality(OpenOf(k)) =< crowd[k]
    BY DEF LimitInv
  <1>i. Idle \in Request /\ Idle.at = "idle"
    BY <1>t DEF Idle, Request, Point, Kind
  \* The creations under way are fewer.
  <1>o. ASSUME NEW k \in Kind, OpenOf(k)' \subseteq OpenOf(k)
        PROVE  Cardinality(OpenOf(k)') =< crowd[k]
    <2>1. /\ OpenOf(k) \subseteq Requests /\ crowd[k] \in Nat
          /\ Cardinality(OpenOf(k)) =< crowd[k]
      BY <1>t DEF OpenOf
    <2>2. /\ Cardinality(OpenOf(k)') =< Cardinality(OpenOf(k))
          /\ Cardinality(OpenOf(k)') \in Nat /\ Cardinality(OpenOf(k)) \in Nat
      BY <1>o, <2>1, FiniteSubset, FS_Subset, FS_CardinalityType
    <2>3. QED
      BY <2>1, <2>2
  \* A step that changes one request, adds nothing and lets nobody pass.
  <1>s. ASSUME NEW r \in Requests, NEW q \in Request, req' = [req EXCEPT ![r] = q],
               q.at \in {"key", "insert"}
                 => /\ req[r].at \in {"key", "insert"} /\ q.kind = req[r].kind
                    /\ q.role = req[r].role,
               q.at # "idle" => req[r].at # "idle" /\ q.kind = req[r].kind,
               UNCHANGED <<live, gone, next, role, hist>>
        PROVE  LimitInv'
    <2>1. req' \in [Requests -> Request] /\ by' = by /\ crowd' = crowd
      BY <1>t, <1>s DEF hist
    <2>2. ASSUME NEW k \in Kind PROVE OpenOf(k)' \subseteq OpenOf(k)
      BY <1>t, <1>s DEF OpenOf, Open
    <2>3. ASSUME NEW k \in Kind, NEW x \in Roles PROVE Bound(k, x)'
      <3>1. Passed(k, x)' \subseteq Passed(k, x)
        BY <1>t, <1>s DEF Passed
      <3>2. Within(k, x)' \subseteq Within(k, x)
        BY <1>s, <2>1 DEF Within
      <3>3. QED
        BY <2>1, <3>1, <3>2, Finite, Shrinks DEF Bound
    <2>4. QED
      BY <1>t, <1>o, <1>s, <2>1, <2>2, <2>3 DEF LimitInv
  \* A step that leaves the requests alone and adds no row.
  <1>u. ASSUME req' = req, live' \in [Kind -> SUBSET Ids],
               by' \in [Kind -> [Ids -> Roles \cup {None}]],
               \A k \in Kind : /\ live'[k] \subseteq live[k]
                               /\ \A i \in live'[k] : by'[k][i] = by[k][i],
               next' = next, role' \in Roles, gone' \subseteq Ids, crowd' = crowd
        PROVE  LimitInv'
    <2>1. ASSUME NEW k \in Kind PROVE OpenOf(k)' \subseteq OpenOf(k)
      BY <1>u DEF OpenOf, Open
    <2>2. ASSUME NEW k \in Kind, NEW x \in Roles PROVE Bound(k, x)'
      <3>1. Passed(k, x)' \subseteq Passed(k, x)
        BY <1>u DEF Passed
      <3>2. Within(k, x)' \subseteq Within(k, x)
        BY <1>u DEF Within
      <3>3. QED
        BY <1>u, <3>1, <3>2, Finite, Shrinks DEF Bound
    <2>3. QED
      BY <1>t, <1>o, <1>u, <2>1, <2>2 DEF LimitInv
  <1>1. ASSUME NEW r \in Requests, Begin(r) PROVE LimitInv'
    <2>1. PICK k \in Kind, l \in Labels, i \in Ids :
            /\ req' = [req EXCEPT ![r] =
                 [at |-> "count", kind |-> k, role |-> role,
                  label |-> IF k = "key" THEN l ELSE None,
                  key |-> IF k = "bot" THEN i ELSE 0,
                  dead |-> IF k = "bot" THEN gone ELSE {}]]
            /\ LET n == Cardinality(OpenOf(k)) + 1
               IN crowd' = [crowd EXCEPT ![k] = IF n > @ THEN n ELSE @]
      BY <1>1 DEF Begin
    <2> DEFINE q == [at |-> "count", kind |-> k, role |-> role,
                     label |-> IF k = "key" THEN l ELSE None,
                     key |-> IF k = "bot" THEN i ELSE 0,
                     dead |-> IF k = "bot" THEN gone ELSE {}]
               n == Cardinality(OpenOf(k)) + 1
               m == IF n > crowd[k] THEN n ELSE crowd[k]
    <2>2. q \in Request /\ q.at = "count" /\ q.kind = k
      BY <1>t DEF Request, Point
    <2>3. /\ req' = [req EXCEPT ![r] = q] /\ UNCHANGED <<live, gone, next, role, by>>
          /\ crowd' = [crowd EXCEPT ![k] = m]
      BY <1>1, <2>1 DEF Begin
    <2> HIDE DEF q
    <2>4. /\ req' \in [Requests -> Request] /\ req'[r] = q
          /\ \A s \in Requests \ {r} : req'[s] = req[s]
      BY <1>t, <2>2, <2>3
    <2>5. OpenOf(k) \subseteq Requests /\ IsFiniteSet(OpenOf(k)) /\ n \in Nat
      <3>1. OpenOf(k) \subseteq Requests
        BY DEF OpenOf
      <3>2. QED
        BY <3>1, FiniteSubset
    <2>6. m \in Nat /\ m >= n /\ m >= crowd[k] /\ m >= 1 /\ crowd[k] \in Nat
      BY <1>t, <2>5
    <2> HIDE DEF m
    <2>7. /\ crowd' \in [Kind -> Nat \ {0}] /\ crowd'[k] = m
          /\ \A c \in Kind \ {k} : crowd'[c] = crowd[c]
      BY <1>t, <2>3, <2>6
    <2>8. ASSUME NEW c \in Kind PROVE Cardinality(OpenOf(c)') =< crowd'[c]
      <3>1. CASE c = k
        <4>1. OpenOf(k)' \subseteq OpenOf(k) \cup {r}
          BY <2>4 DEF OpenOf, Open
        <4>2. /\ IsFiniteSet(OpenOf(k) \cup {r})
              /\ \/ Cardinality(OpenOf(k) \cup {r}) = Cardinality(OpenOf(k))
                 \/ Cardinality(OpenOf(k) \cup {r}) = Cardinality(OpenOf(k)) + 1
          BY <2>5, FS_AddElement
        <4>3. /\ Cardinality(OpenOf(k)') =< Cardinality(OpenOf(k) \cup {r})
              /\ Cardinality(OpenOf(k)') \in Nat
          BY <4>1, <4>2, FS_Subset, FS_CardinalityType
        <4>4. Cardinality(OpenOf(k)) \in Nat
          BY <2>5, FS_CardinalityType
        <4>5. Cardinality(OpenOf(k)') =< n
          BY <4>2, <4>3, <4>4
        <4>6. QED
          BY <2>5, <2>6, <2>7, <3>1, <4>3, <4>5
      <3>2. CASE c # k
        <4>1. OpenOf(c)' \subseteq OpenOf(c)
          BY <2>2, <2>4, <3>2 DEF OpenOf, Open
        <4>2. QED
          BY <1>o, <2>7, <3>2, <4>1
      <3>3. QED
        BY <3>1, <3>2
    <2>9. ASSUME NEW c \in Kind, NEW x \in Roles PROVE Bound(c, x)'
      <3>1. Passed(c, x)' \subseteq Passed(c, x)
        BY <2>2, <2>4 DEF Passed
      <3>2. Within(c, x)' \subseteq Within(c, x)
        BY <2>3 DEF Within
      <3>3. crowd[c] =< crowd'[c] /\ crowd'[c] \in Nat
        BY <1>t, <2>6, <2>7
      <3>4. QED
        BY <3>1, <3>2, <3>3, Shrinks DEF Bound
    <2>10. QED
      BY <1>t, <2>3, <2>4, <2>7, <2>8, <2>9 DEF LimitInv
  <1>2. ASSUME NEW r \in Requests, Count(r) PROVE LimitInv'
    <2>1. PICK c \in Kind, y \in Roles : c = req[r].kind /\ y = req[r].role
      BY <1>t DEF Request
    <2>a. /\ req[r].at = "count" /\ UNCHANGED <<live, gone, next, role, by, crowd>>
      BY <1>2 DEF Count, hist
    <2>b. PICK a \in Point : req' = [req EXCEPT ![r].at = a]
      BY <1>2 DEF Count, Moves, Point
    <2>2. /\ req' \in [Requests -> Request]
          /\ \A o \in Requests \ {r} : req'[o] = req[o]
          /\ req'[r].kind = c /\ req'[r].role = y
      BY <1>t, <2>1, <2>b DEF Request
    <2>3. ASSUME NEW k \in Kind
          PROVE  OpenOf(k)' \subseteq OpenOf(k) /\ Cardinality(OpenOf(k)') =< crowd[k]
      <3>1. OpenOf(k)' \subseteq OpenOf(k)
        BY <2>1, <2>2, <2>a DEF OpenOf, Open
      <3>2. QED
        BY <1>o, <3>1
    <2>4. ASSUME NEW k \in Kind, NEW x \in Roles, Passed(k, x)' \subseteq Passed(k, x)
          PROVE  Bound(k, x)'
      <3>1. Within(k, x)' \subseteq Within(k, x)
        BY <2>a DEF Within
      <3>2. QED
        BY <2>a, <2>4, <3>1, Finite, Shrinks DEF Bound
    \* All that have passed are under way, and fewer rows than the limit count.
    <2>5. ASSUME NEW x \in Roles, Limit[c][y] =< Limit[c][x] PROVE Bound(c, x)'
      <3>1. Passed(c, x)' \subseteq OpenOf(c)' /\ OpenOf(c)' \subseteq Requests
        BY DEF Passed, OpenOf, Open
      <3>2. /\ Cardinality(Passed(c, x)') \in Nat
            /\ Cardinality(Passed(c, x)') =< Cardinality(OpenOf(c)')
            /\ Cardinality(OpenOf(c)') \in Nat
        BY <3>1, FiniteSubset, FS_Subset, FS_CardinalityType
      <3>3. Cardinality(live[c]) < Limit[c][y]
        BY <1>2, <2>1 DEF Count
      <3>4. /\ Cardinality(Within(c, x)) =< Cardinality(live[c])
            /\ Cardinality(Within(c, x)) \in Nat /\ Cardinality(live[c]) \in Nat
        <4>1. Within(c, x) \subseteq live[c] /\ live[c] \subseteq Ids
          BY <1>t DEF Within
        <4>2. QED
          BY <4>1, FiniteSubset, FS_Subset, FS_CardinalityType
      <3>5. Limit[c][x] \in Nat /\ Limit[c][y] \in Nat /\ crowd[c] \in Nat
        BY LimitAssumption, Finite
      <3>6. Cardinality(OpenOf(c)') =< crowd[c]
        BY <2>3
      <3>7. Cardinality(Within(c, x)) + Cardinality(Passed(c, x)')
              =< Limit[c][x] + crowd[c] - 1
        BY <2>5, <3>2, <3>3, <3>4, <3>5, <3>6
      <3>8. Within(c, x)' = Within(c, x)
        BY <2>a DEF Within
      <3>9. QED
        BY <2>a, <3>7, <3>8 DEF Bound
    <2>6. ASSUME NEW k \in Kind, NEW x \in Roles PROVE Bound(k, x)'
      <3>1. CASE k = c /\ Limit[c][y] =< Limit[c][x]
        BY <2>5, <3>1
      <3>2. CASE ~(k = c /\ Limit[c][y] =< Limit[c][x])
        <4>1. r \notin Passed(k, x)'
          BY <2>2, <3>2 DEF Passed
        <4>2. Passed(k, x)' \subseteq Passed(k, x)
          BY <2>2, <4>1 DEF Passed
        <4>3. QED
          BY <2>4, <4>2
      <3>3. QED
        BY <3>1, <3>2
    <2>7. QED
      BY <1>t, <2>2, <2>a, <2>3, <2>6 DEF LimitInv
  <1>3. ASSUME NEW r \in Requests, Full(r) \/ KeyFails(r) \/ Break(r) PROVE LimitInv'
    BY <1>3, <1>i, <1>s DEF Full, KeyFails, Break, Ends
  <1>4. ASSUME NEW r \in Requests, FindKey(r) PROVE LimitInv'
    <2>1. CASE KeyFound(r)
      <3> DEFINE q == [req[r] EXCEPT !.at = "insert"]
      <3>1. /\ q \in Request /\ req[r].at = "key" /\ q.kind = req[r].kind
            /\ q.role = req[r].role /\ UNCHANGED <<live, gone, next, role, hist>>
        BY <1>4, <1>t DEF FindKey, Request, Point
      <3>2. req' = [req EXCEPT ![r] = q]
        BY <1>4, <2>1 DEF FindKey, Moves
      <3> HIDE DEF q
      <3>3. QED
        BY <1>s, <3>1, <3>2
    <2>2. CASE ~KeyFound(r)
      BY <1>4, <1>i, <1>s, <2>2 DEF FindKey, Ends
    <2>3. QED
      BY <2>1, <2>2
  <1>5. ASSUME NEW r \in Requests, CommitKey(r) \/ CommitBot(r) PROVE LimitInv'
    <2>0. PICK c \in Kind, y \in Roles : c = req[r].kind /\ y = req[r].role
      BY <1>t DEF Request
    <2> DEFINE n == next[c]
    <2>1. /\ req[r].at = "insert" /\ n \in Ids
          /\ live' = [live EXCEPT ![c] = @ \cup {n}]
          /\ next' = [next EXCEPT ![c] = @ + 1]
          /\ by' = [by EXCEPT ![c][n] = y]
          /\ req' = [req EXCEPT ![r] = Idle] /\ UNCHANGED <<gone, role, crowd>>
      BY <1>5, <2>0 DEF CommitKey, CommitBot, Ends
    <2>2. /\ live' \in [Kind -> SUBSET Ids] /\ next' \in [Kind -> Nat]
          /\ by' \in [Kind -> [Ids -> Roles \cup {None}]]
          /\ req' \in [Requests -> Request]
      BY <1>t, <1>i, <2>1
    <2>3. ASSUME NEW k \in Kind, NEW x \in Roles
          PROVE  Passed(k, x)' \subseteq Passed(k, x) \ {r}
      BY <1>t, <1>i, <2>1 DEF Passed
    <2>4. ASSUME NEW k \in Kind PROVE OpenOf(k)' \subseteq OpenOf(k)
      BY <1>t, <1>i, <2>1 DEF OpenOf, Open
    <2>5. /\ by'[c][n] = y
          /\ \A k \in Kind, i \in Ids : k # c \/ i # n => by'[k][i] = by[k][i]
          /\ live'[c] = live[c] \cup {n} /\ \A k \in Kind : k # c => live'[k] = live[k]
      BY <1>t, <2>1
    <2>6. ASSUME NEW k \in Kind, NEW x \in Roles PROVE Bound(k, x)'
      <3>1. CASE k = c /\ Limit[c][y] =< Limit[c][x]
        <4>1. r \in Passed(k, x)
          BY <2>0, <2>1, <3>1 DEF Passed
        <4>2. Within(k, x)' \subseteq Within(k, x) \cup {n}
          BY <1>t, <2>5, <3>1 DEF Within
        <4>3. QED
          BY <2>1, <2>3, <4>1, <4>2, Commits DEF Bound
      <3>2. CASE ~(k = c /\ Limit[c][y] =< Limit[c][x])
        <4>1. Within(k, x)' \subseteq Within(k, x)
          BY <1>t, <2>5, <3>2 DEF Within
        <4>2. Passed(k, x)' \subseteq Passed(k, x)
          BY <2>3
        <4>3. QED
          BY <2>1, <4>1, <4>2, Finite, Shrinks DEF Bound
      <3>3. QED
        BY <3>1, <3>2
    <2>7. QED
      BY <1>t, <1>o, <2>1, <2>2, <2>4, <2>6 DEF LimitInv
  <1>6. ASSUME NEW i \in Ids, DeleteKey(i) \/ EndBot(i) PROVE LimitInv'
    <2>1. PICK c \in Kind :
            /\ live' = [live EXCEPT ![c] = @ \ {i}] /\ by' = [by EXCEPT ![c][i] = None]
            /\ gone' \subseteq Ids /\ UNCHANGED <<next, role, req, crowd>>
      BY <1>6, <1>t DEF DeleteKey, EndBot, Kind
    <2>2. /\ live' \in [Kind -> SUBSET Ids] /\ by' \in [Kind -> [Ids -> Roles \cup {None}]]
          /\ \A k \in Kind : /\ live'[k] \subseteq live[k]
                             /\ \A j \in live'[k] : by'[k][j] = by[k][j]
      BY <1>t, <2>1
    <2>3. QED
      BY <1>t, <1>u, <2>1, <2>2
  <1>7. CASE SetRole \/ UNCHANGED vars
    BY <1>7, <1>t, <1>u DEF SetRole, vars, hist
  <1>8. QED
    BY <1>1, <1>2, <1>3, <1>4, <1>5, <1>6, <1>7 DEF Next

LEMMA LimitBounds == LimitInv => OvershootBounded
  <1> SUFFICES ASSUME LimitInv, NEW k \in Kind, NEW x \in Roles
               PROVE  Cardinality(Within(k, x)) =< Limit[k][x] + crowd[k] - 1
    BY DEF OvershootBounded
  <1>1. Bound(k, x)
    BY DEF LimitInv
  <1>2. QED
    BY <1>1, Finite DEF Bound

\* What was created under a role, or under roles with lower limits, exceeds the
\* limit of the role by less than the most creations there were at once: by
\* nothing, if they came one at a time, whatever the limits, the roles and
\* their changes.
THEOREM OvershootIsBounded == Spec => []OvershootBounded
  BY LimitInit, LimitStep, LimitBounds, PTL DEF Spec

-----------------------------------------------------------------------------
(* Labels, and the key of a new bot.                                       *)

\* Keys have rows that were numbered; a creation past the key's lookup has not
\* found one of the keys deleted before it began.
KeyInv ==
    /\ TypeOK
    /\ live["key"] \cup gone \subseteq {i \in Ids : i < next["key"]}
    /\ live["key"] \cap gone = {}
    /\ \A r \in Requests :
         /\ req[r].dead \subseteq gone
         /\ req[r].at = "insert" /\ req[r].kind = "bot" => req[r].key \notin req[r].dead

LEMMA KeyInit == Init => KeyInv
  <1> SUFFICES ASSUME Init PROVE KeyInv
    OBVIOUS
  <1>1. Idle \in Request /\ Idle.dead = {} /\ Idle.at = "idle"
    <2>1. (CHOOSE x \in Roles : TRUE) \in Roles
      BY DEF Init
    <2>2. QED
      BY <2>1 DEF Idle, Request, Point, Kind
  <1>2. 1 \in 1..(MaxRows + 1)
    BY RowsAssumption
  <1>3. TypeOK
    BY <1>1, <1>2 DEF Init, TypeOK, Kind
  <1>4. QED
    BY <1>1, <1>3 DEF Init, KeyInv, Kind

LEMMA KeyStep == KeyInv /\ [Next]_vars => KeyInv'
  <1> SUFFICES ASSUME KeyInv, [Next]_vars PROVE KeyInv'
    OBVIOUS
  <1>t. /\ live \in [Kind -> SUBSET Ids] /\ gone \subseteq Ids
        /\ label \in [Ids -> Labels \cup {None}] /\ keyOf \in [Ids -> Ids \cup {0}]
        /\ next \in [Kind -> 1..(MaxRows + 1)] /\ role \in Roles
        /\ req \in [Requests -> Request] /\ faults \in Nat
        /\ \A i, j \in live["key"] \cup gone : label[i] = label[j] => i = j
        /\ by \in [Kind -> [Ids -> Roles \cup {None}]] /\ crowd \in [Kind -> Nat \ {0}]
    BY DEF KeyInv, TypeOK
  <1>d. /\ Idle \in Request /\ Idle.dead = {} /\ Idle.at = "idle"
        /\ "key" \in Kind /\ "bot" \in Kind
    BY <1>t DEF Idle, Request, Point, Kind
  \* The history keeps its type.
  <1>h. by' \in [Kind -> [Ids -> Roles \cup {None}]] /\ crowd' \in [Kind -> Nat \ {0}]
    <2>a. ASSUME NEW k \in Kind, NEW i \in Ids, NEW v \in Roles \cup {None}
          PROVE  [by EXCEPT ![k][i] = v] \in [Kind -> [Ids -> Roles \cup {None}]]
      BY <1>t
    <2>1. ASSUME NEW r \in Requests, Begin(r)
          PROVE  by' = by /\ crowd' \in [Kind -> Nat \ {0}]
      <3>1. PICK k \in Kind :
              LET n == Cardinality(OpenOf(k)) + 1
              IN crowd' = [crowd EXCEPT ![k] = IF n > @ THEN n ELSE @]
        BY <2>1 DEF Begin
      <3>2. OpenOf(k) \subseteq Requests
        BY DEF OpenOf
      <3>3. Cardinality(OpenOf(k)) \in Nat
        BY <3>2, FiniteSubset
      <3> DEFINE m == IF Cardinality(OpenOf(k)) + 1 > crowd[k]
                      THEN Cardinality(OpenOf(k)) + 1 ELSE crowd[k]
      <3>4. m \in Nat \ {0} /\ crowd' = [crowd EXCEPT ![k] = m]
        BY <1>t, <3>1, <3>3
      <3> HIDE DEF m
      <3>5. QED
        BY <1>t, <2>1, <3>4 DEF Begin
    <2>2. ASSUME NEW r \in Requests, CommitKey(r) \/ CommitBot(r)
          PROVE  by' \in [Kind -> [Ids -> Roles \cup {None}]] /\ crowd' = crowd
      <3>1. req[r].role \in Roles
        BY <1>t DEF Request
      <3>2. PICK k \in Kind : /\ next[k] \in Ids /\ crowd' = crowd
                              /\ by' = [by EXCEPT ![k][next[k]] = req[r].role]
        BY <2>2 DEF CommitKey, CommitBot, Kind
      <3>3. QED
        BY <2>a, <3>1, <3>2
    <2>3. ASSUME NEW i \in Ids, DeleteKey(i) \/ EndBot(i)
          PROVE  by' \in [Kind -> [Ids -> Roles \cup {None}]] /\ crowd' = crowd
      <3>1. PICK k \in Kind : by' = [by EXCEPT ![k][i] = None] /\ crowd' = crowd
        BY <2>3 DEF DeleteKey, EndBot, Kind
      <3>2. QED
        BY <2>a, <2>3, <3>1
    <2>4. ASSUME NEW r \in Requests, Count(r) \/ Full(r) \/ FindKey(r) \/ KeyFails(r) \/ Break(r)
          PROVE  by' = by /\ crowd' = crowd
      BY <2>4 DEF Count, Full, FindKey, KeyFails, Break, hist
    <2>5. CASE SetRole \/ UNCHANGED vars
      BY <1>t, <2>5 DEF SetRole, vars, hist
    <2>6. QED
      BY <1>t, <2>1, <2>2, <2>3, <2>4, <2>5 DEF Next
  \* A step of a request that changes no row.
  <1>s. ASSUME NEW r \in Requests, NEW q \in Request, req' = [req EXCEPT ![r] = q],
               q.dead \subseteq gone,
               q.at = "insert" /\ q.kind = "bot" => q.key \notin q.dead,
               UNCHANGED <<live, gone, label, keyOf, next, role>>, faults' \in Nat
        PROVE  KeyInv'
    <2>1. /\ req' \in [Requests -> Request] /\ req'[r] = q
          /\ \A s \in Requests : s # r => req'[s] = req[s]
      BY <1>t, <1>s
    <2>2. TypeOK'
      BY <1>t, <1>h, <1>s, <2>1 DEF TypeOK
    <2>3. QED
      BY <1>s, <2>1, <2>2 DEF KeyInv
  <1>1. ASSUME NEW r \in Requests, Begin(r) PROVE KeyInv'
    <2>1. PICK k \in Kind, l \in Labels, i \in Ids :
            req' = [req EXCEPT ![r] =
              [at |-> "count", kind |-> k, role |-> role,
               label |-> IF k = "key" THEN l ELSE None,
               key |-> IF k = "bot" THEN i ELSE 0,
               dead |-> IF k = "bot" THEN gone ELSE {}]]
      BY <1>1 DEF Begin
    <2> DEFINE q == [at |-> "count", kind |-> k, role |-> role,
                     label |-> IF k = "key" THEN l ELSE None,
                     key |-> IF k = "bot" THEN i ELSE 0,
                     dead |-> IF k = "bot" THEN gone ELSE {}]
    <2>2. q \in Request /\ q.dead \subseteq gone /\ q.at # "insert"
      BY <1>t DEF Request, Point
    <2>3. /\ req' = [req EXCEPT ![r] = q]
          /\ UNCHANGED <<live, gone, label, keyOf, next, role>> /\ faults' \in Nat
      BY <1>1, <1>t, <2>1 DEF Begin
    <2> HIDE DEF q
    <2>4. QED
      BY <1>s, <2>2, <2>3
  <1>2. ASSUME NEW r \in Requests, Count(r) PROVE KeyInv'
    <2> DEFINE a == IF req[r].kind = "bot" THEN "key" ELSE "insert"
               q == [req[r] EXCEPT !.at = a]
    <2>0. a \in Point /\ (a = "insert" => req[r].kind # "bot")
      BY DEF Point
    <2> HIDE DEF a
    <2>a. req[r].dead \subseteq gone /\ req[r] \in Request
      BY <1>t DEF KeyInv
    <2>b. /\ q \in Request /\ q.at = a
          /\ q.dead = req[r].dead /\ q.kind = req[r].kind
      BY <2>0, <2>a DEF Request
    <2>1. /\ q \in Request /\ q.dead \subseteq gone
          /\ q.at = "insert" => q.kind # "bot"
      BY <2>0, <2>a, <2>b
    <2>2. /\ req' = [req EXCEPT ![r] = q]
          /\ UNCHANGED <<live, gone, label, keyOf, next, role>> /\ faults' \in Nat
      BY <1>2, <1>t DEF Count, Moves, a
    <2> HIDE DEF q
    <2>3. QED
      BY <1>s, <2>1, <2>2
  <1>3. ASSUME NEW r \in Requests, Full(r) \/ KeyFails(r) \/ Break(r) PROVE KeyInv'
    <2>1. /\ req' = [req EXCEPT ![r] = Idle]
          /\ UNCHANGED <<live, gone, label, keyOf, next, role>> /\ faults' \in Nat
      BY <1>3, <1>t DEF Full, KeyFails, Break, Ends
    <2>2. QED
      BY <1>d, <1>s, <2>1
  <1>4. ASSUME NEW r \in Requests, FindKey(r) PROVE KeyInv'
    <2>0. UNCHANGED <<live, gone, label, keyOf, next, role>> /\ faults' \in Nat
      BY <1>4, <1>t DEF FindKey
    <2>1. CASE KeyFound(r)
      <3> DEFINE q == [req[r] EXCEPT !.at = "insert"]
      <3>1. /\ q \in Request /\ q.dead = req[r].dead /\ q.key = req[r].key
        BY <1>t DEF Request, Point
      <3>2. req[r].dead \subseteq gone /\ req[r].key \notin gone
        BY <2>1 DEF KeyFound, KeyInv
      <3>3. req' = [req EXCEPT ![r] = q]
        BY <1>4, <2>1 DEF FindKey, Moves
      <3> HIDE DEF q
      <3>4. QED
        BY <1>s, <2>0, <3>1, <3>2, <3>3
    <2>2. CASE ~KeyFound(r)
      BY <1>4, <1>d, <1>s, <2>0, <2>2 DEF FindKey, Ends
    <2>3. QED
      BY <2>1, <2>2
  <1>5. ASSUME NEW r \in Requests, CommitKey(r) PROVE KeyInv'
    <2> DEFINE n == next["key"]
    <2>1. /\ n \in Ids /\ live' = [live EXCEPT !["key"] = @ \cup {n}]
          /\ label' = [label EXCEPT ![n] = req[r].label]
          /\ next' = [next EXCEPT !["key"] = n + 1]
          /\ req' = [req EXCEPT ![r] = Idle] /\ UNCHANGED <<gone, keyOf, role, faults>>
          /\ \A i \in live["key"] \cup gone : label[i] # req[r].label
      BY <1>5 DEF CommitKey, Ends, LabelTaken
    <2>2. req[r].label \in Labels \cup {None}
      BY <1>t DEF Request
    <2>3. n \in 1..MaxRows /\ n + 1 \in 1..(MaxRows + 1)
      BY <2>1, RowsAssumption DEF Ids
    <2>4. /\ live' \in [Kind -> SUBSET Ids] /\ live'["key"] = live["key"] \cup {n}
          /\ label' \in [Ids -> Labels \cup {None}] /\ label'[n] = req[r].label
          /\ \A i \in Ids \ {n} : label'[i] = label[i]
          /\ next' \in [Kind -> 1..(MaxRows + 1)] /\ next'["key"] = n + 1
          /\ req' \in [Requests -> Request] /\ req'[r] = Idle
          /\ \A s \in Requests : s # r => req'[s] = req[s]
      BY <1>t, <1>d, <2>1, <2>2, <2>3
    <2>5. live["key"] \cup gone \subseteq {i \in Ids : i < n}
      BY DEF KeyInv
    <2>6. n \notin live["key"] \cup gone
      BY <2>3, <2>5
    <2>7. \A i, j \in live'["key"] \cup gone' : label'[i] = label'[j] => i = j
      BY <1>t, <2>1, <2>4, <2>5, <2>6
    <2>8. TypeOK'
      BY <1>t, <1>h, <2>1, <2>4, <2>7 DEF TypeOK
    <2>9. live'["key"] \cup gone' \subseteq {i \in Ids : i < next'["key"]}
      <3>1. \A i \in Ids : i < n => i < n + 1
        BY <2>3 DEF Ids
      <3>2. QED
        BY <2>1, <2>3, <2>4, <2>5, <3>1 DEF Ids
    <2>10. QED
      BY <1>d, <2>1, <2>4, <2>6, <2>8, <2>9 DEF KeyInv
  <1>6. ASSUME NEW r \in Requests, CommitBot(r) PROVE KeyInv'
    <2>1. /\ next["bot"] \in Ids
          /\ live' = [live EXCEPT !["bot"] = @ \cup {next["bot"]}]
          /\ keyOf' = [keyOf EXCEPT ![next["bot"]] = req[r].key]
          /\ next' = [next EXCEPT !["bot"] = @ + 1]
          /\ req' = [req EXCEPT ![r] = Idle] /\ UNCHANGED <<gone, label, role, faults>>
      BY <1>6 DEF CommitBot, Ends
    <2>2. next["bot"] + 1 \in 1..(MaxRows + 1) /\ req[r].key \in Ids \cup {0}
      BY <1>t, <2>1, RowsAssumption DEF Ids, Request
    <2>3. /\ live' \in [Kind -> SUBSET Ids] /\ live'["key"] = live["key"]
          /\ keyOf' \in [Ids -> Ids \cup {0}]
          /\ next' \in [Kind -> 1..(MaxRows + 1)] /\ next'["key"] = next["key"]
          /\ req' \in [Requests -> Request] /\ req'[r] = Idle
          /\ \A s \in Requests : s # r => req'[s] = req[s]
      BY <1>t, <1>d, <2>1, <2>2
    <2>4. TypeOK'
      BY <1>t, <1>h, <2>1, <2>3 DEF TypeOK
    <2>5. QED
      BY <1>d, <2>1, <2>3, <2>4 DEF KeyInv
  <1>7. ASSUME NEW i \in Ids, DeleteKey(i) PROVE KeyInv'
    <2>1. /\ i \in live["key"] /\ live' = [live EXCEPT !["key"] = @ \ {i}]
          /\ gone' = gone \cup {i} /\ UNCHANGED <<label, keyOf, next, role, req, faults>>
      BY <1>7 DEF DeleteKey
    <2>2. /\ live' \in [Kind -> SUBSET Ids] /\ live'["key"] = live["key"] \ {i}
          /\ live'["key"] \cup gone' = live["key"] \cup gone /\ gone' \subseteq Ids
      BY <1>t, <1>d, <2>1
    <2>3. TypeOK'
      BY <1>t, <1>h, <2>1, <2>2 DEF TypeOK
    <2>4. QED
      BY <2>1, <2>2, <2>3 DEF KeyInv
  <1>8. ASSUME NEW i \in Ids, EndBot(i) PROVE KeyInv'
    <2>1. /\ live' = [live EXCEPT !["bot"] = @ \ {i}]
          /\ UNCHANGED <<gone, label, keyOf, next, role, req, faults>>
      BY <1>8 DEF EndBot
    <2>2. live' \in [Kind -> SUBSET Ids] /\ live'["key"] = live["key"]
      BY <1>t, <1>d, <2>1
    <2>3. TypeOK'
      BY <1>t, <1>h, <2>1, <2>2 DEF TypeOK
    <2>4. QED
      BY <2>1, <2>2, <2>3 DEF KeyInv
  <1>9. CASE SetRole \/ UNCHANGED vars
    <2>1. /\ role' \in Roles
          /\ UNCHANGED <<live, gone, label, keyOf, next, req, faults>>
      BY <1>9, <1>t DEF SetRole, vars
    <2>2. TypeOK'
      BY <1>t, <1>h, <2>1 DEF TypeOK
    <2>3. QED
      BY <2>1, <2>2 DEF KeyInv
  <1>10. QED
    BY <1>1, <1>2, <1>3, <1>4, <1>5, <1>6, <1>7, <1>8, <1>9 DEF Next

\* Type correctness: no two keys of a user, deleted ones included, have one
\* label, however many creations overlap.
THEOREM LimitTypes == Spec => []TypeOK
  <1>1. KeyInv => TypeOK
    BY DEF KeyInv
  <1>2. QED
    BY KeyInit, KeyStep, <1>1, PTL DEF Spec

\* A key deleted before the creation of a bot begins is never the key of that
\* bot, whatever is deleted, ended or refused in between.
THEOREM DeletedKeyNotUsed == Spec => NotOnDeletedKey
  <1>1. KeyInv /\ [Next]_vars
        => [\A r \in Requests : CommitBot(r) => req[r].key \notin req[r].dead]_vars
    BY DEF KeyInv, CommitBot
  <1>2. QED
    BY KeyInit, KeyStep, <1>1, PTL DEF Spec, NotOnDeletedKey
=============================================================================
