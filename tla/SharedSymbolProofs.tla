-------------------------- MODULE SharedSymbolProofs --------------------------
(***************************************************************************)
(* Proofs about SharedSymbol, for every number of bots and legs and every  *)
(* number of failures: types, the inductive invariant Inv /\ Safe, and     *)
(* what survives of a bot's order bookkeeping in the company of others.    *)
(***************************************************************************)
EXTENDS SharedSymbol, FiniteSetTheorems, TLAPS

USE BotsAssumption, LegsAssumption, BoundsAssumption

Inv == TypeOK /\ PassShape

-----------------------------------------------------------------------------
(* Types.                                                                  *)

LEMMA NoSessionType == NoSession \in Session
BY DEF NoSession, Session, Version, Level

\* The id a pass works on is a client id of its bot.
LEMMA CurrentType ==
    ASSUME TypeOK, NEW b \in Bots
    PROVE  /\ Current(b) \in Cid /\ Owner(Current(b)) = b
           /\ Current(b)[1] = b /\ Current(b)[2] = sess[b].ver
           /\ Current(b)[3] = sess[b].idx
<1>1. sess[b].ver \in Version /\ sess[b].idx \in Level
  BY DEF TypeOK, Session
<1>2. QED
  BY <1>1 DEF Current, Cid, Owner

LEMMA CidParts ==
    ASSUME NEW c \in Cid
    PROVE  Owner(c) \in Bots /\ c[2] \in Version /\ c[3] \in Level
BY DEF Cid, Owner

LEMMA NextIdxType ==
    ASSUME TypeOK, NEW b \in Bots
    PROVE  NextIdx(b) \in Level
<1>1. sess[b].idx \in 0..Legs
  BY DEF TypeOK, Session, Level
<1>2. QED
  BY <1>1 DEF NextIdx, Level

\* An acceptance counts for one id, which becomes open or executes.
LEMMA AcceptType ==
    ASSUME TypeOK, NEW c \in Cid, Accept(c)
    PROVE  /\ accepted' \in [Cid -> Nat] /\ open' \subseteq Cid /\ flat' \in BOOLEAN
           /\ open' \in {open, open \cup {c}} /\ c \notin open
           /\ accepted'[c] = accepted[c] + 1
           /\ \A d \in Cid \ {c} : accepted'[d] = accepted[d]
<1>1. accepted' = [accepted EXCEPT ![c] = @ + 1] /\ accepted \in [Cid -> Nat]
  BY DEF Accept, TypeOK
<1>2. open \subseteq Cid /\ flat \in BOOLEAN /\ c \notin open
  BY DEF TypeOK, Accept, Acceptable
<1>3. /\ accepted' \in [Cid -> Nat] /\ accepted'[c] = accepted[c] + 1
      /\ \A d \in Cid \ {c} : accepted'[d] = accepted[d]
  BY <1>1
<1>4. \/ flat' = FALSE /\ open' = open
      \/ flat' = flat /\ open' = open \cup {c}
  BY DEF Accept
<1>5. open' \subseteq Cid /\ open' \in {open, open \cup {c}}
  BY <1>2, <1>4
<1>6. flat' \in BOOLEAN
  BY <1>2, <1>4
<1>7. QED
  BY <1>2, <1>3, <1>5, <1>6

\* What a session holds are client ids.
LEMMA SessionSets ==
    ASSUME TypeOK, NEW b \in Bots
    PROVE  /\ sess[b].new \subseteq Cid /\ sess[b].held \subseteq Cid
           /\ sess[b].heard \subseteq Cid /\ sess[b].wait \subseteq Cid
BY DEF TypeOK, Session

\* A step of one bot's pass: only what it makes of its own session matters.
LEMMA OwnStep ==
    ASSUME Inv, NEW b \in Bots, NEW p \in PassPoint, NEW s \in Session,
           at' = [at EXCEPT ![b] = p], sess' = [sess EXCEPT ![b] = s],
           \A d \in Bots \ {b} : ver'[d] = ver[d], Shape(b)',
           life' = life, ver' \in [Bots -> Version],
           owner' \in [Cid -> Bots \cup {NoBot}],
           open' \subseteq Cid, flat' \in BOOLEAN, accepted' \in [Cid -> Nat],
           excused' \in [Cid -> Nat], faults' \in Nat, stopping' = stopping,
           up' = up
    PROVE  Inv'
<1>1. TypeOK'
  BY DEF Inv, TypeOK
<1>2. ASSUME NEW d \in Bots PROVE Shape(d)'
  <2>1. CASE d = b
    BY <2>1
  <2>2. CASE d # b
    <3>1. at'[d] = at[d] /\ sess'[d] = sess[d] /\ ver'[d] = ver[d] /\ Shape(d)
      BY <2>2 DEF Inv, TypeOK, PassShape
    <3>2. QED
      BY <3>1 DEF Shape, Current
  <2>3. QED
    BY <2>1, <2>2
<1>3. QED
  BY <1>1, <1>2 DEF Inv, PassShape

\* A rolled-back pass leaves types and shapes intact.
LEMMA FailsInv ==
    ASSUME Inv, NEW b \in Bots, RollBack(b),
           UNCHANGED <<life, ver, owner, stopping, up>>,
           open' \subseteq Cid, flat' \in BOOLEAN, accepted' \in [Cid -> Nat],
           excused' \in [Cid -> Nat], faults' \in Nat
    PROVE  Inv'
<1>1. at'[b] = "idle" /\ sess'[b] = NoSession
  BY DEF Inv, TypeOK, RollBack, Goto
<1>2. Shape(b)'
  BY <1>1 DEF Shape, NoSession
<1>3. QED
  BY <1>2, NoSessionType, OwnStep DEF Inv, TypeOK, RollBack, Goto, PassPoint

LEMMA ExcuseType ==
    ASSUME TypeOK, NEW S, Excuse(S)
    PROVE  excused' \in [Cid -> Nat] /\ \A c \in Cid : excused'[c] >= excused[c]
BY DEF TypeOK, Excuse

LEMMA FaultType == TypeOK => faults + 1 \in Nat
BY DEF TypeOK

\* A step that leaves the passes alone.
LEMMA OthersInv ==
    ASSUME Inv, UNCHANGED <<ver, owner, at, sess>>,
           life' \in [Bots -> {"ACTIVE", "STOPPED"}],
           open' \subseteq Cid, flat' \in BOOLEAN, UNCHANGED <<accepted, excused>>,
           stopping' \in [Bots -> BOOLEAN], faults' \in Nat, up' \in BOOLEAN
    PROVE  Inv'
BY DEF Inv, TypeOK, PassShape, Shape, Current

LEMMA InitInv == Init => Inv
BY NoSessionType DEF Init, Inv, TypeOK, PassShape, Shape, PassPoint, Version, NoSession

\* What a session's step writes, field by field.
LEMMA SessionStep ==
    ASSUME TypeOK, NEW b \in Bots
    PROVE  /\ sess[b] \in Session
           /\ \A n \in SUBSET Cid : [sess[b] EXCEPT !.new = n] \in Session
           /\ \A i \in Level : [sess[b] EXCEPT !.idx = i] \in Session
           /\ \A w \in SUBSET Cid : [sess[b] EXCEPT !.wait = w] \in Session
           /\ \A n, h, w \in SUBSET Cid :
                [sess[b] EXCEPT !.new = n, !.held = h, !.wait = w] \in Session
           /\ \A h \in SUBSET Cid, i \in Level :
                [sess[b] EXCEPT !.heard = h, !.idx = i] \in Session
           /\ \A v \in Version :
                [sess[b] EXCEPT !.ver = v, !.restarted = TRUE] \in Session
<1> DEFINE s == sess[b]
<1>1. s \in Session
  BY DEF TypeOK
<1> HIDE DEF s
<1>2. /\ \A n \in SUBSET Cid : [s EXCEPT !.new = n] \in Session
      /\ \A i \in Level : [s EXCEPT !.idx = i] \in Session
      /\ \A w \in SUBSET Cid : [s EXCEPT !.wait = w] \in Session
  BY <1>1 DEF Session
<1>3. \A n, h, w \in SUBSET Cid :
        [s EXCEPT !.new = n, !.held = h, !.wait = w] \in Session
  BY <1>1 DEF Session
<1>4. /\ \A h \in SUBSET Cid, i \in Level : [s EXCEPT !.heard = h, !.idx = i] \in Session
      /\ \A v \in Version : [s EXCEPT !.ver = v, !.restarted = TRUE] \in Session
  BY <1>1 DEF Session
<1>5. QED
  BY <1>1, <1>2, <1>3, <1>4 DEF s

LEMMA NextInv == Inv /\ [Next]_vars => Inv'
<1> SUFFICES ASSUME Inv, [Next]_vars PROVE Inv'
  OBVIOUS
<1> USE DEF dbVars, exVars
<1>t. TypeOK /\ \A b \in Bots : Shape(b)
  BY DEF Inv, PassShape
<1>s. sess \in [Bots -> Session] /\ at \in [Bots -> PassPoint] /\ ver \in [Bots -> Version]
  BY <1>t DEF TypeOK
<1>1. CASE UNCHANGED vars
  BY <1>1 DEF vars, Inv, TypeOK, PassShape, Shape, Current
<1>2. ASSUME NEW b \in Bots, BeginPass(b) PROVE Inv'
  <2> DEFINE s == [NoSession EXCEPT !.ver = ver[b]]
  <2>1. sess' = [sess EXCEPT ![b] = s] /\ at' = [at EXCEPT ![b] = "sync"]
    BY <1>2 DEF BeginPass, Goto
  <2>2. s \in Session
    BY <1>t, NoSessionType DEF TypeOK, Session
  <2>3. Shape(b)'
    BY <1>2, <1>s, <2>1 DEF BeginPass, Shape, NoSession, Version, Current
  <2>4. QED
    BY <1>2, <1>t, <2>1, <2>2, <2>3, OwnStep DEF BeginPass, TypeOK, PassPoint
<1>3. ASSUME NEW b \in Bots, Sync(b) PROVE Inv'
  <2> DEFINE p == IF b \in AutoRestart THEN "rpos" ELSE "row"
             s == [sess[b] EXCEPT !.new = open \ Seen(b)]
  <2>1. sess' = [sess EXCEPT ![b] = s] /\ at' = [at EXCEPT ![b] = p]
    BY <1>3 DEF Sync, Goto
  <2>2. s \in Session
    BY <1>t, SessionStep DEF TypeOK
  <2>3. sess'[b] = s /\ at'[b] = p /\ at[b] = "sync" /\ ver'[b] = ver[b]
    BY <1>3, <1>s, <2>1 DEF Sync
  <2> HIDE DEF p
  <2>4. p \in {"rpos", "row"}
    BY DEF p
  <2>5. Shape(b)'
    BY <1>t, <1>s, <2>3, <2>4 DEF Shape, Session
  <2>6. QED
    BY <1>3, <1>t, <2>1, <2>2, <2>4, <2>5, OwnStep DEF Sync, TypeOK, PassPoint
<1>4. ASSUME NEW b \in Bots, RestartReadsPosition(b) \/ RestartReadsOrders(b) PROVE Inv'
  <2>1. PICK p \in {"ropen", "rcancel", "row"} :
          at' = [at EXCEPT ![b] = p] /\ (p = "rcancel" => ver[b] < MaxVersion)
    BY <1>4 DEF RestartReadsPosition, RestartReadsOrders, Goto
  <2>2. sess' = [sess EXCEPT ![b] = sess[b]] /\ sess' = sess /\ ver' = ver
    BY <1>4, <1>s DEF RestartReadsPosition, RestartReadsOrders
  <2>3. at[b] \in {"rpos", "ropen"} /\ at'[b] = p
    BY <1>4, <1>s, <2>1 DEF RestartReadsPosition, RestartReadsOrders
  <2>4. Shape(b)'
    BY <1>t, <1>s, <2>1, <2>2, <2>3 DEF Shape
  <2>5. QED
    <3>1. UNCHANGED <<dbVars, exVars, stopping, up, excused, faults>>
      BY <1>4 DEF RestartReadsPosition, RestartReadsOrders
    <3>2. sess[b] \in Session /\ p \in PassPoint
      BY <1>s DEF PassPoint
    <3>3. QED
      BY <1>t, <2>1, <2>2, <2>4, <3>1, <3>2, OwnStep DEF TypeOK
<1>5. ASSUME NEW b \in Bots, RestartGrid(b) PROVE Inv'
  <2> DEFINE s == [sess[b] EXCEPT !.ver = @ + 1, !.restarted = TRUE]
  <2>1. sess' = [sess EXCEPT ![b] = s] /\ at' = [at EXCEPT ![b] = "row"]
    BY <1>5, <1>s DEF RestartGrid, Goto
  <2>2. sess[b].ver = ver[b] /\ ver[b] < MaxVersion /\ at[b] = "rcancel" /\ ver[b] \in Nat
        /\ sess[b].ver + 1 \in Version
    BY <1>5, <1>t, <1>s DEF RestartGrid, Shape, Version
  <2>3. s \in Session
    BY <1>t, <2>2, SessionStep
  <2>4. sess'[b] = s /\ at'[b] = "row" /\ ver'[b] = ver[b]
    BY <1>5, <1>s, <2>1 DEF RestartGrid
  <2>5. Shape(b)'
    BY <1>t, <1>s, <2>2, <2>4 DEF Shape, Session
  <2>6. QED
    BY <1>5, <1>t, <2>1, <2>3, <2>5, OwnStep DEF RestartGrid, TypeOK, PassPoint
<1>6. ASSUME NEW b \in Bots, SkipRecorded(b) PROVE Inv'
  <2> DEFINE s == [sess[b] EXCEPT !.idx = NextIdx(b)]
             p == IF sess[b].idx = Legs THEN "commit" ELSE "row"
  <2>1. sess' = [sess EXCEPT ![b] = s] /\ at' = [at EXCEPT ![b] = p]
    BY <1>6, <1>s DEF SkipRecorded, Advance, Goto
  <2>2. s \in Session
    BY <1>t, SessionStep, NextIdxType
  <2>3. sess'[b] = s /\ at'[b] = p /\ at[b] = "row" /\ ver'[b] = ver[b]
    BY <1>6, <1>s, <2>1 DEF SkipRecorded
  <2>4. sess[b].idx \in Nat /\ s.idx = NextIdx(b) /\ NextIdx(b) >= sess[b].idx
        /\ s.ver = sess[b].ver /\ s.restarted = sess[b].restarted
        /\ s.heard = sess[b].heard /\ s.held = sess[b].held
        /\ s.new = sess[b].new /\ s.wait = sess[b].wait
    BY <1>s DEF Session, Level, NextIdx
  <2>5. \A c \in sess[b].heard : c[3] \in Nat
    BY <1>s, CidParts DEF Session, Level
  <2> HIDE DEF s
  <2>6. Shape(b)'
    BY <1>t, <1>s, <2>3, <2>4, <2>5, NextIdxType DEF Shape, Level
  <2>7. QED
    BY <1>6, <1>t, <2>1, <2>2, <2>6, OwnStep DEF SkipRecorded, TypeOK, PassPoint
<1>7. ASSUME NEW b \in Bots, AddRow(b) PROVE Inv'
  <2>1. CASE PassFails(b)
    BY <1>7, <2>1, FailsInv, ExcuseType DEF AddRow, PassFails, Inv, TypeOK
  <2>2. CASE sess' = [sess EXCEPT ![b].new = @ \cup {Current(b)}]
             /\ Goto(b, "place") /\ UNCHANGED excused
    <3> DEFINE s == [sess[b] EXCEPT !.new = @ \cup {Current(b)}]
    <3>1. sess' = [sess EXCEPT ![b] = s] /\ at' = [at EXCEPT ![b] = "place"]
      BY <2>2, <1>s DEF Goto
    <3>2. s \in Session
      <4>1. sess[b].new \cup {Current(b)} \in SUBSET Cid
        BY <1>t, SessionSets, CurrentType
      <4>2. QED
        BY <1>t, <4>1, SessionStep
    <3>3. sess'[b] = s /\ at'[b] = "place" /\ at[b] = "row" /\ ver'[b] = ver[b]
      BY <1>7, <1>s, <3>1 DEF AddRow
    <3>4. Current(b)' = Current(b) /\ Current(b) \in s.new
      BY <1>s, <3>3 DEF Current, Session
    <3>5. Shape(b)'
      BY <1>t, <1>s, <3>3, <3>4 DEF Shape, Session
    <3>6. QED
      BY <1>7, <1>t, <2>2, <3>1, <3>2, <3>5, OwnStep DEF AddRow, TypeOK, PassPoint
  <2>3. QED
    BY <1>7, <2>1, <2>2 DEF AddRow
<1>8. ASSUME NEW b \in Bots, WaitForKey(b) \/ InsertRow(b) PROVE Inv'
  <2>1. NextRows(b) \subseteq Cid /\ at[b] \in {"place", "commit"}
    BY <1>8, <1>s DEF NextRows, Session, WaitForKey, InsertRow, Flushing
  <2>2. PICK s \in Session :
          /\ sess' = [sess EXCEPT ![b] = s]
          /\ s.ver = sess[b].ver /\ s.idx = sess[b].idx /\ s.restarted = sess[b].restarted
          /\ s.heard = sess[b].heard /\ sess[b].held \subseteq s.held
          /\ s.new \cup s.held = sess[b].new \cup sess[b].held \cup s.held
          /\ s.wait \subseteq s.new
    <3>1. CASE WaitForKey(b)
      <4>1. PICK c \in Cid : c \in sess[b].new /\ sess' = [sess EXCEPT ![b].wait = {c}]
        BY <2>1, <3>1 DEF WaitForKey, NextRows
      <4> DEFINE s == [sess[b] EXCEPT !.wait = {c}]
      <4>2. s \in Session /\ sess' = [sess EXCEPT ![b] = s]
        BY <1>t, <1>s, <4>1, SessionStep
      <4>3. QED
        BY <1>s, <4>1, <4>2 DEF Session
    <3>2. CASE InsertRow(b)
      <4>1. PICK c \in Cid : sess' = [sess EXCEPT ![b].new = @ \ {c}, ![b].held = @ \cup {c},
                                                  ![b].wait = {}]
        BY <2>1, <3>2 DEF InsertRow
      <4> DEFINE s == [sess[b] EXCEPT !.new = @ \ {c}, !.held = @ \cup {c}, !.wait = {}]
      <4>2. s \in Session /\ sess' = [sess EXCEPT ![b] = s]
        <5>1. sess[b].new \ {c} \in SUBSET Cid /\ sess[b].held \cup {c} \in SUBSET Cid
          BY <1>t, SessionSets
        <5>2. QED
          BY <1>t, <1>s, <4>1, <5>1, SessionStep
      <4>3. QED
        BY <1>s, <4>2 DEF Session
    <3>3. QED
      BY <1>8, <3>1, <3>2
  <2>3. at' = [at EXCEPT ![b] = at[b]] /\ at' = at /\ ver' = ver /\ sess'[b] = s
    BY <1>8, <1>s, <2>2 DEF WaitForKey, InsertRow
  <2>4. Current(b)' = Current(b)
    BY <2>2, <2>3 DEF Current
  <2>5. Shape(b)'
    BY <1>t, <2>1, <2>2, <2>3, <2>4 DEF Shape
  <2>6. QED
    <3>1. UNCHANGED <<dbVars, exVars, stopping, up, excused, faults>> /\ at[b] \in PassPoint
      BY <1>8, <1>s DEF WaitForKey, InsertRow
    <3>2. QED
      BY <1>t, <2>2, <2>3, <2>5, <3>1, OwnStep DEF TypeOK
<1>9. ASSUME NEW b \in Bots,
             \/ InsertConflicts(b) \/ DeadlockAborts(b) \/ SupervisorCancel(b)
             \/ PlaceRejected(b) \/ CallFails(b)
      PROVE  Inv'
  <2>1. PassFails(b) /\ UNCHANGED <<life, ver, owner, flat, accepted, stopping, up>>
        /\ faults' \in {faults, faults + 1} /\ open' \in {open, {}}
    BY <1>9 DEF InsertConflicts, DeadlockAborts, SupervisorCancel, PlaceRejected, CallFails, Fault
  <2>2. QED
    BY <2>1, FailsInv, ExcuseType, FaultType DEF PassFails, Inv, TypeOK
<1>10. ASSUME NEW b \in Bots, PlaceAck(b) PROVE Inv'
  <2> DEFINE s == [sess[b] EXCEPT !.heard = @ \cup {Current(b)}, !.idx = NextIdx(b)]
             p == IF sess[b].idx = Legs THEN "commit" ELSE "row"
  <2>1. sess' = [sess EXCEPT ![b] = s] /\ at' = [at EXCEPT ![b] = p]
    BY <1>10, <1>s DEF PlaceAck, Advance, Goto
  <2>2. s \in Session
    <3>1. sess[b].heard \cup {Current(b)} \in SUBSET Cid
      BY <1>t, SessionSets, CurrentType
    <3>2. QED
      BY <1>t, <3>1, SessionStep, NextIdxType
  <2>3. sess'[b] = s /\ at'[b] = p /\ at[b] = "place" /\ sess[b].new = {} /\ ver'[b] = ver[b]
    BY <1>10, <1>s, <2>1 DEF PlaceAck, Placing
  <2>4. s.idx = NextIdx(b) /\ sess[b].idx \in 0..Legs /\ s.ver = sess[b].ver
        /\ s.restarted = sess[b].restarted /\ s.held = sess[b].held
        /\ s.heard = sess[b].heard \cup {Current(b)}
        /\ s.new = sess[b].new /\ s.wait = sess[b].wait
    BY <1>s DEF Session, Level
  <2>5. p = "row" => NextIdx(b) = sess[b].idx + 1
    BY DEF NextIdx
  <2>6. \A c \in sess[b].heard : c[3] \in Nat
    BY <1>s, CidParts DEF Session, Level
  <2> HIDE DEF s
  <2>7. Current(b) \in sess[b].held
    BY <1>t, <2>3 DEF Shape
  <2>8. ASSUME NEW c \in s.heard
        PROVE  Owner(c) = b /\ c[2] = s.ver /\ (c[3] < s.idx \/ p = "commit")
    <3>1. CASE c = Current(b)
      BY <1>t, <2>4, <2>5, <3>1, CurrentType
    <3>2. CASE c \in sess[b].heard
      BY <1>t, <2>3, <2>4, <2>5, <2>6, <3>2 DEF Shape
    <3>3. QED
      BY <2>4, <3>1, <3>2
  <2>9. Shape(b)'
    BY <1>t, <2>3, <2>4, <2>7, <2>8 DEF Shape
  <2>10. accepted' \in [Cid -> Nat] /\ open' \subseteq Cid /\ flat' \in BOOLEAN
    BY <1>10, <1>t, CurrentType, AcceptType DEF PlaceAck
  <2>11. QED
    BY <1>10, <1>t, <2>1, <2>2, <2>9, <2>10, OwnStep DEF PlaceAck, TypeOK, PassPoint
<1>11. ASSUME NEW b \in Bots, PlaceLost(b) PROVE Inv'
  <2>1. accepted' \in [Cid -> Nat] /\ open' \subseteq Cid /\ flat' \in BOOLEAN
    BY <1>11, <1>t, CurrentType, AcceptType DEF PlaceLost
  <2>2. QED
    BY <1>11, <1>t, <2>1, FailsInv, ExcuseType, FaultType DEF PlaceLost, Fault
<1>12. ASSUME NEW b \in Bots, CommitPass(b) PROVE Inv'
  <2>1. at'[b] = "idle" /\ sess'[b] = NoSession
    BY <1>12, <1>s DEF CommitPass, RollBack, Goto
  <2>2. Shape(b)'
    BY <2>1 DEF Shape, NoSession
  <2>3. ver' \in [Bots -> Version] /\ \A d \in Bots \ {b} : ver'[d] = ver[d]
    BY <1>12, <1>s DEF CommitPass, Session
  <2>4. owner' \in [Cid -> Bots \cup {NoBot}]
    BY <1>12, <1>t DEF CommitPass, TypeOK
  <2>5. excused' \in [Cid -> Nat]
    BY <1>12, <1>t, ExcuseType DEF CommitPass
  <2>6. QED
    BY <1>12, <1>t, <2>2, <2>3, <2>4, <2>5, NoSessionType, OwnStep
    DEF CommitPass, RollBack, Goto, TypeOK, PassPoint
<1>13. CASE EngineCrash
  <2>1. TypeOK'
    BY <1>13, <1>t, NoSessionType, ExcuseType, FaultType DEF EngineCrash, Fault, TypeOK, PassPoint
  <2>2. PassShape'
    BY <1>13 DEF EngineCrash, PassShape, Shape, NoSession
  <2>3. QED
    BY <2>1, <2>2 DEF Inv
<1>14. CASE Fill \/ Flatten \/ EngineStarts
  BY <1>14, OthersInv DEF Fill, Flatten, EngineStarts, Inv, TypeOK
<1>15. ASSUME NEW b \in Bots, StopStep(b) PROVE Inv'
  BY <1>15, OthersInv, FaultType DEF StopStep, StopCancels, CommitStop, StopFails, Fault, Inv, TypeOK
<1>16. QED
  BY <1>1, <1>2, <1>3, <1>4, <1>5, <1>6, <1>7, <1>8, <1>9, <1>10, <1>11, <1>12, <1>13, <1>14,
     <1>15
  DEF Next, PassStep

\* Every variable has its type, and every pass its shape.
THEOREM Types == Spec => []TypeOK
<1>1. Inv /\ [Next]_vars => Inv'
  BY NextInv
<1>2. Inv => TypeOK
  BY DEF Inv
<1>3. QED
  BY InitInv, <1>1, <1>2, PTL DEF Spec

-----------------------------------------------------------------------------
(* Keys, excuses and open orders.                                          *)

Safe == Keys /\ Found /\ Account /\ NoneOwnOpen /\ AdoptedOnlyLost

LEMMA InitSafe == Init => Safe
<1> SUFFICES ASSUME Init PROVE Safe
  OBVIOUS
<1>1. Keys /\ Found /\ NoneOwnOpen
  BY DEF Init, Keys, Found, NoneOwnOpen, NoSession
<1>2. Account /\ AdoptedOnlyLost
  BY DEF Init, Account, AdoptedOnlyLost
<1>3. QED
  BY <1>1, <1>2 DEF Safe

\* A step that books, accepts and excuses nothing, and in which a session's
\* keys and acknowledgements stay as they are.
LEMMA QuietSafe ==
    ASSUME Inv, Safe,
           \A b \in Bots : /\ sess'[b].held = sess[b].held /\ sess'[b].heard = sess[b].heard
                           /\ sess[b].restarted => sess'[b].restarted
                           /\ \A c \in sess'[b].new \ sess[b].new :
                                Owner(c) = b \/ accepted[c] > 0,
           ver' = ver, owner' = owner, accepted' = accepted, excused' = excused,
           open' \subseteq open, NoneOwnOpen'
    PROVE  Safe'
<1>1. Keys'
  BY DEF Safe, Keys, Deleted
<1>2. \A c \in Cid : Lost(c)' = Lost(c) /\ Owner(c) \in Bots
  BY CidParts DEF Lost
<1>3. Found'
  BY <1>2 DEF Safe, Found
<1>4. Account'
  <2>1. \A c \in Cid : Settled(c)' = Settled(c)
    BY CidParts DEF Settled
  <2>2. QED
    BY <2>1 DEF Safe, Account
<1>5. AdoptedOnlyLost'
  BY DEF Safe, AdoptedOnlyLost
<1>6. QED
  BY <1>1, <1>3, <1>4, <1>5 DEF Safe

\* Sessions that end without a commit, and what they had heard excused.
LEMMA EndSafe ==
    ASSUME Inv, Safe, NEW B \in SUBSET Bots, NEW S \in SUBSET Cid,
           \A b \in Bots : IF b \in B THEN sess'[b] = NoSession /\ at'[b] = "idle"
                                      ELSE sess'[b] = sess[b] /\ at'[b] = at[b],
           \A c \in Cid : Owner(c) \in B /\ c \in sess[Owner(c)].heard => c \in S,
           Excuse(S), ver' = ver, owner' = owner,
           \A c \in Cid : /\ accepted'[c] \in Nat /\ accepted'[c] >= accepted[c]
                          /\ accepted'[c] > accepted[c] =>
                               c \in S /\ accepted'[c] = accepted[c] + 1 /\ ~Settled(c),
           \A c \in open' \ open : accepted'[c] > 0 /\ Owner(c) \in B, open' \subseteq Cid
    PROVE  Safe'
<1>t. /\ ver \in [Bots -> Version] /\ accepted \in [Cid -> Nat] /\ excused \in [Cid -> Nat]
      /\ open \subseteq Cid
  BY DEF Inv, TypeOK
<1>c. \A c \in Cid : Owner(c) \in Bots /\ c[2] \in Nat /\ ver[Owner(c)] \in Nat
  BY <1>t, CidParts DEF Version
<1>e. \A c \in Cid : excused'[c] = IF c \in S THEN excused[c] + 1 ELSE excused[c]
  BY DEF Excuse
<1>n. NoSession.held = {} /\ NoSession.heard = {} /\ NoSession.new = {} /\ ~NoSession.restarted
  BY DEF NoSession
<1>1. Keys'
  BY <1>n DEF Safe, Keys, Deleted
<1>2. \A c \in Cid : Lost(c) => Lost(c)'
  BY <1>t, <1>e DEF Lost
<1>3. Found'
  BY <1>t, <1>n, <1>2 DEF Safe, Found
<1>4. Account'
  <2> SUFFICES ASSUME NEW c \in Cid
               PROVE  accepted'[c] <= excused'[c] + (IF Settled(c)' THEN 1 ELSE 0)
    BY DEF Account
  <2>1. accepted[c] <= excused[c] + (IF Settled(c) THEN 1 ELSE 0)
    BY DEF Safe, Account
  <2>2. CASE accepted'[c] > accepted[c]
    BY <1>t, <1>e, <2>1, <2>2
  <2>3. CASE accepted'[c] = accepted[c] /\ c \in S
    BY <1>t, <1>e, <2>1, <2>3
  <2>4. CASE accepted'[c] = accepted[c] /\ c \notin S
    <3>1. Settled(c) => Settled(c)'
      BY <1>c, <2>4 DEF Settled
    <3>2. QED
      BY <1>t, <1>e, <2>1, <2>4, <3>1
  <2>5. QED
    BY <1>t, <2>2, <2>3, <2>4
<1>5. NoneOwnOpen'
  BY DEF Safe, NoneOwnOpen
<1>6. AdoptedOnlyLost'
  BY <1>t, <1>e DEF Safe, AdoptedOnlyLost
<1>7. QED
  BY <1>1, <1>3, <1>4, <1>5, <1>6 DEF Safe

\* The pass that fails is one of them.
LEMMA FailsSafe ==
    ASSUME Inv, Safe, NEW b \in Bots, PassFails(b), ver' = ver, owner' = owner,
           accepted' = accepted, open' \subseteq open
    PROVE  Safe'
<1>1. sess[b].heard \in SUBSET Cid /\ \A c \in sess[b].heard : Owner(c) = b
  BY SessionSets DEF Inv, PassShape, Shape
<1>2. at'[b] = "idle" /\ sess'[b] = NoSession
      /\ \A d \in Bots \ {b} : at'[d] = at[d] /\ sess'[d] = sess[d]
  BY DEF PassFails, RollBack, Goto, Inv, TypeOK
<1>3. Excuse(sess[b].heard)
  BY DEF PassFails
<1>4. \A c \in Cid : accepted'[c] \in Nat
  BY DEF Inv, TypeOK
<1>5. open' \subseteq Cid
  BY DEF Inv, TypeOK
<1>6. PICK S \in SUBSET Cid : S = sess[b].heard
  BY <1>1
<1>7. Excuse(S)
  BY <1>3, <1>6 DEF Excuse
<1>8. \A c \in Cid : /\ accepted'[c] \in Nat /\ accepted'[c] >= accepted[c]
                     /\ ~(accepted'[c] > accepted[c])
  BY <1>4
<1>9. {b} \in SUBSET Bots /\ \A c \in Cid : Owner(c) \in {b} /\ c \in sess[Owner(c)].heard => c \in S
  BY <1>6
<1>10. \A d \in Bots : IF d \in {b} THEN sess'[d] = NoSession /\ at'[d] = "idle"
                                   ELSE sess'[d] = sess[d] /\ at'[d] = at[d]
  BY <1>2
<1>11. QED
  BY <1>5, <1>7, <1>8, <1>9, <1>10, EndSafe

\* An id that is being placed has no acceptance left to account for.
LEMMA PlacingUnsettled ==
    ASSUME Inv, Safe, NEW b \in Bots, Placing(b)
    PROVE  Current(b) \in sess[b].held /\ ~Settled(Current(b))
<1>1. Shape(b) /\ Current(b) \in Cid /\ Owner(Current(b)) = b
      /\ Current(b)[2] = sess[b].ver /\ Current(b)[3] = sess[b].idx
      /\ ver[b] \in Nat /\ sess[b].idx \in Nat
  BY CurrentType DEF Inv, PassShape, TypeOK, Session, Version, Level
<1>2. Current(b) \in sess[b].held
  BY <1>1 DEF Shape, Placing
<1>3. Current(b) \notin sess[b].heard
  BY <1>1 DEF Shape, Placing
<1>4. sess[b].restarted => sess[b].ver > ver[b]
  BY <1>1 DEF Shape, Placing
<1>5. sess[b].ver >= ver[b]
  BY <1>1 DEF Shape, Placing
<1>6. owner[Current(b)] = NoBot \/ sess[b].restarted
  BY <1>2 DEF Safe, Keys, Deleted
<1>7. PICK k : k = Current(b)
  OBVIOUS
<1>8. k[2] >= ver[b] /\ ~(k[2] = ver[b] /\ owner[k] # NoBot) /\ k[2] \in Nat
  BY <1>1, <1>4, <1>5, <1>6, <1>7 DEF TypeOK, Inv, Session, Version
<1>9. ~Settled(k)
  BY <1>1, <1>3, <1>7, <1>8 DEF Settled
<1>10. QED
  BY <1>2, <1>7, <1>9

LEMMA PlaceAckSafe ==
    ASSUME Inv, Safe, NEW b \in Bots, PlaceAck(b)
    PROVE  Safe'
<1> DEFINE k == Current(b)
<1>t. /\ ver \in [Bots -> Version] /\ accepted \in [Cid -> Nat] /\ excused \in [Cid -> Nat]
      /\ sess \in [Bots -> Session] /\ at \in [Bots -> PassPoint] /\ open \subseteq Cid
  BY DEF Inv, TypeOK
<1>k. k \in Cid /\ Owner(k) = b
  BY CurrentType DEF Inv
<1>p. k \in sess[b].held /\ ~Settled(k)
  BY PlacingUnsettled DEF PlaceAck
<1>a. /\ accepted'[k] = accepted[k] + 1 /\ open' \in {open, open \cup {k}}
      /\ \A c \in Cid \ {k} : accepted'[c] = accepted[c]
  BY <1>k, AcceptType DEF PlaceAck, Inv
<1>u. UNCHANGED <<ver, owner, excused>>
  BY DEF PlaceAck, dbVars
<1>s. /\ sess'[b].held = sess[b].held /\ sess'[b].new = sess[b].new
      /\ sess'[b].heard = sess[b].heard \cup {k} /\ sess'[b].restarted = sess[b].restarted
      /\ \A d \in Bots \ {b} : sess'[d] = sess[d] /\ at'[d] = at[d]
      /\ at'[b] # "rcancel"
  BY <1>t DEF PlaceAck, Advance, Goto, Session
<1> HIDE DEF k
<1>1. Keys'
  <2>1. \A d \in Bots : sess'[d].held = sess[d].held /\ Deleted(d)' = Deleted(d)
    BY <1>s, <1>u DEF Deleted
  <2>2. QED
    BY <2>1, <1>u DEF Safe, Keys
<1>2. Found'
  <2>1. \A c \in Cid : (accepted[c] > 0 => accepted'[c] > 0) /\ Lost(c)' = Lost(c)
    BY <1>t, <1>k, <1>a, <1>u DEF Lost
  <2>2. accepted'[k] > 0
    BY <1>t, <1>k, <1>a
  <2>3. \A d \in Bots : sess'[d].held = sess[d].held /\ sess'[d].new = sess[d].new
    BY <1>s
  <2>4. \A c \in open' : c \in Cid /\ accepted'[c] > 0
    BY <1>t, <1>k, <1>a, <2>1, <2>2 DEF Safe, Found
  <2>5. QED
    BY <2>1, <2>3, <2>4 DEF Safe, Found
<1>3. Account'
  <2> SUFFICES ASSUME NEW c \in Cid
               PROVE  accepted'[c] <= excused'[c] + (IF Settled(c)' THEN 1 ELSE 0)
    BY DEF Account
  <2>1. accepted[c] <= excused[c] + (IF Settled(c) THEN 1 ELSE 0)
    BY DEF Safe, Account
  <2>2. CASE c = k
    <3>1. Settled(c)'
      BY <1>k, <1>s, <2>2 DEF Settled
    <3>2. QED
      BY <1>t, <1>a, <1>u, <1>p, <2>1, <2>2, <3>1
  <2>3. CASE c # k
    <3>1. Settled(c) => Settled(c)'
      BY <1>s, <1>u, CidParts DEF Settled
    <3>2. QED
      BY <1>t, <1>a, <1>u, <2>1, <2>3, <3>1
  <2>4. QED
    BY <2>2, <2>3
<1>4. NoneOwnOpen'
  <2> SUFFICES ASSUME NEW d \in Bots, at'[d] = "rcancel", NEW c \in open'
               PROVE  Owner(c) # d
    BY DEF NoneOwnOpen
  <2>1. d # b /\ at[d] = "rcancel"
    BY <1>s
  <2>2. QED
    BY <1>a, <1>k, <2>1 DEF Safe, NoneOwnOpen
<1>5. AdoptedOnlyLost'
  BY <1>u DEF Safe, AdoptedOnlyLost
<1>6. QED
  BY <1>1, <1>2, <1>3, <1>4, <1>5 DEF Safe

LEMMA InsertRowSafe ==
    ASSUME Inv, Safe, NEW b \in Bots, InsertRow(b)
    PROVE  Safe'
<1>t. /\ ver \in [Bots -> Version] /\ accepted \in [Cid -> Nat] /\ excused \in [Cid -> Nat]
      /\ sess \in [Bots -> Session]
  BY DEF Inv, TypeOK
<1>n. NextRows(b) \subseteq Cid
  BY <1>t DEF NextRows, Session
<1>1. PICK k \in NextRows(b) \ Seen(b) :
        /\ ~Taken(b, k)
        /\ sess' = [sess EXCEPT ![b].new = @ \ {k}, ![b].held = @ \cup {k}, ![b].wait = {}]
  BY DEF InsertRow
<1>k. k \in Cid
  BY <1>n
<1>s. /\ sess'[b].held = sess[b].held \cup {k} /\ sess'[b].new \subseteq sess[b].new
      /\ sess'[b].heard = sess[b].heard /\ sess'[b].restarted = sess[b].restarted
      /\ \A d \in Bots \ {b} : sess'[d] = sess[d]
  BY <1>t, <1>1 DEF Session
<1>u. UNCHANGED <<ver, owner, excused, open, accepted, at>>
  BY DEF InsertRow, dbVars, exVars
<1>2. \A d \in Bots : Deleted(d)' = Deleted(d) /\ sess'[d].heard = sess[d].heard
  BY <1>s, <1>u DEF Deleted
<1>3. \A d \in Bots \ {b} : k \notin sess[d].held
  BY <1>1 DEF Taken, Locked
<1>4. owner[k] = NoBot \/ k \in Deleted(b)
  BY <1>1, <1>k DEF Seen
<1>5. Keys'
  <2>1. \A d \in Bots : \A c \in sess'[d].held : owner'[c] = NoBot \/ c \in Deleted(d)'
    BY <1>2, <1>4, <1>s, <1>u DEF Safe, Keys
  <2>2. \A d, e \in Bots : d # e => sess'[d].held \cap sess'[e].held = {}
    BY <1>3, <1>s DEF Safe, Keys
  <2>3. QED
    BY <2>1, <2>2 DEF Keys
<1>6. ASSUME Owner(k) # b PROVE Lost(k)
  <2>1. k \in sess[b].new
    <3>1. sess[b].wait \subseteq sess[b].new
      BY DEF Inv, PassShape, Shape
    <3>2. QED
      BY <3>1, <1>1 DEF NextRows
  <2>2. accepted[k] > 0
    BY <1>6, <1>k, <2>1 DEF Safe, Found
  <2>3. Owner(k) \in Bots /\ sess[Owner(k)].heard \subseteq sess[Owner(k)].held
    BY <1>k, CidParts DEF Inv, PassShape, Shape
  <2>4. k \notin sess[Owner(k)].heard
    BY <1>3, <1>6, <2>3
  <2>5. owner[k] = NoBot \/ owner[k] = b
    BY <1>4 DEF Deleted
  <2>6. CASE owner[k] = b
    BY <1>6, <1>k, <2>6, BotsAssumption DEF Safe, AdoptedOnlyLost, Lost
  <2>7. CASE owner[k] = NoBot
    <3>1. Settled(k) => k[2] < ver[Owner(k)]
      BY <2>4, <2>7 DEF Settled
    <3>2. accepted[k] <= excused[k] + (IF Settled(k) THEN 1 ELSE 0)
      BY <1>k DEF Safe, Account
    <3>3. QED
      BY <1>t, <1>k, <2>2, <3>1, <3>2 DEF Lost
  <2>8. QED
    BY <2>5, <2>6, <2>7
<1>7. \A c \in Cid : Lost(c)' = Lost(c)
  BY <1>u DEF Lost
<1>8. Found'
  BY <1>6, <1>7, <1>s, <1>u DEF Safe, Found
<1>9. \A c \in Cid : Settled(c)' = Settled(c)
  BY <1>2, <1>u, CidParts DEF Settled
<1>10. Account' /\ NoneOwnOpen' /\ AdoptedOnlyLost'
  BY <1>9, <1>u DEF Safe, Account, NoneOwnOpen, AdoptedOnlyLost
<1>11. QED
  BY <1>5, <1>8, <1>10 DEF Safe

LEMMA CommitSafe ==
    ASSUME Inv, Safe, NEW b \in Bots, CommitPass(b)
    PROVE  Safe'
<1> DEFINE S == {c \in Deleted(b) \ sess[b].held : Owner(c) # b}
<1>t. /\ ver \in [Bots -> Version] /\ accepted \in [Cid -> Nat] /\ excused \in [Cid -> Nat]
      /\ sess \in [Bots -> Session] /\ owner \in [Cid -> Bots \cup {NoBot}]
      /\ sess[b].held \subseteq Cid /\ Deleted(b) \subseteq Cid
  BY SessionSets DEF Inv, TypeOK, Deleted
<1>u. UNCHANGED <<open, accepted>>
  BY DEF CommitPass, exVars
<1>o. \A c \in Cid : owner'[c] = IF c \in sess[b].held THEN b
                               ELSE IF c \in Deleted(b) THEN NoBot ELSE owner[c]
  BY DEF CommitPass
<1>v. ver'[b] = sess[b].ver /\ \A d \in Bots \ {b} : ver'[d] = ver[d]
  BY <1>t DEF CommitPass
<1>w. /\ sess[b].ver = ver[b] + (IF sess[b].restarted THEN 1 ELSE 0)
      /\ \A c \in sess[b].heard : c[2] = sess[b].ver /\ c \in sess[b].held
  BY DEF CommitPass, Inv, PassShape, Shape
<1>e. \A c \in Cid : excused'[c] = IF c \in S THEN excused[c] + 1 ELSE excused[c]
  BY DEF CommitPass, Excuse
<1>s. sess'[b] = NoSession /\ \A d \in Bots \ {b} : sess'[d] = sess[d]
  BY <1>t DEF CommitPass, RollBack
<1>a. at'[b] = "idle" /\ \A d \in Bots \ {b} : at'[d] = at[d]
  BY DEF CommitPass, RollBack, Goto, Inv, TypeOK
<1>c. \A c \in Cid : Owner(c) \in Bots /\ c[2] \in Nat
  BY CidParts DEF Version
<1>r. \A d \in Bots : ver[d] \in Nat /\ ver'[d] \in Nat /\ ver'[d] >= ver[d]
  BY <1>t, <1>v, <1>w DEF Version
<1>n. NoSession.held = {} /\ NoSession.heard = {} /\ NoSession.new = {} /\ ~NoSession.restarted
  BY DEF NoSession
<1>1. Keys'
  <2>1. ASSUME NEW d \in Bots \ {b}, NEW c \in sess[d].held
        PROVE  owner'[c] = NoBot \/ c \in Deleted(d)'
    <3>1. c \in Cid /\ c \notin sess[b].held /\ (owner[c] = NoBot \/ c \in Deleted(d))
      BY SessionSets, <2>1 DEF Inv, Safe, Keys
    <3>2. c \notin Deleted(b) /\ owner'[c] = owner[c]
      BY <1>o, <3>1, BotsAssumption DEF Deleted
    <3>3. QED
      BY <1>s, <3>1, <3>2 DEF Deleted
  <2>2. \A d, e \in Bots : d # e => sess'[d].held \cap sess'[e].held = {}
    BY <1>s, <1>n DEF Safe, Keys
  <2>3. QED
    BY <1>s, <1>n, <2>1, <2>2 DEF Keys
<1>2. \A c \in Cid : Lost(c) => Lost(c)'
  BY <1>t, <1>c, <1>e, <1>r DEF Lost
<1>3. Found'
  BY <1>2, <1>u, <1>s, <1>n DEF Safe, Found
<1>4. Account'
  <2> SUFFICES ASSUME NEW c \in Cid
               PROVE  accepted'[c] <= excused'[c] + (IF Settled(c)' THEN 1 ELSE 0)
    BY DEF Account
  <2>1. accepted[c] <= excused[c] + (IF Settled(c) THEN 1 ELSE 0)
    BY DEF Safe, Account
  <2>2. CASE c \in S
    BY <1>t, <1>u, <1>e, <2>1, <2>2
  <2>3. CASE c \notin S /\ Owner(c) # b
    <3>1. Settled(c) => Settled(c)'
      BY <1>c, <1>o, <1>s, <1>v, <2>3, BotsAssumption DEF Settled
    <3>2. QED
      BY <1>t, <1>u, <1>e, <2>1, <2>3, <3>1
  <2>4. CASE c \notin S /\ Owner(c) = b
    <3>1. CASE c \in sess[b].heard
      <4>1. Settled(c)'
        BY <1>o, <1>v, <1>w, <2>4, <3>1, BotsAssumption DEF Settled
      <4>2. QED
        BY <1>t, <1>u, <1>e, <2>1, <2>4, <4>1
    <3>2. CASE c[2] < ver[b]
      <4>1. Settled(c)'
        BY <1>c, <1>r, <2>4, <3>2 DEF Settled
      <4>2. QED
        BY <1>t, <1>u, <1>e, <2>1, <2>4, <4>1
    <3>3. CASE c[2] = ver[b] /\ owner[c] # NoBot
      <4>1. CASE sess[b].restarted
        <5>1. c[2] < ver'[b]
          BY <1>r, <1>v, <1>w, <3>3, <4>1
        <5>2. Settled(c)'
          BY <2>4, <5>1 DEF Settled
        <5>3. QED
          BY <1>t, <1>u, <1>e, <2>1, <2>4, <5>2
      <4>2. CASE ~sess[b].restarted
        <5>1. owner'[c] # NoBot /\ c[2] = ver'[b]
          BY <1>o, <1>r, <1>v, <1>w, <3>3, <4>2, BotsAssumption DEF Deleted
        <5>2. Settled(c)'
          BY <2>4, <5>1 DEF Settled
        <5>3. QED
          BY <1>t, <1>u, <1>e, <2>1, <2>4, <5>2
      <4>3. QED
        BY <4>1, <4>2
    <3>4. CASE ~Settled(c)
      BY <1>t, <1>u, <1>e, <2>1, <2>4, <3>4
    <3>5. QED
      BY <2>4, <3>1, <3>2, <3>3, <3>4 DEF Settled
  <2>5. QED
    BY <2>2, <2>3, <2>4
<1>5. NoneOwnOpen'
  BY <1>a, <1>u DEF Safe, NoneOwnOpen
<1>6. AdoptedOnlyLost'
  <2> SUFFICES ASSUME NEW c \in Cid, owner'[c] \notin {NoBot, Owner(c)}
               PROVE  Lost(c)'
    BY DEF AdoptedOnlyLost, Lost
  <2>1. Lost(c)
    <3>1. CASE c \in sess[b].held
      BY <1>o, <3>1 DEF Safe, Found
    <3>2. CASE c \notin sess[b].held
      BY <1>o, <3>2 DEF Safe, AdoptedOnlyLost, Lost
    <3>3. QED
      BY <3>1, <3>2
  <2>2. QED
    BY <1>2, <2>1
<1>7. QED
  BY <1>1, <1>3, <1>4, <1>5, <1>6 DEF Safe

LEMMA NextSafe == Inv /\ Safe /\ [Next]_vars => Safe'
<1> SUFFICES ASSUME Inv, Safe, [Next]_vars PROVE Safe'
  OBVIOUS
<1> USE DEF dbVars, exVars
<1>s. /\ sess \in [Bots -> Session] /\ at \in [Bots -> PassPoint] /\ open \subseteq Cid
      /\ accepted \in [Cid -> Nat]
  BY DEF Inv, TypeOK
<1>f. \A c \in open : accepted[c] > 0
  BY DEF Safe, Found
<1>1. CASE UNCHANGED vars
  BY <1>1, QuietSafe DEF vars, Safe, NoneOwnOpen
<1>2. ASSUME NEW b \in Bots, BeginPass(b) PROVE Safe'
  <2>1. sess'[b].held = {} /\ sess'[b].heard = {} /\ sess'[b].new = {}
        /\ \A d \in Bots \ {b} : sess'[d] = sess[d] /\ at'[d] = at[d]
    BY <1>2, <1>s DEF BeginPass, NoSession, Goto
  <2>2. sess[b] = NoSession /\ at'[b] = "sync"
    BY <1>2, <1>s DEF BeginPass, Goto, Inv, PassShape, Shape
  <2>3. sess[b].held = {} /\ sess[b].heard = {} /\ ~sess[b].restarted
    BY <2>2 DEF NoSession
  <2>4. NoneOwnOpen'
    BY <1>2, <2>1, <2>2 DEF BeginPass, Safe, NoneOwnOpen
  <2>5. QED
    BY <1>2, <2>1, <2>3, <2>4, QuietSafe DEF BeginPass
<1>3. ASSUME NEW b \in Bots, Sync(b) PROVE Safe'
  <2>1. /\ sess'[b].held = sess[b].held /\ sess'[b].heard = sess[b].heard
        /\ sess'[b].restarted = sess[b].restarted /\ sess'[b].new \subseteq open
        /\ \A d \in Bots \ {b} : sess'[d] = sess[d] /\ at'[d] = at[d]
        /\ at'[b] # "rcancel"
    BY <1>3, <1>s DEF Sync, Goto, Session
  <2>2. NoneOwnOpen'
    BY <1>3, <2>1 DEF Sync, Safe, NoneOwnOpen
  <2>3. QED
    BY <1>3, <1>f, <2>1, <2>2, QuietSafe DEF Sync
<1>4. ASSUME NEW b \in Bots, RestartReadsPosition(b) \/ RestartReadsOrders(b) PROVE Safe'
  <2>1. NoneOwnOpen'
    BY <1>4, <1>s DEF RestartReadsPosition, RestartReadsOrders, Goto, Safe, NoneOwnOpen
  <2>2. QED
    BY <1>4, <2>1, QuietSafe DEF RestartReadsPosition, RestartReadsOrders
<1>5. ASSUME NEW b \in Bots, RestartGrid(b) PROVE Safe'
  <2>1. /\ sess'[b].held = sess[b].held /\ sess'[b].heard = sess[b].heard
        /\ sess'[b].restarted /\ sess'[b].new = sess[b].new
        /\ \A d \in Bots \ {b} : sess'[d] = sess[d]
    BY <1>5, <1>s DEF RestartGrid, Session
  <2>2. NoneOwnOpen'
    BY <1>5 DEF RestartGrid, NoneOwnOpen
  <2>3. QED
    BY <1>5, <2>1, <2>2, QuietSafe DEF RestartGrid
<1>6. ASSUME NEW b \in Bots, SkipRecorded(b) \/ WaitForKey(b) PROVE Safe'
  <2>1. /\ sess'[b].held = sess[b].held /\ sess'[b].heard = sess[b].heard
        /\ sess'[b].restarted = sess[b].restarted /\ sess'[b].new = sess[b].new
        /\ \A d \in Bots \ {b} : sess'[d] = sess[d] /\ at'[d] = at[d]
        /\ at'[b] # "rcancel"
    BY <1>6, <1>s DEF SkipRecorded, WaitForKey, Flushing, Advance, Goto, Session
  <2>2. NoneOwnOpen'
    BY <1>6, <2>1 DEF SkipRecorded, WaitForKey, Safe, NoneOwnOpen
  <2>3. QED
    BY <1>6, <2>1, <2>2, QuietSafe DEF SkipRecorded, WaitForKey
<1>7. ASSUME NEW b \in Bots, AddRow(b) PROVE Safe'
  <2>1. CASE PassFails(b)
    BY <1>7, <2>1, FailsSafe DEF AddRow
  <2>2. CASE sess' = [sess EXCEPT ![b].new = @ \cup {Current(b)}]
             /\ Goto(b, "place") /\ UNCHANGED excused
    <3>1. /\ sess'[b].held = sess[b].held /\ sess'[b].heard = sess[b].heard
          /\ sess'[b].restarted = sess[b].restarted
          /\ sess'[b].new \ sess[b].new \subseteq {Current(b)}
          /\ \A d \in Bots \ {b} : sess'[d] = sess[d] /\ at'[d] = at[d]
          /\ at'[b] # "rcancel"
      BY <1>s, <2>2 DEF Goto, Session
    <3>2. NoneOwnOpen'
      BY <1>7, <3>1 DEF AddRow, Safe, NoneOwnOpen
    <3>3. Owner(Current(b)) = b
      BY CurrentType DEF Inv
    <3>4. QED
      BY <1>7, <2>2, <3>1, <3>2, <3>3, QuietSafe DEF AddRow
  <2>3. QED
    BY <1>7, <2>1, <2>2 DEF AddRow
<1>8. ASSUME NEW b \in Bots,
             \/ InsertConflicts(b) \/ DeadlockAborts(b) \/ SupervisorCancel(b)
             \/ PlaceRejected(b) \/ CallFails(b)
      PROVE  Safe'
  <2>1. PassFails(b) /\ UNCHANGED <<ver, owner, accepted>> /\ open' \subseteq open
    BY <1>8 DEF InsertConflicts, DeadlockAborts, SupervisorCancel, PlaceRejected, CallFails
  <2>2. QED
    BY <2>1, FailsSafe
<1>9. ASSUME NEW b \in Bots, PlaceLost(b) PROVE Safe'
  <2>1. PICK k \in Cid : k = Current(b) /\ Owner(k) = b
    BY CurrentType DEF Inv
  <2>2. ~Settled(k)
    BY <1>9, <2>1, PlacingUnsettled DEF PlaceLost
  <2>3. /\ accepted' \in [Cid -> Nat] /\ accepted'[k] = accepted[k] + 1
        /\ open' \subseteq Cid /\ open' \in {open, open \cup {k}}
        /\ \A c \in Cid \ {k} : accepted'[c] = accepted[c]
    BY <1>9, <2>1, AcceptType DEF PlaceLost, Inv
  <2>4. PICK S \in SUBSET Cid : S = sess[b].heard \cup {k}
    BY SessionSets DEF Inv
  <2>5. Excuse(S) /\ k \in S
    BY <1>9, <2>1, <2>4 DEF PlaceLost, Excuse
  <2>6. {b} \in SUBSET Bots
        /\ \A c \in Cid : Owner(c) \in {b} /\ c \in sess[Owner(c)].heard => c \in S
    BY <2>4
  <2>7. \A d \in Bots : IF d \in {b} THEN sess'[d] = NoSession /\ at'[d] = "idle"
                                    ELSE sess'[d] = sess[d] /\ at'[d] = at[d]
    BY <1>9, <1>s DEF PlaceLost, RollBack, Goto
  <2>8. \A c \in Cid : /\ accepted'[c] \in Nat /\ accepted'[c] >= accepted[c]
                       /\ accepted'[c] > accepted[c] =>
                            c \in S /\ accepted'[c] = accepted[c] + 1 /\ ~Settled(c)
    BY <1>s, <2>2, <2>3, <2>5
  <2>9. \A c \in open' \ open : accepted'[c] > 0 /\ Owner(c) \in {b}
    BY <1>s, <2>1, <2>3
  <2>10. QED
    BY <1>9, <2>3, <2>5, <2>6, <2>7, <2>8, <2>9, EndSafe DEF PlaceLost
<1>10. CASE EngineCrash
  <2>1. PICK S \in SUBSET Cid : S = UNION {sess[b].heard : b \in Bots}
    BY SessionSets DEF Inv
  <2>2. Excuse(S)
    BY <1>10, <2>1 DEF EngineCrash, Excuse
  <2>3. \A c \in Cid : Owner(c) \in Bots /\ c \in sess[Owner(c)].heard => c \in S
    BY <2>1
  <2>4. \A c \in Cid : accepted'[c] \in Nat /\ accepted'[c] = accepted[c]
    BY <1>10, <1>s DEF EngineCrash
  <2>5. \A d \in Bots : IF d \in Bots THEN sess'[d] = NoSession /\ at'[d] = "idle"
                                     ELSE sess'[d] = sess[d] /\ at'[d] = at[d]
    BY <1>10 DEF EngineCrash
  <2>6. \A c \in Cid : /\ accepted'[c] \in Nat /\ accepted'[c] >= accepted[c]
                       /\ ~(accepted'[c] > accepted[c])
    BY <2>4
  <2>7. open' = open /\ open' \subseteq Cid /\ ver' = ver /\ owner' = owner
        /\ Bots \in SUBSET Bots
    BY <1>10, <1>s DEF EngineCrash
  <2>8. QED
    BY <2>2, <2>3, <2>5, <2>6, <2>7, EndSafe
<1>11. CASE Fill \/ Flatten \/ EngineStarts
  <2>1. NoneOwnOpen'
    BY <1>11 DEF Fill, Flatten, EngineStarts, Safe, NoneOwnOpen
  <2>2. QED
    BY <1>11, <2>1, QuietSafe DEF Fill, Flatten, EngineStarts
<1>12. ASSUME NEW b \in Bots, StopStep(b) PROVE Safe'
  <2>1. NoneOwnOpen'
    BY <1>12 DEF StopStep, StopCancels, CommitStop, StopFails, Safe, NoneOwnOpen
  <2>2. QED
    BY <1>12, <2>1, QuietSafe DEF StopStep, StopCancels, CommitStop, StopFails
<1>13. QED
  BY <1>1, <1>2, <1>3, <1>4, <1>5, <1>6, <1>7, <1>8, <1>9, <1>10, <1>11, <1>12,
     PlaceAckSafe, InsertRowSafe, CommitSafe
  DEF Next, PassStep

-----------------------------------------------------------------------------
(* The theorems.                                                           *)

\* The inductive invariant holds, whatever the number of bots and of failures.
THEOREM Invariant == Spec => [](Inv /\ Safe)
<1>1. Init => Inv /\ Safe
  BY InitInv, InitSafe
<1>2. Inv /\ Safe /\ [Next]_vars => (Inv /\ Safe)'
  BY NextInv, NextSafe
<1>3. QED
  BY <1>1, <1>2, PTL DEF Spec

\* The exchange takes an id again only as often as its acceptance was lost.
THEOREM NoDuplicates == Spec => []DuplicatesAccounted
<1>1. Inv /\ Safe => DuplicatesAccounted
  <2> SUFFICES ASSUME Inv, Safe, NEW c \in Cid PROVE accepted[c] <= 1 + excused[c]
    BY DEF DuplicatesAccounted
  <2>1. accepted[c] \in Nat /\ excused[c] \in Nat
    BY DEF Inv, TypeOK
  <2>2. accepted[c] <= excused[c] + (IF Settled(c) THEN 1 ELSE 0)
    BY DEF Safe, Account
  <2>3. QED
    BY <2>1, <2>2
<1>2. QED
  BY <1>1, Invariant, PTL

\* A sync adopts for good only what another bot's pass has lost.
THEOREM AdoptedLost == Spec => []AdoptedOnlyLost
<1>1. Inv /\ Safe => AdoptedOnlyLost
  BY DEF Safe
<1>2. QED
  BY <1>1, Invariant, PTL

\* What one step may send: nothing that has a row, but by its own restart.
LEMMA StepNotResent ==
    ASSUME Inv, Safe, [Next]_vars, NEW c \in Cid,
           accepted'[c] > accepted[c], owner[c] # NoBot
    PROVE  sess[Owner(c)].restarted /\ owner[c] = Owner(c)
<1>1. accepted \in [Cid -> Nat]
  BY DEF Inv, TypeOK
<1>2. PICK b \in Bots : PlaceAck(b) \/ PlaceLost(b)
  <2> USE DEF exVars
  <2>1. accepted' # accepted
    BY <1>1
  <2>2. ~UNCHANGED vars /\ ~EngineCrash /\ ~EngineStarts /\ ~Fill /\ ~Flatten
    BY <2>1 DEF vars, EngineCrash, EngineStarts, Fill, Flatten
  <2>3. ASSUME NEW b \in Bots PROVE ~SupervisorCancel(b) /\ ~StopStep(b)
    BY <2>1 DEF SupervisorCancel, StopStep, StopCancels, CommitStop, StopFails
  <2>4. ASSUME NEW b \in Bots, PassStep(b) PROVE PlaceAck(b) \/ PlaceLost(b)
    BY <2>1, <2>4
    DEF PassStep, BeginPass, Sync, RestartReadsPosition, RestartReadsOrders, RestartGrid,
        SkipRecorded, AddRow, WaitForKey, InsertRow, InsertConflicts, DeadlockAborts,
        PlaceRejected, CallFails, CommitPass
  <2>5. QED
    BY <2>2, <2>3, <2>4 DEF Next
<1>3. Placing(b) /\ Accept(Current(b)) /\ Current(b) \in Cid /\ Owner(Current(b)) = b
  BY <1>2, CurrentType DEF PlaceAck, PlaceLost, Inv
<1>4. c = Current(b)
  BY <1>1, <1>3, AcceptType DEF Inv
<1>5. c \in sess[b].held
  BY <1>3, <1>4, PlacingUnsettled
<1>6. c \in Deleted(b)
  BY <1>5 DEF Safe, Keys
<1>7. QED
  BY <1>3, <1>4, <1>6 DEF Deleted

\* A recorded order is not sent again.
THEOREM NotResent == Spec => RecordedNotResent
<1> DEFINE A == \A c \in Cid : accepted'[c] > accepted[c] /\ owner[c] # NoBot
                               => sess[Owner(c)].restarted /\ owner[c] = Owner(c)
<1>1. Inv /\ Safe /\ [Next]_vars => [A]_vars
  BY StepNotResent
<1>2. QED
  BY <1>1, Invariant, PTL DEF Spec, RecordedNotResent

\* A restart's cancel_all_orders finds other bots' orders only.
THEOREM RestartSparesOwn == Spec => RestartCancelsOnlyOthers
<1> DEFINE A == \A b \in Bots : RestartGrid(b) => \A c \in open : Owner(c) # b
<1>1. Inv /\ Safe => A
  BY DEF Safe, NoneOwnOpen, RestartGrid
<1>2. QED
  BY <1>1, Invariant, PTL DEF Spec, RestartCancelsOnlyOthers

-----------------------------------------------------------------------------
(* Rows stand for orders.                                                  *)

\* What a session holds, of one bot.
Stands(b) ==
    /\ \A c \in sess[b].new \cup sess[b].held : accepted[c] > 0 \/ Sending(b, c)
    /\ \A c \in sess[b].heard : accepted[c] > 0

LEMMA InitBacked == Init => Backed
BY DEF Init, Backed, NoSession

\* A step that commits nothing and forgets no acceptance: only the sessions it
\* changes matter.
LEMMA StepBacked ==
    ASSUME Inv, Backed, owner' = owner,
           \A c \in Cid : accepted[c] > 0 => accepted'[c] > 0,
           \A b \in Bots : (sess'[b] = sess[b] /\ at'[b] = at[b]) \/ Stands(b)'
    PROVE  Backed'
<1>1. \A c \in Cid : owner'[c] # NoBot => accepted'[c] > 0
  BY DEF Backed
<1>2. ASSUME NEW b \in Bots, sess'[b] = sess[b], at'[b] = at[b] PROVE Stands(b)'
  <2>1. /\ sess[b].new \subseteq Cid /\ sess[b].held \subseteq Cid
        /\ sess[b].heard \subseteq Cid
    BY SessionSets DEF Inv
  <2>2. QED
    BY <1>2, <2>1 DEF Backed, Stands, Sending, Current
<1>3. QED
  BY <1>1, <1>2 DEF Backed, Stands

\* Outside of place_order a session has no row without an order.
LEMMA NotSending ==
    ASSUME Inv, Backed, NEW b \in Bots, at[b] # "place",
           NEW c \in sess[b].new \cup sess[b].held
    PROVE  c \in Cid /\ accepted[c] > 0
BY SessionSets DEF Inv, Backed, Sending

LEMMA NextBacked == Inv /\ Safe /\ Backed /\ [Next]_vars => Backed'
<1> SUFFICES ASSUME Inv, Safe, Backed, [Next]_vars PROVE Backed'
  OBVIOUS
<1> USE DEF dbVars, exVars
<1>s. /\ sess \in [Bots -> Session] /\ at \in [Bots -> PassPoint]
      /\ accepted \in [Cid -> Nat] /\ \A b \in Bots : Shape(b)
  BY DEF Inv, TypeOK, PassShape
<1>n. NoSession.held = {} /\ NoSession.heard = {} /\ NoSession.new = {}
  BY DEF NoSession
<1>1. ASSUME UNCHANGED <<owner, accepted, at, sess>> PROVE Backed'
  BY <1>1, StepBacked
<1>2. ASSUME NEW b \in Bots, RollBack(b), owner' = owner,
             \A c \in Cid : accepted[c] > 0 => accepted'[c] > 0
      PROVE  Backed'
  <2>1. sess'[b] = NoSession /\ \A d \in Bots \ {b} : sess'[d] = sess[d] /\ at'[d] = at[d]
    BY <1>2, <1>s DEF RollBack, Goto
  <2>2. Stands(b)'
    BY <1>n, <2>1 DEF Stands
  <2>3. QED
    BY <1>2, <2>1, <2>2, StepBacked
<1>3. ASSUME NEW b \in Bots, BeginPass(b) PROVE Backed'
  <2>1. /\ sess'[b].held = {} /\ sess'[b].heard = {} /\ sess'[b].new = {}
        /\ \A d \in Bots \ {b} : sess'[d] = sess[d] /\ at'[d] = at[d]
    BY <1>3, <1>s DEF BeginPass, Goto, NoSession
  <2>2. Stands(b)'
    BY <2>1 DEF Stands
  <2>3. QED
    BY <1>3, <2>1, <2>2, StepBacked DEF BeginPass
<1>4. ASSUME NEW b \in Bots, Sync(b) PROVE Backed'
  <2>1. sess[b].held = {} /\ sess[b].heard = {}
    BY <1>4, <1>s DEF Sync, Shape
  <2>2. /\ sess'[b].held = {} /\ sess'[b].heard = {} /\ sess'[b].new \subseteq open
        /\ \A d \in Bots \ {b} : sess'[d] = sess[d] /\ at'[d] = at[d]
    BY <1>4, <1>s, <2>1 DEF Sync, Goto, Session
  <2>3. accepted' = accepted /\ owner' = owner
    BY <1>4 DEF Sync
  <2>4. Stands(b)'
    BY <2>2, <2>3 DEF Stands, Safe, Found
  <2>5. QED
    BY <2>2, <2>3, <2>4, StepBacked
<1>5. ASSUME NEW b \in Bots,
             \/ RestartReadsPosition(b) \/ RestartReadsOrders(b) \/ RestartGrid(b)
             \/ SkipRecorded(b)
      PROVE  Backed'
  <2>1. /\ sess'[b].held = sess[b].held /\ sess'[b].heard = sess[b].heard
        /\ sess'[b].new = sess[b].new
        /\ \A d \in Bots \ {b} : sess'[d] = sess[d] /\ at'[d] = at[d]
    BY <1>5, <1>s
    DEF RestartReadsPosition, RestartReadsOrders, RestartGrid, SkipRecorded, Advance, Goto, Session
  <2>2. at[b] # "place" /\ accepted' = accepted /\ owner' = owner
    BY <1>5 DEF RestartReadsPosition, RestartReadsOrders, RestartGrid, SkipRecorded
  <2>3. Stands(b)'
    BY <2>1, <2>2, NotSending DEF Backed, Stands
  <2>4. QED
    BY <2>1, <2>2, <2>3, StepBacked
<1>6. ASSUME NEW b \in Bots, AddRow(b) PROVE Backed'
  <2>1. CASE PassFails(b)
    BY <1>2, <1>6, <2>1 DEF AddRow, PassFails
  <2>2. CASE sess' = [sess EXCEPT ![b].new = @ \cup {Current(b)}]
             /\ Goto(b, "place") /\ UNCHANGED excused
    <3>1. /\ sess'[b].held = sess[b].held /\ sess'[b].heard = sess[b].heard
          /\ sess'[b].new = sess[b].new \cup {Current(b)} /\ at'[b] = "place"
          /\ sess'[b].ver = sess[b].ver /\ sess'[b].idx = sess[b].idx
          /\ \A d \in Bots \ {b} : sess'[d] = sess[d] /\ at'[d] = at[d]
      BY <1>s, <2>2 DEF Goto, Session
    <3>2. at[b] # "place" /\ accepted' = accepted /\ owner' = owner
      BY <1>6 DEF AddRow
    <3>3. Current(b)' = Current(b)
      BY <3>1 DEF Current
    <3>4. Stands(b)'
      BY <3>1, <3>2, <3>3, NotSending DEF Backed, Stands, Sending
    <3>5. QED
      BY <3>1, <3>2, <3>4, StepBacked
  <2>3. QED
    BY <1>6, <2>1, <2>2 DEF AddRow
<1>7. ASSUME NEW b \in Bots, WaitForKey(b) \/ InsertRow(b) PROVE Backed'
  <2>1. NextRows(b) \subseteq sess[b].new
    BY <1>s DEF Shape, NextRows
  <2>2. /\ sess'[b].new \cup sess'[b].held \subseteq sess[b].new \cup sess[b].held
        /\ sess'[b].heard = sess[b].heard
        /\ sess'[b].ver = sess[b].ver /\ sess'[b].idx = sess[b].idx
        /\ \A d \in Bots \ {b} : sess'[d] = sess[d]
    <3>1. CASE WaitForKey(b)
      BY <1>s, <3>1 DEF WaitForKey, Session
    <3>2. CASE InsertRow(b)
      <4>1. PICK k \in sess[b].new :
              sess' = [sess EXCEPT ![b].new = @ \ {k}, ![b].held = @ \cup {k}, ![b].wait = {}]
        BY <2>1, <3>2 DEF InsertRow
      <4>2. sess'[b].new = sess[b].new \ {k} /\ sess'[b].held = sess[b].held \cup {k}
            /\ sess'[b].heard = sess[b].heard
            /\ sess'[b].ver = sess[b].ver /\ sess'[b].idx = sess[b].idx
        BY <1>s, <4>1 DEF Session
      <4>3. QED
        BY <1>s, <4>1, <4>2
    <3>3. QED
      BY <1>7, <3>1, <3>2
  <2>3. UNCHANGED <<owner, accepted, at>>
    BY <1>7 DEF WaitForKey, InsertRow
  <2>4. Stands(b)'
    BY <2>2, <2>3 DEF Backed, Stands, Sending, Current
  <2>5. QED
    BY <2>2, <2>3, <2>4, StepBacked
<1>8. ASSUME NEW b \in Bots,
             \/ InsertConflicts(b) \/ DeadlockAborts(b) \/ SupervisorCancel(b)
             \/ PlaceRejected(b) \/ CallFails(b)
      PROVE  Backed'
  BY <1>2, <1>8
  DEF InsertConflicts, DeadlockAborts, SupervisorCancel, PlaceRejected, CallFails, PassFails
<1>9. ASSUME NEW b \in Bots, PlaceAck(b) \/ PlaceLost(b) PROVE Backed'
  <2>1. PICK k \in Cid : k = Current(b) /\ Owner(k) = b
    BY CurrentType DEF Inv
  <2>2. /\ accepted'[k] = accepted[k] + 1 /\ owner' = owner
        /\ \A c \in Cid \ {k} : accepted'[c] = accepted[c]
    BY <1>9, <2>1, AcceptType DEF PlaceAck, PlaceLost, Inv
  <2>3. accepted'[k] > 0 /\ \A c \in Cid : accepted[c] > 0 => accepted'[c] > 0
    BY <1>s, <2>1, <2>2
  <2>4. CASE PlaceLost(b)
    BY <1>2, <2>2, <2>3, <2>4 DEF PlaceLost
  <2>5. CASE PlaceAck(b)
    <3>1. /\ sess'[b].held = sess[b].held /\ sess'[b].new = sess[b].new
          /\ sess'[b].heard = sess[b].heard \cup {k}
          /\ \A d \in Bots \ {b} : sess'[d] = sess[d] /\ at'[d] = at[d]
      BY <1>s, <2>1, <2>5 DEF PlaceAck, Advance, Goto, Session
    <3>2. \A c \in sess[b].new \cup sess[b].held : c \in Cid /\ accepted'[c] > 0
      BY <2>1, <2>3, SessionSets DEF Inv, Backed, Sending
    <3>3. \A c \in sess[b].heard : accepted'[c] > 0
      BY <2>3, SessionSets DEF Inv, Backed
    <3>4. Stands(b)'
      BY <2>3, <3>1, <3>2, <3>3 DEF Stands
    <3>5. QED
      BY <2>2, <2>3, <3>1, <3>4, StepBacked
  <2>6. QED
    BY <1>9, <2>4, <2>5
<1>10. ASSUME NEW b \in Bots, CommitPass(b) PROVE Backed'
  <2>1. /\ \A c \in Cid : owner'[c] = IF c \in sess[b].held THEN b
                                      ELSE IF c \in Deleted(b) THEN NoBot ELSE owner[c]
        /\ accepted' = accepted /\ at[b] # "place"
    BY <1>10 DEF CommitPass
  <2>2. sess'[b] = NoSession /\ \A d \in Bots \ {b} : sess'[d] = sess[d] /\ at'[d] = at[d]
    BY <1>10, <1>s DEF CommitPass, RollBack, Goto
  <2>3. \A c \in Cid : owner'[c] # NoBot => accepted'[c] > 0
    BY <2>1, NotSending DEF Backed
  <2>4. \A d \in Bots : Stands(d)'
    <3>1. Stands(b)'
      BY <1>n, <2>2 DEF Stands
    <3>2. ASSUME NEW d \in Bots \ {b} PROVE Stands(d)'
      BY <2>1, <2>2 DEF Backed, Stands, Sending, Current
    <3>3. QED
      BY <3>1, <3>2
  <2>5. QED
    BY <2>3, <2>4 DEF Backed, Stands
<1>11. CASE EngineCrash
  <2>1. owner' = owner /\ accepted' = accepted /\ \A b \in Bots : sess'[b] = NoSession
    BY <1>11 DEF EngineCrash
  <2>2. \A b \in Bots : Stands(b)'
    BY <1>n, <2>1 DEF Stands
  <2>3. QED
    BY <2>1, <2>2, StepBacked
<1>12. CASE UNCHANGED vars \/ Fill \/ Flatten \/ EngineStarts \/ \E b \in Bots : StopStep(b)
  BY <1>1, <1>12 DEF vars, Fill, Flatten, EngineStarts, StopStep, StopCancels, CommitStop, StopFails
<1>13. QED
  BY <1>3, <1>4, <1>5, <1>6, <1>7, <1>8, <1>9, <1>10, <1>11, <1>12 DEF Next, PassStep

\* Whatever the bots do to each other's rows, each row stands for an order.
THEOREM RowsBacked == Spec => []Backed
<1>1. Inv /\ Safe /\ Backed /\ [Next]_vars => Backed'
  BY NextBacked
<1>2. QED
  BY <1>1, InitBacked, Invariant, PTL DEF Spec

-----------------------------------------------------------------------------
(* The bots on a symbol, together, implement OrderLedger.                  *)

\* Booked orders of grids that some pass has given up and not committed.
Leaving == UNION {Deleted(b) : b \in Bots}

\* The orders of S may be repeated: the exchange has them, and they have no row
\* but in a grid that is given up.
LEMMA SharedExcuse ==
    ASSUME Inv, Inv', NEW S, Excuse(S), \A c \in Cid : c \in S => accepted'[c] > 0,
           \A c \in Cid : c \in S /\ owner[c] # NoBot => c \in Leaving
    PROVE  Ledger!Excuse
<1>1. excused' \in [Cid -> Nat]
  BY DEF Inv, TypeOK
<1>2. \A c \in Cid : excused'[c] = IF c \in S THEN excused[c] + 1 ELSE excused[c]
  BY DEF Excuse
<1>3. QED
  BY <1>1, <1>2 DEF Ledger!Excuse, Leaving

\* Nothing is excused, if nobody is.
LEMMA NoneExcused ==
    ASSUME Inv, excused' = excused
    PROVE  Ledger!Excuse
BY DEF Ledger!Excuse, Inv, TypeOK

\* A step that leaves the book and what each session has deleted alone, and
\* accepts and excuses nothing.
LEMMA SharedStutter ==
    ASSUME UNCHANGED <<owner, accepted, excused>>,
           \A b \in Bots : sess'[b].restarted = sess[b].restarted
    PROVE  UNCHANGED Ledger!vars
<1>1. Leaving' = Leaving
  BY DEF Leaving, Deleted
<1>2. QED
  BY <1>1 DEF Ledger!vars, Leaving

\* Sessions that end without a commit give up nothing new.
LEMMA EndLeaves ==
    ASSUME owner' = owner,
           \A b \in Bots : sess'[b] = NoSession \/ sess'[b].restarted = sess[b].restarted
    PROVE  Leaving' \subseteq Leaving
BY DEF Leaving, Deleted, NoSession

\* What a session has heard was taken, and is on no record that it keeps.
LEMMA HeardOpen ==
    ASSUME Inv, Safe, Backed, NEW b \in Bots, NEW c \in sess[b].heard
    PROVE  c \in Cid /\ accepted[c] > 0 /\ (owner[c] # NoBot => c \in Leaving)
<1>1. c \in Cid /\ c \in sess[b].held
  BY SessionSets DEF Inv, PassShape, Shape
<1>2. owner[c] = NoBot \/ c \in Deleted(b)
  BY <1>1 DEF Safe, Keys
<1>3. QED
  BY <1>1, <1>2 DEF Backed, Leaving

\* A pass that fails, is cancelled or dies with the process abandons what it
\* had heard.
LEMMA SharedAbandon ==
    ASSUME Inv, Inv', Safe, Backed, NEW S, Excuse(S),
           \A c \in S : \E b \in Bots : c \in sess[b].heard,
           UNCHANGED <<owner, accepted>>,
           \A b \in Bots : sess'[b] = NoSession \/ sess'[b] = sess[b]
    PROVE  Ledger!Next
<1>1. Leaving' \subseteq Leaving
  BY EndLeaves
<1>2. Ledger!Excuse
  BY HeardOpen, SharedExcuse
<1>3. Ledger!Abandon
  BY <1>1, <1>2 DEF Ledger!Abandon, Leaving
<1>4. QED
  BY <1>3 DEF Ledger!Next

\* An acceptance is a Take, whether its reply arrives or not.
LEMMA SharedTake ==
    ASSUME Inv, Inv', Safe, Backed, NEW b \in Bots, PlaceAck(b) \/ PlaceLost(b)
    PROVE  Ledger!Next
<1> USE DEF dbVars, exVars
<1>t. /\ accepted \in [Cid -> Nat] /\ excused \in [Cid -> Nat] /\ sess \in [Bots -> Session]
  BY DEF Inv, TypeOK
<1>1. PICK o \in Cid : o = Current(b)
  BY CurrentType DEF Inv
<1>2. Placing(b) /\ Accept(o) /\ owner' = owner
  BY <1>1 DEF PlaceAck, PlaceLost
<1>3. o \in sess[b].held /\ ~Settled(o)
  BY <1>1, <1>2, PlacingUnsettled
<1>4. accepted[o] <= excused[o]
  <2>1. accepted[o] <= excused[o] + 0
    BY <1>3 DEF Safe, Account
  <2>2. QED
    BY <1>t, <2>1
<1>5. owner[o] # NoBot => o \in Leaving
  BY <1>3 DEF Safe, Keys, Leaving
<1>6. accepted' = [accepted EXCEPT ![o] = @ + 1]
  BY <1>2 DEF Accept
<1>7. accepted'[o] > 0 /\ \A c \in Cid : accepted[c] > 0 => accepted'[c] > 0
  BY <1>t, <1>6
<1>8. Leaving' \subseteq Leaving
  <2>1. sess'[b] = NoSession \/ sess'[b].restarted = sess[b].restarted
    BY <1>t DEF PlaceAck, PlaceLost, RollBack, Session
  <2>2. \A d \in Bots \ {b} : sess'[d] = sess[d]
    BY <1>t DEF PlaceAck, PlaceLost, RollBack
  <2>3. QED
    BY <1>2, <2>1, <2>2, EndLeaves
<1>9. Ledger!Excuse
  <2>1. CASE PlaceAck(b)
    BY <2>1, NoneExcused DEF PlaceAck
  <2>2. CASE PlaceLost(b)
    <3>1. PICK S : S = sess[b].heard \cup {o}
      OBVIOUS
    <3>2. Excuse(S)
      BY <1>1, <2>2, <3>1 DEF PlaceLost, Excuse
    <3>3. \A c \in Cid : c \in S => accepted'[c] > 0 /\ (owner[c] # NoBot => c \in Leaving)
      BY <1>5, <1>7, <3>1, HeardOpen
    <3>4. QED
      BY <3>2, <3>3, SharedExcuse
  <2>3. QED
    BY <2>1, <2>2
<1>10. Ledger!Take(o)
  BY <1>2, <1>4, <1>5, <1>6, <1>8, <1>9 DEF Ledger!Take, Leaving
<1>11. QED
  BY <1>10 DEF Ledger!Next

\* A re-created grid gives up what is on record for its bot.
LEMMA SharedRecreate ==
    ASSUME Inv, NEW b \in Bots, RestartGrid(b)
    PROVE  Ledger!Next
<1>1. /\ UNCHANGED <<owner, accepted, excused>> /\ sess'[b].restarted
      /\ \A d \in Bots \ {b} : sess'[d] = sess[d]
  BY DEF RestartGrid, dbVars, Inv, TypeOK, Session
<1>2. Leaving \subseteq Leaving' /\ Leaving' \subseteq {c \in Cid : owner[c] # NoBot}
  BY <1>1 DEF Leaving, Deleted
<1>3. Ledger!Recreate
  BY <1>1, <1>2, NoneExcused DEF Ledger!Recreate, Leaving
<1>4. QED
  BY <1>3 DEF Ledger!Next

\* A commit books what the session holds, and strikes off what it has deleted.
LEMMA SharedBook ==
    ASSUME Inv, Inv', Safe, Backed, NEW b \in Bots, CommitPass(b)
    PROVE  Ledger!Next
<1>o. \A c \in Cid : owner'[c] = IF c \in sess[b].held THEN b
                               ELSE IF c \in Deleted(b) THEN NoBot ELSE owner[c]
  BY DEF CommitPass
<1>s. sess'[b] = NoSession /\ \A d \in Bots \ {b} : sess'[d] = sess[d]
  BY DEF CommitPass, RollBack, Inv, TypeOK
<1>u. accepted' = accepted /\ at[b] = "commit"
  BY DEF CommitPass, exVars
<1>1. PICK S : S = {c \in Deleted(b) \ sess[b].held : Owner(c) # b}
  OBVIOUS
<1>2. Excuse(S)
  BY <1>1 DEF CommitPass, Excuse
<1>3. \A c \in Cid : c \in S => owner[c] # NoBot /\ owner'[c] = NoBot /\ c \in Leaving
  BY <1>1, <1>o DEF Deleted, Leaving
<1>4. \A c \in Cid : owner[c] # NoBot => accepted[c] > 0
  BY DEF Backed
<1>5. Ledger!Excuse
  BY <1>2, <1>3, <1>4, <1>u, SharedExcuse
<1>6. ASSUME NEW c \in Cid, owner'[c] # NoBot
      PROVE  accepted[c] > 0 /\ excused'[c] = excused[c]
  <2>1. accepted[c] > 0
    BY <1>4, <1>6, <1>o, <1>u, NotSending
  <2>2. QED
    BY <1>2, <1>3, <1>6, <2>1 DEF Excuse
<1>7. \A c \in Cid : owner[c] # NoBot /\ owner'[c] = NoBot => c \in Leaving
  BY <1>o DEF Leaving
<1>8. ASSUME NEW c \in Leaving'
      PROVE  c \in Cid /\ c \in Leaving /\ owner'[c] # NoBot
  <2>1. PICK d \in Bots : c \in Cid /\ sess'[d].restarted /\ owner'[c] = d
    BY <1>8 DEF Leaving, Deleted
  <2>2. d # b /\ sess[d].restarted
    BY <1>s, <2>1 DEF NoSession
  <2>3. owner[c] = d
    BY <1>o, <2>1, <2>2
  <2>4. QED
    BY <2>1, <2>2, <2>3 DEF Leaving, Deleted
<1>9. Ledger!Book
  BY <1>5, <1>6, <1>7, <1>8, <1>u DEF Ledger!Book, Leaving
<1>10. QED
  BY <1>9 DEF Ledger!Next

\* Every step of any bot is a step of the ledger or leaves it alone.
LEMMA SharedLedgerStep ==
    Inv /\ Inv' /\ Safe /\ Backed /\ [Next]_vars => [Ledger!Next]_(Ledger!vars)
<1> SUFFICES ASSUME Inv, Inv', Safe, Backed, [Next]_vars
             PROVE  Ledger!Next \/ UNCHANGED Ledger!vars
  OBVIOUS
<1> USE DEF dbVars, exVars
<1>s. sess \in [Bots -> Session]
  BY DEF Inv, TypeOK
<1>1. CASE UNCHANGED vars \/ Fill \/ Flatten \/ EngineStarts \/ \E b \in Bots : StopStep(b)
  BY <1>1, SharedStutter DEF vars, Fill, Flatten, EngineStarts, StopStep, StopCancels, CommitStop, StopFails
<1>2. ASSUME NEW b \in Bots, PassFails(b), UNCHANGED <<owner, accepted>>
      PROVE  Ledger!Next
  <2>1. PICK S : S = sess[b].heard
    OBVIOUS
  <2>2. Excuse(S)
    BY <1>2, <2>1 DEF PassFails, Excuse
  <2>3. \A d \in Bots : sess'[d] = NoSession \/ sess'[d] = sess[d]
    BY <1>2, <1>s DEF PassFails, RollBack
  <2>4. QED
    BY <1>2, <2>1, <2>2, <2>3, SharedAbandon
<1>3. ASSUME NEW b \in Bots, BeginPass(b) PROVE UNCHANGED Ledger!vars
  <2>1. sess[b] = NoSession
    BY <1>3 DEF BeginPass, Inv, PassShape, Shape
  <2>2. \A d \in Bots : sess'[d].restarted = sess[d].restarted
    BY <1>3, <1>s, <2>1 DEF BeginPass, NoSession
  <2>3. QED
    BY <1>3, <2>2, SharedStutter DEF BeginPass
<1>4. ASSUME NEW b \in Bots,
             \/ Sync(b) \/ RestartReadsPosition(b) \/ RestartReadsOrders(b)
             \/ SkipRecorded(b) \/ WaitForKey(b) \/ InsertRow(b)
      PROVE  UNCHANGED Ledger!vars
  <2>1. \A d \in Bots \ {b} : sess'[d] = sess[d]
    BY <1>4, <1>s
    DEF Sync, RestartReadsPosition, RestartReadsOrders, SkipRecorded, WaitForKey, InsertRow
  <2>2. sess'[b].restarted = sess[b].restarted
    <3>1. CASE InsertRow(b)
      <4>1. PICK k : sess' = [sess EXCEPT ![b].new = @ \ {k}, ![b].held = @ \cup {k},
                                          ![b].wait = {}]
        BY <3>1 DEF InsertRow
      <4>2. QED
        BY <1>s, <4>1 DEF Session
    <3>2. CASE Sync(b) \/ RestartReadsPosition(b) \/ RestartReadsOrders(b)
               \/ SkipRecorded(b) \/ WaitForKey(b)
      BY <1>s, <3>2
      DEF Sync, RestartReadsPosition, RestartReadsOrders, SkipRecorded, WaitForKey, Session
    <3>3. QED
      BY <1>4, <3>1, <3>2
  <2>3. QED
    BY <1>4, <2>1, <2>2, SharedStutter
    DEF Sync, RestartReadsPosition, RestartReadsOrders, SkipRecorded, WaitForKey, InsertRow
<1>5. ASSUME NEW b \in Bots, AddRow(b) PROVE Ledger!Next \/ UNCHANGED Ledger!vars
  <2>1. CASE PassFails(b)
    BY <1>2, <1>5, <2>1 DEF AddRow
  <2>2. CASE sess' = [sess EXCEPT ![b].new = @ \cup {Current(b)}] /\ UNCHANGED excused
    <3>1. \A d \in Bots : sess'[d].restarted = sess[d].restarted
      BY <1>s, <2>2 DEF Session
    <3>2. QED
      BY <1>5, <2>2, <3>1, SharedStutter DEF AddRow
  <2>3. QED
    BY <1>5, <2>1, <2>2 DEF AddRow
<1>6. ASSUME NEW b \in Bots,
             \/ InsertConflicts(b) \/ DeadlockAborts(b) \/ SupervisorCancel(b)
             \/ PlaceRejected(b) \/ CallFails(b)
      PROVE  Ledger!Next
  BY <1>2, <1>6
  DEF InsertConflicts, DeadlockAborts, SupervisorCancel, PlaceRejected, CallFails
<1>7. CASE EngineCrash
  <2>1. PICK S : S = UNION {sess[b].heard : b \in Bots}
    OBVIOUS
  <2>2. Excuse(S) /\ \A c \in S : \E b \in Bots : c \in sess[b].heard
    BY <1>7, <2>1 DEF EngineCrash, Excuse
  <2>3. \A b \in Bots : sess'[b] = NoSession
    BY <1>7 DEF EngineCrash
  <2>4. UNCHANGED <<owner, accepted>>
    BY <1>7 DEF EngineCrash
  <2>5. QED
    BY <2>2, <2>3, <2>4, SharedAbandon
<1>8. QED
  BY <1>1, <1>3, <1>4, <1>5, <1>6, <1>7, SharedTake, SharedRecreate, SharedBook
  DEF Next, PassStep

\* Any number of bots on a symbol keep the ledger that one bot alone keeps:
\* an order is taken again only when the database could not know of it, and
\* what any of them has on record stays until its grid is given up.
THEOREM SharedImplementsLedger == Spec => FollowsLedger
<1>1. Init => Ledger!Init
  BY DEF Init, Ledger!Init, Deleted, NoSession
<1>2. QED
  BY <1>1, Invariant, RowsBacked, SharedLedgerStep, PTL DEF Spec, FollowsLedger, Ledger!Spec

\* The ledger alone, whoever keeps it: no order is taken more than once and
\* once per excuse, and what is booked was taken.
THEOREM LedgerBalanced == FollowsLedger => []Ledger!Balanced
<1> DEFINE Typed == accepted \in [Cid -> Nat] /\ excused \in [Cid -> Nat]
<1>1. Ledger!Init => Typed /\ Ledger!Balanced
  BY DEF Ledger!Init, Ledger!Balanced
<1>2. Typed /\ Ledger!Balanced /\ [Ledger!Next]_(Ledger!vars) => (Typed /\ Ledger!Balanced)'
  <2> SUFFICES ASSUME Typed, Ledger!Balanced, [Ledger!Next]_(Ledger!vars)
               PROVE  (Typed /\ Ledger!Balanced)'
    OBVIOUS
  <2>1. ASSUME Ledger!Excuse
        PROVE  /\ excused' \in [Cid -> Nat]
               /\ \A c \in Cid : excused'[c] >= excused[c]
    BY <2>1 DEF Ledger!Excuse
  <2>2. CASE UNCHANGED Ledger!vars
    BY <2>2 DEF Ledger!vars, Ledger!Balanced
  <2>3. ASSUME NEW o \in Cid, Ledger!Take(o) PROVE (Typed /\ Ledger!Balanced)'
    <3>1. /\ accepted[o] <= excused[o] /\ accepted' = [accepted EXCEPT ![o] = @ + 1]
          /\ Ledger!Excuse
      BY <2>3 DEF Ledger!Take
    <3>2. /\ accepted' \in [Cid -> Nat] /\ accepted'[o] = accepted[o] + 1
          /\ \A c \in Cid \ {o} : accepted'[c] = accepted[c]
      BY <3>1
    <3>3. \A c \in Cid : accepted'[c] <= 1 + excused'[c] /\ accepted'[c] >= accepted[c]
      BY <2>1, <3>1, <3>2 DEF Ledger!Balanced
    <3>4. QED
      BY <2>1, <2>3, <3>1, <3>2, <3>3 DEF Ledger!Take, Ledger!Balanced
  <2>4. CASE Ledger!Abandon
    BY <2>1, <2>4 DEF Ledger!Abandon, Ledger!Balanced
  <2>5. CASE Ledger!Recreate
    BY <2>1, <2>5 DEF Ledger!Recreate, Ledger!Balanced
  <2>6. CASE Ledger!Book
    BY <2>1, <2>6 DEF Ledger!Book, Ledger!Balanced
  <2>7. QED
    BY <2>2, <2>3, <2>4, <2>5, <2>6 DEF Ledger!Next
<1>3. QED
  BY <1>1, <1>2, PTL DEF FollowsLedger, Ledger!Spec

-----------------------------------------------------------------------------
(* Waiting for keys.                                                       *)

\* If each of some passes waits for another of them, a ring is among them: a
\* smallest such set is one, for a pass that nobody in it waits for could be
\* left out.
LEMMA RingAmong ==
    ASSUME IsFiniteSet(Bots), NEW W \in SUBSET Bots, W # {},
           \A d \in W : \E e \in W : WaitsFor(d, e)
    PROVE  \E S \in SUBSET W : S # {} /\ Ring(S)
<1> DEFINE Closed == {S \in SUBSET W : S # {} /\ \A d \in S : \E e \in S : WaitsFor(d, e)}
           Below  == StrictSubsetOrdering(W)
<1>1. IsFiniteSet(W)
  BY FS_Subset
<1>2. IsWellFoundedOn(Below, SUBSET W)
  BY <1>1, FS_StrictSubsetOrderingWellFounded, FS_FiniteSubsetsOfFinite
<1>3. Closed \subseteq SUBSET W /\ W \in Closed
  OBVIOUS
<1> HIDE DEF Closed, Below
<1>4. PICK S \in Closed : \A T \in Closed : <<T, S>> \notin Below
  BY <1>2, <1>3, WFMin
<1>5. S \in SUBSET W /\ S # {} /\ \A d \in S : \E e \in S : WaitsFor(d, e)
  BY <1>4 DEF Closed
<1>6. ASSUME NEW d \in S, ~(\E e \in S : WaitsFor(e, d))
      PROVE  FALSE
  <2>1. PICK n \in S : WaitsFor(d, n)
    BY <1>5
  <2>2. n # d
    BY <2>1 DEF WaitsFor
  <2>3. \A x \in S \ {d} : \E e \in S \ {d} : WaitsFor(x, e)
    BY <1>5, <1>6
  <2>4. S \ {d} \in Closed
    BY <1>5, <2>1, <2>2, <2>3 DEF Closed
  <2>5. <<S \ {d}, S>> \in Below
    BY <1>5 DEF Below, StrictSubsetOrdering
  <2>6. QED
    BY <1>4, <2>4, <2>5
<1>7. Ring(S)
  BY <1>5, <1>6 DEF Ring
<1>8. QED
  BY <1>5, <1>7

\* What somebody waits for is held by a pass that has not ended.
LEMMA HolderRuns ==
    ASSUME Inv, NEW d \in Bots, NEW e \in Bots, WaitsFor(d, e)
    PROVE  at[e] # "idle"
BY DEF Inv, PassShape, Shape, WaitsFor, Locked, Deleted, NoSession

\* No flush is stuck behind nothing: with the retry of what PostgreSQL aborts,
\* every wait has somebody to end it.
THEOREM WaitsHaveAnEnd ==
    ASSUME IsFiniteSet(Bots) PROVE Spec => []NoStall
<1>1. Inv => NoStall
  <2> SUFFICES ASSUME Inv, NEW W \in SUBSET Bots, W # {},
                      \A d \in W : \E e \in Bots : WaitsFor(d, e)
               PROVE  \/ \E d \in W, e \in Bots \ W : WaitsFor(d, e) /\ at[e] # "idle"
                      \/ \E S \in SUBSET W : S # {} /\ Ring(S)
    BY DEF NoStall
  <2>1. CASE \A d \in W : \E e \in W : WaitsFor(d, e)
    BY <2>1, RingAmong
  <2>2. CASE \E d \in W : ~(\E e \in W : WaitsFor(d, e))
    BY <2>2, HolderRuns
  <2>3. QED
    BY <2>1, <2>2
<1>2. QED
  BY <1>1, Invariant, PTL
=============================================================================
