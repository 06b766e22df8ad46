--------------------------- MODULE BotEngineProofs ---------------------------
(***************************************************************************)
(* What BotEngine promises for every number of legs, configurations,       *)
(* requests, attempts and failures.  TypeInv and SafetyInv are inductive;  *)
(* every theorem is drawn from the two.                                    *)
(***************************************************************************)
EXTENDS BotEngine, TLAPS

USE DEF Life, EngineState, PassPoint, ReqPoint

\* TypeOK, and the bound on versions where a version is about to move on.
TypeInv ==
    /\ TypeOK
    /\ at = "rcancel" => sess.ver < MaxVersion
    /\ \A r \in Requests : req[r].op = "patch" => req[r].ver < MaxVersion

\* An empty session, request or table is well typed and holds nothing.
LEMMA Defaults ==
    /\ NoSession \in Session /\ NoSession.by = "none" /\ ~NoSession.restarted
    /\ NoRequest \in Request /\ NoRequest.op = "none" /\ NoRequest.at = "idle"
    /\ NoRows \in [Cid -> RowState] /\ \A c \in Cid : NoRows[c] = "none"
  BY LegsAssumption, BoundsAssumption
  DEF NoSession, NoRequest, NoRows, Session, Request, Version, Level, RowState

\* The initial state is well typed.
LEMMA InitTypes == Init => TypeInv
  BY Defaults, BoundsAssumption
  DEF Init, TypeInv, TypeOK, BotRow, Version

\* The id a session is working on is a client id.
LEMMA CurrentType == sess \in Session => Current \in Cid /\ Current = <<sess.ver, sess.idx>>
  BY DEF Session, Current, Cid

\* A dropped session is the empty one.
LEMMA DropTypes ==
    DropSession => /\ sess' \in Session /\ sess'.ver = 1
                   /\ view' \in [Cid -> RowState] /\ pending' \subseteq Cid
                   /\ sent' \subseteq Cid
  BY Defaults DEF DropSession, NoSession

\* The two histories stay functions into the naturals.
LEMMA HistoryTypes ==
    ASSUME NEW ids
    PROVE /\ forgotten \in [Cid -> Nat] /\ Forgotten(ids) => forgotten' \in [Cid -> Nat]
          /\ unheard \in [Cid -> Nat] /\ Unheard(ids) => unheard' \in [Cid -> Nat]
  BY DEF Forgotten, Unheard

\* The count of failures stays a natural number.
LEMMA FaultTypes == faults \in Nat /\ Fault => faults' \in Nat
  BY DEF Fault

\* The record of the version numbers stays one.
LEMMA GivesTypes ==
    ASSUME NEW v \in Version, NEW c \in Configs \cup {NoConfig},
           given \in [Version -> SUBSET (Configs \cup {NoConfig})], Gives(v, c)
    PROVE  given' \in [Version -> SUBSET (Configs \cup {NoConfig})]
  BY DEF Gives

\* A failed pass leaves the session well typed.
LEMMA PassFailsTypes ==
    TypeInv /\ PassFails =>
        /\ sess' \in Session /\ view' \in [Cid -> RowState] /\ pending' \subseteq Cid
        /\ sent' \subseteq Cid /\ forgotten' \in [Cid -> Nat]
        /\ at' \in {"error", "commit"}
<1> SUFFICES ASSUME TypeInv, PassFails
             PROVE /\ sess' \in Session /\ view' \in [Cid -> RowState]
                   /\ pending' \subseteq Cid
                   /\ sent' \subseteq Cid /\ forgotten' \in [Cid -> Nat]
                   /\ at' \in {"error", "commit"}
  OBVIOUS
<1>1. CASE sess.by = "engine" /\ at' = "error" /\ DropSession /\ Forgotten(sent)
  BY <1>1, DropTypes, HistoryTypes DEF TypeInv, TypeOK
<1>2. CASE /\ at' = "commit" /\ sess' = [sess EXCEPT !.failed = TRUE]
           /\ UNCHANGED <<view, pending, sent, forgotten>>
  <2>1. sess' \in Session
    BY <1>2 DEF TypeInv, TypeOK, Session
  <2>2. QED
    BY <1>2, <2>1 DEF TypeInv, TypeOK
<1>3. QED
  BY <1>1, <1>2 DEF PassFails

\* So does a retried or given-up call.
LEMMA RetryTypes ==
    TypeInv /\ RetryOrFail =>
        /\ sess' \in Session /\ view' \in [Cid -> RowState] /\ pending' \subseteq Cid
        /\ sent' \subseteq Cid /\ forgotten' \in [Cid -> Nat]
        /\ at' \in {at, "error", "commit"}
<1> SUFFICES ASSUME TypeInv, RetryOrFail
             PROVE /\ sess' \in Session /\ view' \in [Cid -> RowState]
                   /\ pending' \subseteq Cid
                   /\ sent' \subseteq Cid /\ forgotten' \in [Cid -> Nat]
                   /\ at' \in {at, "error", "commit"}
  OBVIOUS
<1>1. CASE PassFails
  BY <1>1, PassFailsTypes
<1>2. CASE /\ sess' = [sess EXCEPT !.tries = @ + 1]
           /\ UNCHANGED <<at, view, pending, sent, forgotten>>
  <2>1. sess' \in Session
    BY <1>2 DEF TypeInv, TypeOK, Session
  <2>2. QED
    BY <1>2, <2>1 DEF TypeInv, TypeOK
<1>3. QED
  BY <1>1, <1>2 DEF RetryOrFail

\* The next level is a level.
LEMMA AdvanceTypes ==
    TypeInv /\ Advance => sess' \in Session /\ at' \in {"commit", "row"}
<1> SUFFICES ASSUME TypeInv, Advance
             PROVE sess' \in Session /\ at' \in {"commit", "row"}
  OBVIOUS
<1>1. CASE sess.idx = Legs
  BY <1>1 DEF TypeInv, TypeOK, Advance
<1>2. CASE sess.idx # Legs
  <2>1. sess.idx + 1 \in Level
    BY <1>2, LegsAssumption DEF TypeInv, TypeOK, Session, Level
  <2>2. sess' = [sess EXCEPT !.idx = sess.idx + 1, !.tries = 0] /\ at' = "row"
    BY <1>2 DEF Advance
  <2>3. QED
    BY <2>1, <2>2 DEF TypeInv, TypeOK, Session
<1>3. QED
  BY <1>1, <1>2

\* The exchange's acceptance keeps its own state well typed.
LEMMA AcceptTypes ==
    TypeInv /\ Accept(Current) =>
        /\ open' \subseteq Cid /\ pos' \in Nat /\ accepted' \in [Cid -> Nat]
        /\ placedCfg' \in [Cid -> Configs \cup {NoConfig}]
<1> SUFFICES ASSUME TypeInv, Accept(Current)
             PROVE /\ open' \subseteq Cid /\ pos' \in Nat /\ accepted' \in [Cid -> Nat]
                   /\ placedCfg' \in [Cid -> Configs \cup {NoConfig}]
  OBVIOUS
<1>1. Current \in Cid /\ sess.cfg \in Configs \cup {NoConfig}
  BY CurrentType DEF TypeInv, TypeOK, Session
<1>2. QED
  BY <1>1 DEF TypeInv, TypeOK, Accept

\* Types, over the steps of a pass.
LEMMA PassStepTypes ==
    ASSUME TypeInv, PassStep PROVE TypeInv'
<1> USE DEF TypeInv, TypeOK, dbVars, exVars, passVars, lossVars, histVars, numberVars
<1>1. CASE Sync
  BY <1>1 DEF Sync, RowState
<1>2. CASE RestartReadsPosition
  BY <1>2 DEF RestartReadsPosition
<1>3. CASE RestartReadsOrders
  BY <1>3 DEF RestartReadsOrders
<1>4. CASE RestartGrid
  <2>1. sess.ver + 1 \in Version
    BY <1>4, BoundsAssumption DEF RestartGrid, Session, Version
  <2>2. sess' \in Session
    BY <1>4, <2>1 DEF RestartGrid, Session
  <2>3. given' \in [Version -> SUBSET (Configs \cup {NoConfig})]
    <3>1. sess.cfg \in Configs \cup {NoConfig}
      BY DEF Session
    <3>2. QED
      BY <1>4, <2>1, <3>1, GivesTypes DEF RestartGrid
  <2>4. QED
    BY <1>4, <2>2, <2>3, Defaults DEF RestartGrid, Forgotten
<1>5. CASE SkipRecorded
  BY <1>5, AdvanceTypes DEF SkipRecorded
<1>6. CASE ReuseRow
  BY <1>6 DEF ReuseRow
<1>7. CASE AddRow
  <2>1. sess' \in Session
    BY <1>7 DEF AddRow, Session
  <2>2. view' \in [Cid -> RowState]
    BY <1>7 DEF AddRow, RowState
  <2>3. QED
    BY <1>7, <2>1, <2>2 DEF AddRow
<1>8. CASE AddRowConflicts
  BY <1>8, PassFailsTypes DEF AddRowConflicts
<1>9. CASE PlaceAck
  <2>1. view' \in [Cid -> RowState] /\ sent' \subseteq Cid
    BY <1>9, CurrentType DEF PlaceAck, RowState
  <2>2. QED
    BY <1>9, <2>1, AdvanceTypes, AcceptTypes DEF PlaceAck
<1>10. CASE PlaceLost
  BY <1>10, RetryTypes, AcceptTypes, FaultTypes, HistoryTypes DEF PlaceLost
<1>11. CASE PlaceUnreached
  BY <1>11, RetryTypes, FaultTypes DEF PlaceUnreached
<1>12. CASE PlaceRejected
  BY <1>12, PassFailsTypes, FaultTypes DEF PlaceRejected
<1>13. CASE CallFails
  BY <1>13, PassFailsTypes, FaultTypes DEF CallFails
<1>14. QED
  BY <1>1, <1>2, <1>3, <1>4, <1>5, <1>6, <1>7, <1>8, <1>9, <1>10, <1>11, <1>12,
     <1>13 DEF PassStep

\* Types, over the begin and end of a pass, the supervisor and the market.
LEMMA OtherStepTypes ==
    ASSUME TypeInv,
           \/ BeginCreate \/ CommitCreate \/ CreateAborted \/ BeginPass \/ EndTask
           \/ CommitPass \/ HandleError \/ Supervision \/ Environment
    PROVE TypeInv'
<1> USE DEF TypeInv, TypeOK, dbVars, exVars, passVars, lossVars, histVars, numberVars
<1>1. CASE BeginCreate
  <2>1. sess' \in Session
    BY <1>1, Defaults DEF BeginCreate, Session
  <2>2. given' \in [Version -> SUBSET (Configs \cup {NoConfig})]
    <3>1. PICK c \in Configs : Gives(1, c)
      BY <1>1 DEF BeginCreate
    <3>2. 1 \in Version /\ c \in Configs \cup {NoConfig}
      BY BoundsAssumption DEF Version
    <3>3. QED
      BY <3>1, <3>2, GivesTypes
  <2>3. QED
    BY <1>1, <2>1, <2>2 DEF BeginCreate
<1>2. CASE CommitCreate
  <2>1. bot' \in BotRow
    BY <1>2, BoundsAssumption DEF CommitCreate, BotRow, Session, Version
  <2>2. rows' \in [Cid -> RowState] /\ forgotten' \in [Cid -> Nat]
    BY <1>2, HistoryTypes DEF CommitCreate, RowState
  <2>3. QED
    BY <1>2, <2>1, <2>2, DropTypes DEF CommitCreate
<1>3. CASE CreateAborted
  <2>1. bot' \in BotRow
    BY <1>3 DEF CreateAborted, BotRow
  <2>2. QED
    BY <1>3, <2>1, DropTypes, FaultTypes, HistoryTypes DEF CreateAborted
<1>4. CASE BeginPass
  <2>1. /\ bot.ver \in Version /\ bot.cfg \in Configs \cup {NoConfig}
        /\ bot.estate \in EngineState /\ bot.err \in BOOLEAN
        /\ "RUNNING" \in EngineState
    BY DEF BotRow, EngineState
  <2> DEFINE e == IF bot.estate = "INIT" THEN "RUNNING" ELSE bot.estate
             s == [NoSession EXCEPT !.by = "engine", !.ver = bot.ver, !.cfg = bot.cfg,
                     !.loaded = bot.estate, !.err = bot.err, !.estate = e]
  <2>a. e \in EngineState
    BY <2>1
  <2> HIDE DEF e
  <2>b. s \in Session
    BY <2>1, <2>a, Defaults DEF Session
  <2>2. sess' \in Session
    BY <1>4, <2>b DEF BeginPass, e
  <2>3. QED
    BY <1>4, <2>2 DEF BeginPass
<1>5. CASE EndTask
  BY <1>5 DEF EndTask
<1>6. CASE CommitPass
  <2>1. bot' \in BotRow
    BY <1>6 DEF CommitPass, BotRow, Session
  <2>2. rows' \in [Cid -> RowState]
    BY <1>6 DEF CommitPass, RowState
  <2>3. given' \in [Version -> SUBSET (Configs \cup {NoConfig})]
    <3>1. sess.ver \in Version /\ bot.cfg \in Configs \cup {NoConfig}
      BY DEF Session, BotRow
    <3>2. QED
      BY <1>6, <3>1, GivesTypes DEF CommitPass
  <2>4. QED
    BY <1>6, <2>1, <2>2, <2>3, DropTypes DEF CommitPass
<1>7. CASE HandleError
  <2>1. bot' \in BotRow
    BY <1>7 DEF HandleError, BotRow
  <2>2. QED
    BY <1>7, <2>1, FaultTypes DEF HandleError
<1>8. CASE SupervisorStart
  BY <1>8 DEF SupervisorStart
<1>9. CASE SupervisorCancel
  BY <1>9, DropTypes, HistoryTypes DEF SupervisorCancel, TaskVanishes
<1>14. CASE EngineCrash
  BY <1>14, DropTypes, FaultTypes, HistoryTypes DEF EngineCrash, TaskVanishes
<1>15. CASE EngineStarts
  BY <1>15 DEF EngineStarts
<1>10. CASE Fill
  BY <1>10 DEF Fill
<1>11. CASE Flatten
  BY <1>11 DEF Flatten
<1>12. CASE DeleteApiKey
  BY <1>12 DEF DeleteApiKey
<1>13. QED
  BY <1>1, <1>2, <1>3, <1>4, <1>5, <1>6, <1>7, <1>8, <1>9, <1>10, <1>11, <1>12,
     <1>14, <1>15
  DEF Supervision, Environment

\* Types, over the steps of a request.
LEMMA RequestStepTypes ==
    ASSUME TypeInv, NEW r \in Requests, RequestStep(r) PROVE TypeInv'
<1> USE DEF TypeInv, TypeOK, dbVars, exVars, passVars, lossVars, histVars, numberVars
<1>1. ASSUME NEW op \in {"stop", "close", "delete"}, NEW at0 \in ReqPoint, Reads(r, op, at0)
      PROVE /\ req' \in [Requests -> Request]
            /\ \A q \in Requests : req'[q].op = "patch" => req'[q].ver < MaxVersion
  <2> DEFINE q == [NoRequest EXCEPT !.op = op, !.at = at0, !.life = bot.life,
                     !.estate = bot.estate, !.ver = bot.ver]
  <2>1. bot.life \in Life /\ bot.estate \in EngineState /\ bot.ver \in Version
    BY DEF BotRow
  <2>2. q \in Request /\ q.op = op
    BY <2>1, Defaults DEF Request
  <2>3. req' = [req EXCEPT ![r] = q]
    BY <1>1 DEF Reads
  <2> HIDE DEF q
  <2>4. QED
    BY <2>2, <2>3
<1>2. CASE BeginStop(r)
  BY <1>1, <1>2 DEF BeginStop
<1>3. CASE BeginClose(r)
  BY <1>1, <1>3 DEF BeginClose
<1>4. CASE BeginDelete(r)
  BY <1>1, <1>4 DEF BeginDelete
<1>5. CASE BeginPatch(r)
  <2>1. PICK c \in Configs :
          req' = [req EXCEPT ![r] = [NoRequest EXCEPT
                    !.op = "patch", !.at = "commit", !.life = bot.life,
                    !.estate = bot.estate, !.ver = bot.ver,
                    !.cfg = IF c = bot.cfg THEN NoConfig ELSE c]]
    BY <1>5 DEF BeginPatch
  <2> DEFINE q == [NoRequest EXCEPT
                    !.op = "patch", !.at = "commit", !.life = bot.life,
                    !.estate = bot.estate, !.ver = bot.ver,
                    !.cfg = IF c = bot.cfg THEN NoConfig ELSE c]
  <2>2. q \in Request /\ q.ver = bot.ver
    BY Defaults DEF Request, BotRow
  <2>3. req' = [req EXCEPT ![r] = q] /\ bot.ver < MaxVersion
    BY <1>5, <2>1 DEF BeginPatch
  <2> HIDE DEF q
  <2>4. /\ req' \in [Requests -> Request]
        /\ \A p \in Requests : req'[p].op = "patch" => req'[p].ver < MaxVersion
    BY <2>2, <2>3
  <2>5. QED
    BY <1>5, <2>4 DEF BeginPatch
<1>6. ASSUME NEW p \in ReqPoint, req' = [req EXCEPT ![r].at = p]
      PROVE /\ req' \in [Requests -> Request]
            /\ \A q \in Requests : req'[q].op = "patch" => req'[q].ver < MaxVersion
  BY <1>6 DEF Request
<1>7. CASE CancelAll(r)
  BY <1>6, <1>7 DEF CancelAll
<1>8. CASE SkipCancel(r)
  BY <1>6, <1>8, FaultTypes DEF SkipCancel
<1>9. CASE ReadPositions(r)
  <2>1. /\ req' \in [Requests -> Request]
        /\ \A q \in Requests : req'[q].op = "patch" => req'[q].ver < MaxVersion
    BY <1>9 DEF ReadPositions, Request
  <2>2. QED
    BY <1>9, <2>1 DEF ReadPositions
<1>10. CASE Reduce(r)
  <2>1. pos' \in Nat
    BY <1>10 DEF Reduce, Request
  <2>2. /\ req' \in [Requests -> Request] /\ faults' \in Nat
        /\ \A q \in Requests : req'[q].op = "patch" => req'[q].ver < MaxVersion
    BY <1>6, <1>10, FaultTypes DEF Reduce
  <2>3. QED
    BY <1>10, <2>1, <2>2 DEF Reduce
<1>11. ASSUME req' = [req EXCEPT ![r] = NoRequest]
       PROVE /\ req' \in [Requests -> Request]
             /\ \A q \in Requests : req'[q].op = "patch" => req'[q].ver < MaxVersion
  BY <1>11, Defaults
<1>12. CASE CommitRequest(r)
  <2>1. req[r] \in Request /\ (req[r].op = "patch" => req[r].ver < MaxVersion)
    OBVIOUS
  <2>2. req[r].op = "patch" => req[r].ver + 1 \in Version
    BY <2>1, BoundsAssumption DEF Request, Version
  <2>3. bot' \in BotRow
    <3> DEFINE q == req[r]
               halts == q.op \in {"stop", "close"} \/ (q.op = "delete" /\ q.life = "ACTIVE")
               life == IF q.op = "close" THEN "CLOSED"
                       ELSE IF halts THEN "STOPPED" ELSE bot.life
               estate == IF halts /\ q.estate # "STOPPED" THEN "STOPPED" ELSE bot.estate
               deleted == bot.deleted \/ q.op = "delete"
               ver == IF q.op = "patch" THEN q.ver + 1 ELSE bot.ver
               cfg == IF q.cfg # NoConfig THEN q.cfg ELSE bot.cfg
    <3>1. bot' = [bot EXCEPT !.life = life, !.estate = estate, !.deleted = deleted,
                             !.ver = ver, !.cfg = cfg]
      BY <1>12 DEF CommitRequest
    <3>2. bot \in BotRow /\ bot.life \in Life /\ bot.estate \in EngineState /\ bot.deleted \in BOOLEAN
          /\ bot.ver \in Version /\ bot.cfg \in Configs \cup {NoConfig}
      BY DEF BotRow
    <3>3. life \in Life /\ estate \in EngineState
      BY <3>2
    <3>4. deleted \in BOOLEAN
      BY <3>2
    <3>5. ver \in Version /\ cfg \in Configs \cup {NoConfig}
      BY <2>1, <2>2, <3>2 DEF Request
    <3> HIDE DEF life, estate, deleted, ver, cfg
    <3>6. [bot EXCEPT !.life = life, !.estate = estate, !.deleted = deleted,
                      !.ver = ver, !.cfg = cfg] \in BotRow
      BY <3>2, <3>3, <3>4, <3>5 DEF BotRow
    <3>7. QED
      BY <3>1, <3>6
  <2>4. given' \in [Version -> SUBSET (Configs \cup {NoConfig})]
    <3>1. bot'.cfg \in Configs \cup {NoConfig}
      BY <2>3 DEF BotRow
    <3>2. CASE req[r].op = "patch"
      BY <1>12, <2>2, <3>1, <3>2, GivesTypes DEF CommitRequest
    <3>3. CASE req[r].op # "patch"
      BY <1>12, <3>3 DEF CommitRequest
    <3>4. QED
      BY <3>2, <3>3
  <2>5. QED
    BY <1>11, <1>12, <2>3, <2>4 DEF CommitRequest
<1>13. CASE RequestFails(r)
  BY <1>11, <1>13, FaultTypes DEF RequestFails
<1>14. QED
  BY <1>2, <1>3, <1>4, <1>5, <1>7, <1>8, <1>9, <1>10, <1>12, <1>13 DEF RequestStep

\* TypeInv is inductive.
LEMMA NextTypes == TypeInv /\ [Next]_vars => TypeInv'
<1> SUFFICES ASSUME TypeInv, [Next]_vars PROVE TypeInv'
  OBVIOUS
<1>1. CASE UNCHANGED vars
  BY <1>1 DEF TypeInv, TypeOK, vars, dbVars, exVars, passVars, lossVars, histVars, numberVars
<1>2. CASE Next
  BY <1>2, PassStepTypes, OtherStepTypes, RequestStepTypes DEF Next, EngineStep
<1>3. QED
  BY <1>1, <1>2

\* Type correctness of the bot, its engine pass and the requests, for every
\* number of legs, configurations, requests and failures.
THEOREM TypeCorrect == Spec => []TypeOK
<1>1. Spec => []TypeInv
  BY InitTypes, NextTypes, PTL DEF Spec
<1>2. TypeInv => TypeOK
  BY DEF TypeInv
<1>3. QED
  BY <1>1, <1>2, PTL

-----------------------------------------------------------------------------
(* The safety invariant.                                                   *)

\* The safety invariant holds initially.
LEMMA InitSafety == Init => SafetyInv
<1> SUFFICES ASSUME Init PROVE SafetyInv
  OBVIOUS
<1>1. PassShape
  BY Defaults DEF Init, PassShape, InPass
<1>2. Knowledge
  BY Defaults DEF Init, Knowledge, InPass
<1>3. OpenKnown
  BY DEF Init, OpenKnown
<1>4. Account
  BY Defaults DEF Init, Account, Recorded
<1>5. QED
  BY <1>1, <1>2, <1>3, <1>4 DEF SafetyInv

\* Steps that touch neither the pass nor the rows: open orders may go.
LEMMA QuietStep ==
    ASSUME SafetyInv,
           UNCHANGED <<rows, passVars, accepted, lossVars>>,
           open' \subseteq open,
           (bot'.life = "ABSENT") <=> (bot.life = "ABSENT"),
           \A r \in Requests : /\ req'[r].op # "none" => bot.life # "ABSENT"
                               /\ req'[r].at # "idle" => req'[r].op # "none"
    PROVE  SafetyInv'
<1> USE DEF SafetyInv, passVars, lossVars
<1>1. PassShape'
  BY DEF PassShape, InPass
<1>2. Knowledge'
  BY DEF Knowledge, InPass, Current
<1>3. OpenKnown'
  BY DEF OpenKnown, Current
<1>4. Account'
  BY DEF Account, Recorded
<1>5. QED
  BY <1>1, <1>2, <1>3, <1>4

\* What a call of the exchange may have changed when no reply came of it: an
\* acceptance more for each reply that is missing.
SilentCall ==
    /\ \A c \in Cid : /\ accepted'[c] >= accepted[c]
                      /\ accepted'[c] + unheard[c] <= accepted[c] + unheard'[c]
    /\ \A c \in open' : c \in open \/ (c = Current /\ accepted'[c] >= 1)
    /\ UNCHANGED rows

\* The session is dropped, what it had heard is written off: the rows are what
\* they were, and so is everything that is on record there.
LEMMA DropStep ==
    ASSUME TypeInv, TypeInv', SafetyInv,
           DropSession, Forgotten(sent), at' \in {"idle", "error"},
           SilentCall, UNCHANGED req,
           bot.life # "ABSENT" => bot'.life # "ABSENT",
           bot'.life = "ABSENT" => bot.life = "ABSENT"
    PROVE  SafetyInv'
<1> USE DEF SafetyInv, DropSession, SilentCall
<1>1. PassShape'
  BY Defaults DEF PassShape, InPass
<1>2. Knowledge'
  <2> SUFFICES ASSUME NEW c \in Cid, rows[c] = "ex" \/ c \in open'
               PROVE  accepted'[c] >= 1
    BY Defaults DEF Knowledge, InPass
  <2>1. accepted[c] \in Nat /\ accepted'[c] \in Nat
    BY DEF TypeInv, TypeOK
  <2>2. CASE rows[c] = "ex" \/ c \in open
    <3>1. accepted[c] >= 1
      BY <2>2 DEF Knowledge
    <3>2. QED
      BY <2>1, <3>1
  <2>3. QED
    BY <2>2
<1>3. OpenKnown'
  BY Defaults DEF OpenKnown
<1>4. Account'
  <2> SUFFICES ASSUME NEW c \in Cid
               PROVE accepted'[c] <= unheard'[c] + forgotten'[c]
                                     + (IF rows[c] = "ex" THEN 1 ELSE 0)
    BY Defaults DEF Account, Recorded
  <2>1. /\ accepted[c] \in Nat /\ unheard[c] \in Nat /\ forgotten[c] \in Nat
        /\ accepted'[c] \in Nat /\ unheard'[c] \in Nat
    BY DEF TypeInv, TypeOK
  <2>2. forgotten'[c] = IF c \in sent THEN forgotten[c] + 1 ELSE forgotten[c]
    BY DEF Forgotten
  <2>3. accepted[c] <= unheard[c] + forgotten[c]
                       + (IF Recorded(c) THEN 1 ELSE 0)
    BY DEF Account
  <2>4. QED
    BY <2>1, <2>2, <2>3 DEF Recorded
<1>5. QED
  BY <1>1, <1>2, <1>3, <1>4

\* A call goes wrong and the pass goes on, in create_bot's handler or with the
\* next attempt: the session knows what it knew.
LEMMA SurvivedCall ==
    ASSUME TypeInv, TypeInv', SafetyInv, SilentCall, InPass,
           \/ sess.by = "create" /\ at' = "commit"
           \/ at = "place" /\ at' = "place",
           sess'.by = sess.by, sess'.ver = sess.ver, sess'.idx = sess.idx,
           sess'.restarted = sess.restarted,
           UNCHANGED <<bot, req, view, pending, sent, forgotten>>
    PROVE  SafetyInv'
<1> USE DEF SafetyInv, SilentCall
<1>1. PassShape'
  BY DEF PassShape, InPass
<1>2. Knowledge'
  <2>1. at' = "place" => view'[Current'] = "noex"
    BY DEF Knowledge, Current
  <2>2. ASSUME NEW c \in Cid,
               rows[c] = "ex" \/ view[c] = "ex" \/ c \in pending \cup open'
        PROVE  accepted'[c] >= 1
    <3>1. accepted[c] \in Nat /\ accepted'[c] \in Nat
      BY DEF TypeInv, TypeOK
    <3>2. CASE rows[c] = "ex" \/ view[c] = "ex" \/ c \in pending \cup open
      <4>1. accepted[c] >= 1
        BY <3>2 DEF Knowledge
      <4>2. QED
        BY <3>1, <4>1
    <3>3. QED
      BY <2>2, <3>2
  <2>3. QED
    BY <2>1, <2>2 DEF Knowledge, InPass
<1>3. OpenKnown'
  BY DEF OpenKnown, Current, PassShape
<1>4. Account'
  <2> SUFFICES ASSUME NEW c \in Cid
               PROVE accepted'[c] <= unheard'[c] + forgotten[c]
                                     + (IF Recorded(c) THEN 1 ELSE 0)
    BY DEF Account, Recorded
  <2>1. /\ accepted[c] \in Nat /\ unheard[c] \in Nat /\ forgotten[c] \in Nat
        /\ accepted'[c] \in Nat /\ unheard'[c] \in Nat
    BY DEF TypeInv, TypeOK
  <2>2. accepted[c] <= unheard[c] + forgotten[c]
                       + (IF Recorded(c) THEN 1 ELSE 0)
    BY DEF Account
  <2>3. QED
    BY <2>1, <2>2
<1>5. QED
  BY <1>1, <1>2, <1>3, <1>4

\* A pass that fails, rolled back (engine) or caught (create).
LEMMA FailedPass ==
    ASSUME TypeInv, TypeInv', SafetyInv, SilentCall, InPass, PassFails,
           UNCHANGED <<bot, req>>
    PROVE  SafetyInv'
<1>1. CASE at' = "error" /\ DropSession /\ Forgotten(sent)
  BY <1>1, DropStep
<1>2. CASE /\ sess.by = "create" /\ at' = "commit"
           /\ sess' = [sess EXCEPT !.failed = TRUE]
           /\ UNCHANGED <<view, pending, sent, forgotten>>
  <2>1. /\ sess'.by = sess.by /\ sess'.ver = sess.ver /\ sess'.idx = sess.idx
        /\ sess'.restarted = sess.restarted
    BY <1>2 DEF TypeInv, TypeOK, Session
  <2>2. QED
    BY <1>2, <2>1, SurvivedCall
<1>3. QED
  BY <1>1, <1>2 DEF PassFails

\* A place_order attempt without a reply.
LEMMA RetriedCall ==
    ASSUME TypeInv, TypeInv', SafetyInv, SilentCall, at = "place", RetryOrFail,
           UNCHANGED <<bot, req>>
    PROVE  SafetyInv'
<1>1. InPass
  BY DEF InPass
<1>2. CASE PassFails
  BY <1>1, <1>2, FailedPass
<1>3. CASE /\ sess' = [sess EXCEPT !.tries = @ + 1]
           /\ UNCHANGED <<at, view, pending, sent, forgotten>>
  <2>1. /\ sess'.by = sess.by /\ sess'.ver = sess.ver /\ sess'.idx = sess.idx
        /\ sess'.restarted = sess.restarted
    BY <1>3 DEF TypeInv, TypeOK, Session
  <2>2. QED
    BY <1>1, <1>3, <2>1, SurvivedCall
<1>4. QED
  BY <1>2, <1>3 DEF RetryOrFail

\* The pass moves on without learning or changing anything.
LEMMA MoveStep ==
    ASSUME SafetyInv, InPass, at \notin {"sync", "place"},
           at' \in {"ropen", "rcancel", "row", "place", "commit"},
           at' \in {"ropen", "rcancel"} => at \in {"rpos", "ropen"},
           at' = "place" => view[Current'] = "noex",
           sess'.by = sess.by, sess'.restarted = sess.restarted,
           UNCHANGED <<bot, rows, open, accepted, view, pending, sent, req,
                       lossVars>>
    PROVE  SafetyInv'
<1> USE DEF SafetyInv, InPass, lossVars
<1>1. PassShape'
  BY DEF PassShape
<1>2. Knowledge'
  BY DEF Knowledge
<1>3. OpenKnown'
  BY DEF OpenKnown
<1>4. Account'
  BY DEF Account, Recorded
<1>5. QED
  BY <1>1, <1>2, <1>3, <1>4

\* Moving to the next level changes neither the owner nor the restart mark.
LEMMA AdvanceKeeps ==
    ASSUME TypeInv, Advance
    PROVE  /\ sess'.by = sess.by /\ sess'.restarted = sess.restarted
           /\ at' \in {"row", "commit"}
  BY DEF TypeInv, TypeOK, Session, Advance

\* After the sync the session knows every open order.
LEMMA SyncSafe ==
    ASSUME TypeInv, SafetyInv, Sync PROVE SafetyInv'
<1> USE DEF SafetyInv, Sync, InPass, dbVars, exVars, lossVars, histVars, numberVars
<1>1. PassShape'
  BY DEF PassShape
<1>2. sent = {}
  BY DEF PassShape
<1>3. Knowledge'
  BY <1>2 DEF Knowledge, TypeInv, TypeOK
<1>4. OpenKnown'
  BY DEF OpenKnown, TypeInv, TypeOK
<1>5. Account'
  BY DEF Account, Recorded
<1>6. QED
  BY <1>1, <1>3, <1>4, <1>5

\* A re-created grid forgets every row, and counts once for each order
\* that was on record.
LEMMA RestartSafe ==
    ASSUME TypeInv, TypeInv', SafetyInv, RestartGrid PROVE SafetyInv'
<1> USE DEF SafetyInv, RestartGrid, InPass, dbVars, lossVars
<1>1. sess'.by = sess.by /\ sess'.restarted
  BY DEF TypeInv, TypeOK, Session
<1>2. sent = {} /\ ~sess.restarted
  BY DEF PassShape
<1>3. PassShape'
  BY <1>1 DEF PassShape
<1>4. Knowledge'
  BY <1>1, <1>2, Defaults DEF Knowledge
<1>5. OpenKnown'
  BY DEF OpenKnown
<1>6. Account'
  <2> SUFFICES ASSUME NEW c \in Cid
               PROVE accepted[c] <= unheard[c] + forgotten'[c] + 0
    BY <1>1, <1>2 DEF Account, Recorded
  <2>1. accepted[c] \in Nat /\ unheard[c] \in Nat /\ forgotten[c] \in Nat
    BY DEF TypeInv, TypeOK
  <2>2. forgotten'[c] = IF rows[c] = "ex" THEN forgotten[c] + 1 ELSE forgotten[c]
    BY DEF Forgotten
  <2>3. accepted[c] <= unheard[c] + forgotten[c] + (IF Recorded(c) THEN 1 ELSE 0)
    BY DEF Account
  <2>4. QED
    BY <1>2, <2>1, <2>2, <2>3 DEF Recorded
<1>7. QED
  BY <1>3, <1>4, <1>5, <1>6

\* A new row, and the flush of those the sync has added.
LEMMA AddRowSafe ==
    ASSUME TypeInv, TypeInv', SafetyInv, AddRow PROVE SafetyInv'
<1> USE DEF SafetyInv, AddRow, InPass, dbVars, exVars, lossVars, histVars, numberVars
<1>1. /\ sess'.by = sess.by /\ sess'.restarted = sess.restarted
      /\ Current' = Current /\ Current \in Cid
  BY CurrentType DEF TypeInv, TypeOK, Session, Current
<1>2. PassShape'
  BY <1>1 DEF PassShape
<1>3. Knowledge'
  BY <1>1 DEF Knowledge
<1>4. OpenKnown'
  BY <1>1 DEF OpenKnown, TypeInv, TypeOK
<1>5. Account'
  BY <1>1 DEF Account, Recorded
<1>6. QED
  BY <1>2, <1>3, <1>4, <1>5

\* An acknowledged order was not on record and now is.
LEMMA PlaceAckSafe ==
    ASSUME TypeInv, TypeInv', SafetyInv, PlaceAck PROVE SafetyInv'
<1> USE DEF SafetyInv, PlaceAck, InPass, dbVars, lossVars, histVars, numberVars
<1>1. /\ sess'.by = sess.by /\ sess'.restarted = sess.restarted
      /\ at' \in {"row", "commit"}
  BY AdvanceKeeps
<1>2. Current \in Cid /\ view[Current] = "noex" /\ view \in [Cid -> RowState]
  BY CurrentType DEF TypeInv, TypeOK, Knowledge
<1>3. view' = [view EXCEPT ![Current] = "ex"] /\ sent' = sent \cup {Current}
  OBVIOUS
<1>4. /\ accepted' = [accepted EXCEPT ![Current] = @ + 1]
      /\ open' \subseteq open \cup {Current}
  BY DEF Accept
<1>5. PassShape'
  BY <1>1 DEF PassShape
<1>6. Knowledge'
  <2>1. ASSUME NEW c \in Cid,
               rows[c] = "ex" \/ view'[c] = "ex" \/ c \in pending \cup open'
        PROVE  accepted'[c] >= 1
    <3>1. accepted[c] \in Nat /\ accepted \in [Cid -> Nat]
      BY DEF TypeInv, TypeOK
    <3>2. CASE c = Current
      BY <1>2, <1>4, <3>1, <3>2
    <3>3. CASE c # Current
      BY <1>2, <1>3, <1>4, <2>1, <3>1, <3>3 DEF Knowledge
    <3>4. QED
      BY <3>2, <3>3
  <2>2. ASSUME NEW c \in Cid
        PROVE  /\ c \in sent' => view'[c] = "ex"
               /\ ~sess.restarted /\ rows[c] = "ex" => view'[c] = "ex"
    BY <1>2, <1>3 DEF Knowledge
  <2>3. QED
    BY <1>1, <2>1, <2>2 DEF Knowledge
<1>7. OpenKnown'
  <2> SUFFICES ASSUME sess.by = "engine", NEW c \in open'
               PROVE  view'[c] = "ex" \/ c \in pending
    BY <1>1 DEF OpenKnown
  <2>1. c \in Cid
    BY <1>2, <1>4 DEF TypeInv, TypeOK
  <2>2. CASE c = Current
    BY <1>2, <1>3, <2>2
  <2>3. CASE c # Current
    BY <1>2, <1>3, <1>4, <2>1, <2>3 DEF OpenKnown
  <2>4. QED
    BY <2>2, <2>3
<1>8. Account'
  <2> SUFFICES ASSUME NEW c \in Cid
               PROVE accepted'[c] <= unheard[c] + forgotten[c]
                                     + (IF Recorded(c)' THEN 1 ELSE 0)
    BY DEF Account
  <2>1. /\ accepted[c] \in Nat /\ unheard[c] \in Nat /\ forgotten[c] \in Nat
        /\ accepted \in [Cid -> Nat]
    BY DEF TypeInv, TypeOK
  <2>2. accepted[c] <= unheard[c] + forgotten[c]
                       + (IF Recorded(c) THEN 1 ELSE 0)
    BY DEF Account
  <2>3. CASE c = Current
    <3>1. ~Recorded(c) /\ Recorded(c)'
      BY <1>1, <1>2, <1>3, <2>3 DEF Recorded, Knowledge
    <3>2. accepted'[c] = accepted[c] + 1
      BY <1>2, <1>4, <2>1, <2>3
    <3>3. QED
      BY <2>1, <2>2, <3>1, <3>2
  <2>4. CASE c # Current
    <3>1. Recorded(c)' <=> Recorded(c)
      BY <1>1, <1>3, <2>4 DEF Recorded
    <3>2. accepted'[c] = accepted[c]
      BY <1>2, <1>4, <2>1, <2>4
    <3>3. QED
      BY <2>2, <3>1, <3>2
  <2>5. QED
    BY <2>3, <2>4
<1>9. QED
  BY <1>5, <1>6, <1>7, <1>8

\* The safety invariant, over the steps of a pass.
LEMMA PassStepSafe ==
    ASSUME TypeInv, TypeInv', SafetyInv, PassStep PROVE SafetyInv'
<1> USE DEF InPass, dbVars, exVars, lossVars, histVars, numberVars
<1>1. CASE RestartReadsPosition
  BY <1>1, MoveStep DEF RestartReadsPosition
<1>2. CASE RestartReadsOrders
  BY <1>2, MoveStep DEF RestartReadsOrders
<1>3. CASE SkipRecorded
  BY <1>3, MoveStep, AdvanceKeeps DEF SkipRecorded
<1>4. CASE ReuseRow
  BY <1>4, MoveStep DEF ReuseRow, Current
<1>5. CASE AddRowConflicts
  <2>1. SilentCall
    BY <1>5 DEF SilentCall, AddRowConflicts, TypeInv, TypeOK
  <2>2. QED
    BY <1>5, <2>1, FailedPass DEF AddRowConflicts
<1>6. CASE PlaceLost
  <2>1. Current \in Cid
    BY CurrentType DEF TypeInv, TypeOK
  <2>2. /\ accepted' = [accepted EXCEPT ![Current] = @ + 1]
        /\ open' \subseteq open \cup {Current}
        /\ unheard' = [c \in Cid |-> IF c = Current THEN unheard[c] + 1 ELSE unheard[c]]
    BY <1>6 DEF PlaceLost, Accept, Unheard
  <2>3. /\ accepted \in [Cid -> Nat] /\ unheard \in [Cid -> Nat] /\ open' \subseteq Cid
    BY DEF TypeInv, TypeOK
  <2>4. SilentCall
    BY <1>6, <2>1, <2>2, <2>3 DEF PlaceLost, SilentCall
  <2>5. QED
    BY <1>6, <2>4, RetriedCall DEF PlaceLost
<1>7. CASE PlaceUnreached
  <2>1. SilentCall
    BY <1>7 DEF SilentCall, PlaceUnreached, TypeInv, TypeOK
  <2>2. QED
    BY <1>7, <2>1, RetriedCall DEF PlaceUnreached
<1>8. CASE PlaceRejected
  <2>1. SilentCall
    BY <1>8 DEF SilentCall, PlaceRejected, TypeInv, TypeOK
  <2>2. QED
    BY <1>8, <2>1, FailedPass DEF PlaceRejected
<1>9. CASE CallFails
  <2>1. SilentCall
    BY <1>9 DEF SilentCall, CallFails, TypeInv, TypeOK
  <2>2. QED
    BY <1>9, <2>1, FailedPass DEF CallFails
<1>10. QED
  BY <1>1, <1>2, <1>3, <1>4, <1>5, <1>6, <1>7, <1>8, <1>9,
     SyncSafe, RestartSafe, AddRowSafe, PlaceAckSafe
  DEF PassStep

\* ... over the start of create_bot's pass,
LEMMA BeginCreateSafe ==
    ASSUME TypeInv, SafetyInv, BeginCreate PROVE SafetyInv'
<1> USE DEF SafetyInv, BeginCreate, InPass, dbVars, exVars, lossVars, histVars, numberVars
<1>1. /\ sess'.by = "create" /\ ~sess'.restarted /\ at' = "sync"
      /\ view = NoRows /\ pending = {} /\ sent = {}
      /\ bot.life = "ABSENT" /\ rows = NoRows /\ ~sess.restarted
  BY Defaults DEF PassShape, Session
<1>2. PassShape'
  BY <1>1 DEF PassShape
<1>3. Knowledge'
  BY <1>1, Defaults DEF Knowledge
<1>4. OpenKnown'
  BY <1>1 DEF OpenKnown
<1>5. Account'
  BY <1>1 DEF Account, Recorded
<1>6. QED
  BY <1>2, <1>3, <1>4, <1>5

\* ... of the engine's pass,
LEMMA BeginPassSafe ==
    ASSUME TypeInv, SafetyInv, BeginPass PROVE SafetyInv'
<1> USE DEF SafetyInv, BeginPass, InPass, dbVars, exVars, lossVars, histVars, numberVars
<1>1. /\ view = NoRows /\ pending = {} /\ sent = {} /\ sess = NoSession
      /\ ~sess.restarted /\ bot.life # "ABSENT"
  BY Defaults DEF PassShape, Tracked
<1>2. CASE keyLive
  <2>1. /\ sess'.by = "engine" /\ ~sess'.restarted /\ at' = "sync" /\ view' = rows
    BY <1>2, Defaults DEF Session
  <2>2. PassShape'
    BY <1>1, <2>1 DEF PassShape
  <2>3. Knowledge'
    BY <1>1, <2>1 DEF Knowledge
  <2>4. OpenKnown'
    BY <2>1 DEF OpenKnown
  <2>5. Account'
    BY <1>1, <2>1 DEF Account, Recorded
  <2>6. QED
    BY <2>2, <2>3, <2>4, <2>5
<1>3. CASE ~keyLive
  <2>1. at' = "error" /\ UNCHANGED <<sess, view>>
    BY <1>3
  <2>2. PassShape'
    BY <1>1, <2>1 DEF PassShape
  <2>3. Knowledge'
    BY <1>1, <2>1, Defaults DEF Knowledge
  <2>4. OpenKnown'
    BY <1>1, <2>1, Defaults DEF OpenKnown
  <2>5. Account'
    BY <1>1, <2>1 DEF Account, Recorded
  <2>6. QED
    BY <2>2, <2>3, <2>4, <2>5
<1>4. QED
  BY <1>2, <1>3

\* ... over the engine's commit,
LEMMA CommitPassSafe ==
    ASSUME TypeInv, SafetyInv, CommitPass PROVE SafetyInv'
<1> USE DEF SafetyInv, CommitPass, DropSession, InPass, exVars, lossVars, histVars, numberVars
<1>1. bot.life # "ABSENT" /\ bot'.life = bot.life
  BY DEF PassShape, TypeInv, TypeOK, BotRow
<1>2. PassShape'
  BY <1>1, Defaults DEF PassShape
<1>3. Knowledge'
  BY Defaults DEF Knowledge
<1>4. OpenKnown'
  BY Defaults DEF OpenKnown
<1>5. Account'
  <2> SUFFICES ASSUME NEW c \in Cid
               PROVE accepted[c] <= unheard[c] + forgotten[c]
                                    + (IF rows'[c] = "ex" THEN 1 ELSE 0)
    BY Defaults DEF Account, Recorded
  <2>1. Recorded(c) => rows'[c] = "ex"
    BY DEF Recorded, Knowledge
  <2>2. /\ accepted[c] \in Nat /\ unheard[c] \in Nat /\ forgotten[c] \in Nat
    BY DEF TypeInv, TypeOK
  <2>3. accepted[c] <= unheard[c] + forgotten[c]
                       + (IF Recorded(c) THEN 1 ELSE 0)
    BY DEF Account
  <2>4. QED
    BY <2>1, <2>2, <2>3
<1>6. QED
  BY <1>2, <1>3, <1>4, <1>5

\* ... over create_bot's commit,
LEMMA CommitCreateSafe ==
    ASSUME TypeInv, SafetyInv, CommitCreate PROVE SafetyInv'
<1> USE DEF SafetyInv, CommitCreate, DropSession, InPass, exVars
<1>1. bot.life = "ABSENT" /\ bot'.life = "ACTIVE" /\ rows = NoRows
  BY DEF PassShape
<1>2. \A c \in Cid : rows'[c] = "ex" => view[c] = "ex"
  BY DEF TypeInv, TypeOK
<1>3. PassShape'
  BY <1>1, Defaults DEF PassShape
<1>4. Knowledge'
  BY <1>2, Defaults DEF Knowledge
<1>5. OpenKnown'
  BY Defaults DEF OpenKnown
<1>6. Account'
  <2> SUFFICES ASSUME NEW c \in Cid
               PROVE accepted[c] <= unheard[c] + forgotten'[c]
                                    + (IF rows'[c] = "ex" THEN 1 ELSE 0)
    BY Defaults DEF Account, Recorded
  <2>1. Recorded(c) => view[c] = "ex"
    BY <1>1, Defaults DEF Recorded, Knowledge
  <2>2. \/ forgotten'[c] = forgotten[c] + 1
        \/ forgotten'[c] = forgotten[c] /\ (view[c] = "ex" => rows'[c] = "ex")
    BY DEF Forgotten, TypeInv, TypeOK
  <2>3. /\ accepted[c] \in Nat /\ unheard[c] \in Nat /\ forgotten[c] \in Nat
    BY DEF TypeInv, TypeOK
  <2>4. accepted[c] <= unheard[c] + forgotten[c]
                       + (IF Recorded(c) THEN 1 ELSE 0)
    BY DEF Account
  <2>5. QED
    BY <2>1, <2>2, <2>3, <2>4
<1>7. QED
  BY <1>3, <1>4, <1>5, <1>6

\* The engine's process takes a task with it, or had none.
LEMMA CrashCases ==
    EngineCrash => \/ TaskVanishes
                   \/ UNCHANGED <<dbVars, exVars, passVars, req, lossVars, numberVars>>
  BY DEF EngineCrash

\* ... over a rollback by crash or cancellation,
LEMMA DroppedSafe ==
    ASSUME TypeInv, TypeInv', SafetyInv, CreateAborted \/ TaskVanishes PROVE SafetyInv'
<1>1. SilentCall
  BY DEF CreateAborted, TaskVanishes, SilentCall, TypeInv, TypeOK, dbVars, exVars
<1>2. CASE CreateAborted
  <2>1. bot'.life = "GONE"
    BY <1>2 DEF CreateAborted, TypeInv, TypeOK, BotRow
  <2>2. QED
    BY <1>1, <1>2, <2>1, DropStep DEF CreateAborted
<1>3. CASE TaskVanishes
  BY <1>1, <1>3, DropStep DEF TaskVanishes, dbVars
<1>4. QED
  BY <1>2, <1>3

\* ... over the error handler,
LEMMA HandleErrorSafe ==
    ASSUME TypeInv, SafetyInv, HandleError PROVE SafetyInv'
<1> USE DEF SafetyInv, HandleError, InPass, exVars, lossVars
<1>1. bot'.life = bot.life
  BY DEF TypeInv, TypeOK, BotRow
<1>2. PassShape'
  BY <1>1 DEF PassShape
<1>3. Knowledge'
  BY DEF Knowledge
<1>4. OpenKnown'
  BY Defaults DEF OpenKnown, PassShape
<1>5. Account'
  BY DEF Account, Recorded
<1>6. QED
  BY <1>2, <1>3, <1>4, <1>5

\* ... and over the steps of a request.
LEMMA RequestStepSafe ==
    ASSUME TypeInv, TypeInv', SafetyInv, NEW r \in Requests, RequestStep(r)
    PROVE  SafetyInv'
<1> USE DEF dbVars, exVars, histVars, numberVars
<1>1. ASSUME NEW q \in Requests
      PROVE /\ req[q].op # "none" => bot.life # "ABSENT"
            /\ req[q].at # "idle" => req[q].op # "none"
  BY DEF SafetyInv, PassShape
<1>2. ASSUME NEW q \in Requests
      PROVE /\ req'[q].op # "none" => bot.life # "ABSENT"
            /\ req'[q].at # "idle" => req'[q].op # "none"
  <2>1. CASE BeginStop(r) \/ BeginClose(r) \/ BeginDelete(r) \/ BeginPatch(r)
    <3>1. bot.life # "ABSENT"
      BY <2>1 DEF BeginStop, BeginClose, BeginDelete, BeginPatch, Found
    <3>2. req \in [Requests -> Request]
      BY DEF TypeInv, TypeOK
    <3>3. q # r => req'[q] = req[q]
      BY <2>1, <3>2 DEF BeginStop, BeginClose, BeginDelete, BeginPatch, Reads
    <3>4. req'[r].op # "none"
      <4>1. ASSUME NEW op, NEW at0, op # "none", Reads(r, op, at0)
            PROVE  req'[r].op # "none"
        BY <3>2, <4>1, Defaults DEF Reads, Request
      <4>2. CASE BeginStop(r) \/ BeginClose(r) \/ BeginDelete(r)
        BY <4>1, <4>2 DEF BeginStop, BeginClose, BeginDelete
      <4>3. CASE BeginPatch(r)
        BY <3>2, <4>3, Defaults DEF BeginPatch, Request
      <4>4. QED
        BY <2>1, <4>2, <4>3
    <3>5. QED
      BY <1>1, <3>1, <3>3, <3>4
  <2>2. CASE \/ CancelAll(r) \/ SkipCancel(r) \/ ReadPositions(r) \/ Reduce(r)
    <3>1. req \in [Requests -> Request]
      BY DEF TypeInv, TypeOK
    <3>2. req'[q].op = req[q].op /\ (q # r => req'[q] = req[q])
      BY <2>2, <3>1 DEF CancelAll, SkipCancel, ReadPositions, Reduce, Request
    <3>3. req[r].op # "none"
      BY <1>1, <2>2 DEF CancelAll, SkipCancel, ReadPositions, Reduce
    <3>4. QED
      BY <1>1, <3>2, <3>3
  <2>3. CASE CommitRequest(r) \/ RequestFails(r)
    <3>1. req \in [Requests -> Request]
      BY DEF TypeInv, TypeOK
    <3>2. req' = [req EXCEPT ![r] = NoRequest]
      BY <2>3 DEF CommitRequest, RequestFails
    <3>3. QED
      BY <1>1, <3>1, <3>2, Defaults
  <2>4. QED
    BY <2>1, <2>2, <2>3 DEF RequestStep
<1>3. (bot'.life = "ABSENT") <=> (bot.life = "ABSENT")
  <2>1. CASE CommitRequest(r)
    <3>1. bot.life # "ABSENT"
      BY <1>1, <2>1 DEF CommitRequest
    <3>2. bot'.life # "ABSENT"
      BY <2>1, <3>1 DEF CommitRequest, TypeInv, TypeOK, BotRow
    <3>3. QED
      BY <3>1, <3>2
  <2>2. CASE ~CommitRequest(r)
    BY <2>2 DEF RequestStep, BeginStop, BeginClose, BeginDelete, BeginPatch, CancelAll,
                SkipCancel, ReadPositions, Reduce, RequestFails
  <2>3. QED
    BY <2>1, <2>2
<1>4. /\ UNCHANGED <<rows, passVars, accepted, lossVars>>
      /\ open' \subseteq open
  BY DEF RequestStep, BeginStop, BeginClose, BeginDelete, BeginPatch, CancelAll,
         SkipCancel, ReadPositions, Reduce, RequestFails, CommitRequest
<1>5. QED
  BY <1>2, <1>3, <1>4, QuietStep

\* SafetyInv is inductive relative to TypeInv.
LEMMA NextSafety == TypeInv /\ TypeInv' /\ SafetyInv /\ [Next]_vars => SafetyInv'
<1> SUFFICES ASSUME TypeInv, TypeInv', SafetyInv, [Next]_vars PROVE SafetyInv'
  OBVIOUS
<1> USE DEF dbVars, exVars, histVars, numberVars
<1>1. \A q \in Requests : /\ req[q].op # "none" => bot.life # "ABSENT"
                          /\ req[q].at # "idle" => req[q].op # "none"
  BY DEF SafetyInv, PassShape
<1>2. CASE UNCHANGED vars
  BY <1>1, <1>2, QuietStep DEF vars
<1>3. CASE EndTask \/ SupervisorStart \/ EngineStarts
  BY <1>1, <1>3, QuietStep DEF EndTask, SupervisorStart, EngineStarts
<1>4. CASE Fill \/ Flatten \/ DeleteApiKey
  BY <1>1, <1>4, QuietStep DEF Fill, Flatten, DeleteApiKey
<1>5. CASE SupervisorCancel \/ EngineCrash
  <2>1. CASE TaskVanishes
    BY <2>1, DroppedSafe
  <2>2. CASE UNCHANGED <<dbVars, exVars, passVars, req, lossVars, numberVars>>
    BY <1>1, <2>2, QuietStep
  <2>3. QED
    BY <1>5, <2>1, <2>2, CrashCases DEF SupervisorCancel
<1>6. CASE BeginCreate \/ CommitCreate \/ CreateAborted
  BY <1>6, BeginCreateSafe, CommitCreateSafe, DroppedSafe
<1>7. CASE BeginPass \/ PassStep \/ CommitPass \/ HandleError
  BY <1>7, BeginPassSafe, PassStepSafe, CommitPassSafe, HandleErrorSafe
<1>8. CASE \E r \in Requests : RequestStep(r)
  BY <1>8, RequestStepSafe
<1>9. QED
  BY <1>2, <1>3, <1>4, <1>5, <1>6, <1>7, <1>8
  DEF Next, EngineStep, Supervision, Environment

\* The two invariants hold in every reachable state.
LEMMA Invariance == Spec => [](TypeInv /\ SafetyInv)
<1>1. Init => TypeInv /\ SafetyInv
  BY InitTypes, InitSafety
<1>2. TypeInv /\ SafetyInv /\ [Next]_vars => (TypeInv /\ SafetyInv)'
  BY NextTypes, NextSafety
<1>3. QED
  BY <1>1, <1>2, PTL DEF Spec

\* The database never holds an exchange id the exchange did not give.
THEOREM NoPhantom == Spec => []NoPhantomOrder
<1>1. TypeInv /\ SafetyInv => NoPhantomOrder
  BY DEF SafetyInv, Knowledge, NoPhantomOrder
<1>2. QED
  BY <1>1, Invariance, PTL

\* However many passes fail, are cancelled or crash, and whatever the users do
\* meanwhile, an order is accepted once, and once more for each reply that was
\* lost, each session that was rolled back and each deletion of its row.
THEOREM Duplicates == Spec => []DuplicatesAccounted
<1>1. TypeInv /\ SafetyInv => DuplicatesAccounted
  <2> SUFFICES ASSUME TypeInv, SafetyInv, NEW c \in Cid
               PROVE accepted[c] <= 1 + unheard[c] + forgotten[c]
    BY DEF DuplicatesAccounted
  <2>1. /\ accepted[c] \in Nat /\ unheard[c] \in Nat /\ forgotten[c] \in Nat
    BY DEF TypeInv, TypeOK
  <2>2. accepted[c] <= unheard[c] + forgotten[c]
                       + (IF Recorded(c) THEN 1 ELSE 0)
    BY DEF SafetyInv, Account
  <2>3. QED
    BY <2>1, <2>2
<1>2. QED
  BY <1>1, Invariance, PTL

\* A pass that commits leaves no open order unknown to the database.
THEOREM CommitKnows == Spec => CommittedPassKnowsOpenOrders
<1>1. TypeInv /\ SafetyInv /\ [Next]_vars =>
        [CommitPass => \A c \in open : rows'[c] = "ex"]_vars
  BY DEF SafetyInv, OpenKnown, CommitPass, TypeInv, TypeOK
<1>2. QED
  BY <1>1, Invariance, PTL DEF Spec, CommittedPassKnowsOpenOrders

\* An order on record is placed again only by a pass that re-creates the grid.
THEOREM RecordedOnce == Spec => RecordedNotResent
<1>1. ASSUME TypeInv, SafetyInv, [Next]_vars, NEW c \in Cid,
             accepted'[c] > accepted[c], rows[c] = "ex"
      PROVE  sess.restarted
  <2>1. accepted \in [Cid -> Nat] /\ accepted[c] \in Nat
    BY <1>1 DEF TypeInv, TypeOK
  <2>2. accepted' # accepted
    BY <1>1, <2>1
  <2>3. PlaceAck \/ PlaceLost
    <3> USE DEF dbVars, exVars
    <3>1. ~UNCHANGED vars
      BY <2>2 DEF vars
    <3>2. ~(BeginCreate \/ CommitCreate \/ CreateAborted \/ BeginPass \/ EndTask)
      BY <2>2 DEF BeginCreate, CommitCreate, CreateAborted, BeginPass, EndTask
    <3>3. ~(CommitPass \/ HandleError \/ Supervision \/ Environment)
      BY <2>2
      DEF CommitPass, HandleError, Supervision, SupervisorStart, SupervisorCancel,
          Environment, EngineCrash, EngineStarts, TaskVanishes, Fill, Flatten, DeleteApiKey
    <3>4. ~(Sync \/ RestartReadsPosition \/ RestartReadsOrders \/ RestartGrid)
      BY <2>2 DEF Sync, RestartReadsPosition, RestartReadsOrders, RestartGrid
    <3>5. ~(SkipRecorded \/ ReuseRow \/ AddRow \/ AddRowConflicts)
      BY <2>2 DEF SkipRecorded, ReuseRow, AddRow, AddRowConflicts
    <3>6. ~(PlaceUnreached \/ PlaceRejected \/ CallFails)
      BY <2>2 DEF PlaceUnreached, PlaceRejected, CallFails
    <3>7. ASSUME NEW r \in Requests PROVE ~RequestStep(r)
      BY <2>2
      DEF RequestStep, BeginStop, BeginClose, BeginDelete, BeginPatch, CancelAll,
          SkipCancel, ReadPositions, Reduce, CommitRequest, RequestFails
    <3>8. QED
      BY <1>1, <3>1, <3>2, <3>3, <3>4, <3>5, <3>6, <3>7 DEF Next, EngineStep, PassStep
  <2>4. at = "place" /\ accepted' = [accepted EXCEPT ![Current] = @ + 1]
    BY <2>3 DEF PlaceAck, PlaceLost, Accept
  <2>5. c = Current
    BY <1>1, <2>1, <2>4
  <2>6. view[c] = "noex"
    BY <1>1, <2>4, <2>5 DEF SafetyInv, Knowledge
  <2>7. QED
    BY <1>1, <2>4, <2>6 DEF SafetyInv, Knowledge, InPass
<1>2. TypeInv /\ SafetyInv /\ [Next]_vars =>
        [\A c \in Cid : accepted'[c] > accepted[c] /\ rows[c] = "ex"
                        => sess.restarted]_vars
  BY <1>1
<1>3. QED
  BY <1>2, Invariance, PTL DEF Spec, RecordedNotResent

\* Stopping, closing and deleting a bot are final, against every pass, error
\* handler and request that was under way.
THEOREM Final == Spec => NeverReactivated
<1>1. ASSUME TypeInv, SafetyInv, [Next]_vars, bot.life # "ABSENT", ~Tracked
      PROVE  ~Tracked'
  <2> USE DEF Tracked
  <2>1. bot \in BotRow
    BY <1>1 DEF TypeInv, TypeOK
  <2>2. CASE UNCHANGED bot
    BY <1>1, <2>2
  <2>3. CASE CommitPass \/ HandleError
    <3>1. bot'.life = bot.life /\ bot'.deleted = bot.deleted
      BY <2>1, <2>3 DEF CommitPass, HandleError, BotRow
    <3>2. QED
      BY <1>1, <3>1
  <2>4. ~CommitCreate /\ ~CreateAborted
    BY <1>1 DEF CommitCreate, CreateAborted, SafetyInv, PassShape
  <2>5. ASSUME NEW r \in Requests, CommitRequest(r)
        PROVE  ~Tracked'
    <3>1. /\ bot'.life \in {"CLOSED", "STOPPED", bot.life}
          /\ bot.deleted => bot'.deleted
      BY <2>1, <2>5 DEF CommitRequest, BotRow
    <3>2. QED
      BY <1>1, <3>1
  <2>6. QED
    BY <1>1, <2>2, <2>3, <2>4, <2>5
    DEF Next, EngineStep, PassStep, Supervision, Environment, RequestStep, vars, dbVars,
        BeginCreate, BeginPass, EndTask, SupervisorStart, SupervisorCancel, EngineCrash,
        EngineStarts, TaskVanishes, Fill, Flatten, DeleteApiKey, BeginStop, BeginClose, BeginDelete,
        BeginPatch, CancelAll, SkipCancel, ReadPositions, Reduce, RequestFails, Sync,
        RestartReadsPosition, RestartReadsOrders, RestartGrid, SkipRecorded, ReuseRow,
        AddRow, AddRowConflicts, PlaceAck, PlaceLost, PlaceUnreached, PlaceRejected,
        CallFails
<1>2. TypeInv /\ SafetyInv /\ [Next]_vars =>
        [bot.life # "ABSENT" /\ ~Tracked => ~Tracked']_vars
  BY <1>1
<1>3. QED
  BY <1>2, Invariance, PTL DEF Spec, NeverReactivated

-----------------------------------------------------------------------------
(* The engine implements the ledger.                                       *)

\* What the ledger needs holds initially, and as long as a step adds no
\* acknowledgement, books nothing and leaves the session's owner alone.
LEMMA InitLedgerShape == Init => LedgerShape
  BY Defaults DEF Init, LedgerShape

\* A session that is dropped leaves nothing to keep.
LEMMA DroppedLedgerShape == DropSession => LedgerShape'
  BY Defaults DEF DropSession, LedgerShape

\* A failed pass is dropped by the engine, and marked by create_bot.
LEMMA FailedLedgerShape ==
    ASSUME TypeInv, LedgerShape, PassFails, UNCHANGED rows PROVE LedgerShape'
<1>1. CASE DropSession
  BY <1>1, DroppedLedgerShape
<1>2. CASE /\ at' = "commit" /\ sess' = [sess EXCEPT !.failed = TRUE]
           /\ UNCHANGED <<view, pending, sent, forgotten>>
  BY <1>2 DEF LedgerShape, TypeInv, TypeOK, Session
<1>3. QED
  BY <1>1, <1>2 DEF PassFails

\* A level that is done with: the last one leads to the commit.
LEMMA AdvanceLedgerShape ==
    ASSUME TypeInv, LedgerShape, Advance, at \in {"row", "place"}, view'[Current] = "ex",
           \A c \in sent' : c \in sent \/ (~sess.restarted => rows[c] # "ex"),
           UNCHANGED rows
    PROVE  LedgerShape'
<1>1. /\ sess'.by = sess.by /\ sess'.restarted = sess.restarted /\ sess'.ver = sess.ver
      /\ at' \in {"row", "commit"} /\ (at' = "commit" => sess.idx = Legs)
  BY DEF TypeInv, TypeOK, Session, Advance
<1>2. sess.by = "create" /\ at' = "commit" => Current = <<1, Legs>>
  BY <1>1 DEF Current, LedgerShape
<1>3. QED
  BY <1>1, <1>2 DEF LedgerShape

\* ... over every step.
LEMMA NextLedgerShape ==
    TypeInv /\ SafetyInv /\ LedgerShape /\ [Next]_vars => LedgerShape'
<1> SUFFICES ASSUME TypeInv, SafetyInv, LedgerShape, [Next]_vars PROVE LedgerShape'
  OBVIOUS
<1> USE DEF dbVars, exVars, passVars, lossVars, histVars, numberVars
<1>1. ASSUME UNCHANGED <<rows, passVars>> PROVE LedgerShape'
  BY <1>1 DEF LedgerShape
<1>2. CASE \/ UNCHANGED vars \/ EndTask \/ SupervisorStart \/ EngineStarts \/ Fill
           \/ Flatten \/ DeleteApiKey \/ \E r \in Requests : RequestStep(r)
  <2>1. CASE \/ UNCHANGED vars \/ EndTask \/ SupervisorStart \/ EngineStarts \/ Fill
             \/ Flatten \/ DeleteApiKey
    BY <1>1, <2>1
    DEF vars, EndTask, SupervisorStart, EngineStarts, Fill, Flatten, DeleteApiKey
  <2>2. ASSUME NEW r \in Requests, RequestStep(r) PROVE UNCHANGED <<rows, passVars>>
    BY <2>2
    DEF RequestStep, BeginStop, BeginClose, BeginDelete, BeginPatch, CancelAll, SkipCancel,
        ReadPositions, Reduce, CommitRequest, RequestFails
  <2>3. QED
    BY <1>1, <1>2, <2>1, <2>2
<1>3. CASE CommitPass \/ CommitCreate \/ CreateAborted \/ SupervisorCancel \/ EngineCrash
  BY <1>1, <1>3, DroppedLedgerShape, CrashCases
  DEF CommitPass, CommitCreate, CreateAborted, SupervisorCancel, TaskVanishes
<1>4. CASE HandleError
  BY <1>4, Defaults DEF HandleError, LedgerShape, SafetyInv, PassShape, InPass
<1>5. CASE BeginCreate
  <2>1. sess'.ver = 1 /\ ~sess'.restarted /\ at' = "sync"
    BY <1>5 DEF BeginCreate, NoSession
  <2>2. view' = NoRows /\ sent' = {}
    BY <1>5 DEF BeginCreate, SafetyInv, PassShape, InPass
  <2>3. QED
    BY <2>1, <2>2 DEF LedgerShape
<1>6. CASE BeginPass
  BY <1>6, Defaults DEF BeginPass, LedgerShape, SafetyInv, PassShape, InPass, Session
<1>7. CASE Sync
  <2>1. sess.by = "create" => view' = view
    BY <1>7, Defaults DEF Sync, LedgerShape, NoRows
  <2>2. QED
    BY <1>7, <2>1 DEF Sync, LedgerShape
<1>8. CASE RestartReadsPosition
  BY <1>8 DEF RestartReadsPosition, LedgerShape
<1>9. CASE RestartReadsOrders
  BY <1>9, Defaults DEF RestartReadsOrders, LedgerShape
<1>10. CASE RestartGrid
  BY <1>10 DEF RestartGrid, LedgerShape, TypeInv, TypeOK, Session
<1>11. CASE SkipRecorded
  BY <1>11, AdvanceLedgerShape DEF SkipRecorded
<1>12. CASE ReuseRow
  BY <1>12 DEF ReuseRow, LedgerShape
<1>13. CASE AddRow
  BY <1>13 DEF AddRow, LedgerShape, TypeInv, TypeOK, Session
<1>14. CASE PlaceAck
  <2>1. Current \in Cid /\ view[Current] = "noex" /\ view \in [Cid -> RowState]
    BY <1>14, CurrentType DEF PlaceAck, SafetyInv, Knowledge, TypeInv, TypeOK
  <2>2. ~sess.restarted => rows[Current] # "ex"
    BY <1>14, <2>1 DEF PlaceAck, SafetyInv, Knowledge, InPass
  <2>3. view'[Current] = "ex" /\ sent' = sent \cup {Current}
    BY <1>14, <2>1 DEF PlaceAck
  <2>4. QED
    BY <1>14, <2>2, <2>3, AdvanceLedgerShape DEF PlaceAck
<1>15. CASE PlaceLost \/ PlaceUnreached
  <2>1. CASE PassFails
    BY <1>15, <2>1, FailedLedgerShape DEF PlaceLost, PlaceUnreached
  <2>2. CASE /\ sess' = [sess EXCEPT !.tries = @ + 1]
             /\ UNCHANGED <<at, view, pending, sent, forgotten>>
    BY <1>15, <2>2 DEF PlaceLost, PlaceUnreached, LedgerShape, TypeInv, TypeOK, Session
  <2>3. QED
    BY <1>15, <2>1, <2>2 DEF PlaceLost, PlaceUnreached, RetryOrFail
<1>16. CASE AddRowConflicts \/ PlaceRejected \/ CallFails
  BY <1>16, FailedLedgerShape DEF AddRowConflicts, PlaceRejected, CallFails
<1>17. QED
  BY <1>2, <1>3, <1>4, <1>5, <1>6, <1>7, <1>8, <1>9, <1>10, <1>11, <1>12, <1>13, <1>14,
     <1>15, <1>16
  DEF Next, EngineStep, PassStep, Supervision, Environment

\* The ledger's view of a state: what is on record was taken, and counts are
\* natural numbers.
LEMMA LedgerTypes ==
    ASSUME TypeInv, NEW c \in Cid
    PROVE  /\ accepted[c] \in Nat /\ unheard[c] \in Nat /\ forgotten[c] \in Nat
           /\ view[c] \in RowState /\ rows[c] \in RowState
  BY DEF TypeInv, TypeOK

\* A step that places, forgets, books and re-creates nothing is a stutter.
LEMMA LedgerStutter ==
    ASSUME UNCHANGED <<rows, accepted, unheard, forgotten>>,
           sess'.restarted = sess.restarted
    PROVE  UNCHANGED Ledger!vars
  BY DEF Ledger!vars

\* The orders of S are excused, one by one: they were taken, and have no row
\* but in a grid that is given up.
LEMMA LedgerExcuse ==
    ASSUME TypeInv, TypeInv', NEW S,
           \A c \in Cid : unheard'[c] + forgotten'[c]
                          = IF c \in S THEN (unheard[c] + forgotten[c]) + 1
                                       ELSE unheard[c] + forgotten[c],
           \A c \in Cid : c \in S => accepted'[c] > 0,
           \A c \in Cid : c \in S /\ rows[c] = "ex" =>
                            sess.restarted \/ (sess'.restarted /\ rows'[c] = "ex")
    PROVE  Ledger!Excuse
<1>1. [c \in Cid |-> unheard'[c] + forgotten'[c]] \in [Cid -> Nat]
  BY DEF TypeInv, TypeOK
<1>2. QED
  BY <1>1 DEF Ledger!Excuse

\* A rolled-back session excuses what it had been told.
LEMMA LedgerAbandon ==
    ASSUME TypeInv, TypeInv', SafetyInv, LedgerShape, DropSession, Forgotten(sent),
           UNCHANGED <<rows, accepted, unheard>>
    PROVE  Ledger!Next
<1>1. sent \subseteq Cid
  BY DEF TypeInv, TypeOK
<1>2. ASSUME NEW c \in Cid, c \in sent
      PROVE  accepted'[c] > 0 /\ (rows[c] = "ex" => sess.restarted)
  <2>1. accepted[c] >= 1
    BY <1>2 DEF SafetyInv, Knowledge
  <2>2. QED
    BY <1>2, <2>1, LedgerTypes DEF LedgerShape
<1>3. ASSUME NEW c \in Cid
      PROVE  unheard'[c] + forgotten'[c]
             = IF c \in sent THEN (unheard[c] + forgotten[c]) + 1
                             ELSE unheard[c] + forgotten[c]
  BY LedgerTypes DEF Forgotten
<1>4. sess'.restarted = FALSE
  BY Defaults DEF DropSession
<1>5. Ledger!Excuse
  BY <1>2, <1>3, LedgerExcuse
<1>6. Ledger!Abandon
  BY <1>4, <1>5 DEF Ledger!Abandon
<1>7. QED
  BY <1>6 DEF Ledger!Next

\* A pass that fails abandons its session, or is caught by create_bot.
LEMMA LedgerFailure ==
    ASSUME TypeInv, TypeInv', SafetyInv, LedgerShape, PassFails,
           UNCHANGED <<rows, accepted, unheard>>
    PROVE  Ledger!Next \/ UNCHANGED Ledger!vars
<1>1. CASE DropSession /\ Forgotten(sent)
  BY <1>1, LedgerAbandon
<1>2. CASE sess' = [sess EXCEPT !.failed = TRUE] /\ UNCHANGED forgotten
  BY <1>2, LedgerStutter DEF TypeInv, TypeOK, Session
<1>3. QED
  BY <1>1, <1>2 DEF PassFails

\* An acceptance is a Take, whether its reply arrives or not.
LEMMA LedgerTake ==
    ASSUME TypeInv, TypeInv', SafetyInv, LedgerShape, at = "place", Accept(Current),
           NEW S, S \subseteq sent \cup {Current},
           \A c \in Cid : unheard'[c] + forgotten'[c]
                          = IF c \in S THEN (unheard[c] + forgotten[c]) + 1
                                       ELSE unheard[c] + forgotten[c],
           sess'.restarted \in {sess.restarted, FALSE}, UNCHANGED rows
    PROVE  Ledger!Next
<1>1. Current \in Cid /\ view[Current] = "noex"
  BY CurrentType DEF TypeInv, TypeOK, SafetyInv, Knowledge
<1>2. ~sess.restarted => rows[Current] # "ex"
  BY <1>1 DEF SafetyInv, Knowledge, InPass
<1>3. accepted[Current] <= unheard[Current] + forgotten[Current]
  <2>1. ~Recorded(Current)
    BY <1>1, <1>2 DEF Recorded, SafetyInv, Knowledge
  <2>2. accepted[Current] <= unheard[Current] + forgotten[Current] + 0
    BY <1>1, <2>1 DEF SafetyInv, Account
  <2>3. QED
    BY <1>1, <2>2, LedgerTypes
<1>4. accepted' = [accepted EXCEPT ![Current] = @ + 1]
  BY DEF Accept
<1>5. ASSUME NEW c \in Cid, c \in S
      PROVE  accepted'[c] > 0 /\ (rows[c] = "ex" => sess.restarted)
  <2>1. accepted \in [Cid -> Nat]
    BY DEF TypeInv, TypeOK
  <2>2. CASE c = Current
    BY <1>1, <1>2, <1>4, <2>1, <2>2, LedgerTypes
  <2>3. CASE c # Current
    <3>1. c \in sent
      BY <1>5, <2>3
    <3>2. accepted[c] >= 1 /\ (rows[c] = "ex" => sess.restarted)
      BY <3>1 DEF SafetyInv, Knowledge, LedgerShape
    <3>3. accepted'[c] = accepted[c]
      BY <1>1, <1>4, <2>1, <2>3
    <3>4. QED
      BY <3>2, <3>3, LedgerTypes
  <2>4. QED
    BY <2>2, <2>3
<1>6. Ledger!Excuse
  BY <1>5, LedgerExcuse
<1>7. PICK o \in Cid : o = Current
  BY <1>1
<1>8. Ledger!Take(o)
  BY <1>1, <1>2, <1>3, <1>4, <1>6, <1>7 DEF Ledger!Take
<1>9. QED
  BY <1>8 DEF Ledger!Next

\* A re-created grid gives up what is on record.
LEMMA LedgerRecreate ==
    ASSUME TypeInv, TypeInv', SafetyInv, RestartGrid
    PROVE  Ledger!Next
<1>1. UNCHANGED <<rows, accepted, unheard>> /\ ~sess.restarted /\ sess'.restarted
  BY DEF RestartGrid, SafetyInv, PassShape, TypeInv, TypeOK, Session, dbVars
<1>2. ASSUME NEW c \in Cid
      PROVE  unheard'[c] + forgotten'[c]
             = IF c \in {d \in Cid : rows[d] = "ex"}
               THEN (unheard[c] + forgotten[c]) + 1 ELSE unheard[c] + forgotten[c]
  BY <1>1, LedgerTypes DEF RestartGrid, Forgotten
<1>3. ASSUME NEW c \in Cid, rows[c] = "ex" PROVE accepted'[c] > 0
  <2>1. accepted[c] >= 1
    BY <1>3 DEF SafetyInv, Knowledge
  <2>2. QED
    BY <1>1, <2>1, LedgerTypes
<1>4. Ledger!Excuse
  BY <1>1, <1>2, <1>3, LedgerExcuse
<1>5. Ledger!Recreate
  BY <1>1, <1>4 DEF Ledger!Recreate
<1>6. QED
  BY <1>5 DEF Ledger!Next

\* A commit books what the session knows.
LEMMA LedgerBook ==
    ASSUME TypeInv, TypeInv', SafetyInv, LedgerShape, CommitPass \/ CommitCreate
    PROVE  Ledger!Next
<1> DEFINE S == IF CommitCreate /\ RefreshCascades /\ ~sess.failed
                THEN {<<1, Legs>>} ELSE {}
<1>1. sess'.restarted = FALSE /\ UNCHANGED <<accepted, unheard>>
  BY Defaults DEF CommitPass, CommitCreate, DropSession, exVars, histVars, numberVars, lossVars
<1>2. <<1, Legs>> \in Cid
  BY LegsAssumption, BoundsAssumption DEF Cid, Version, Level
<1>3. ASSUME NEW c \in Cid, rows'[c] = "ex" PROVE accepted[c] > 0
  <2>1. view[c] = "ex" \/ c \in pending
    BY <1>3 DEF CommitPass, CommitCreate, TypeInv, TypeOK
  <2>2. accepted[c] >= 1
    BY <2>1 DEF SafetyInv, Knowledge
  <2>3. QED
    BY <2>2, LedgerTypes
<1>4. ASSUME NEW c \in Cid, rows[c] = "ex", rows'[c] # "ex" PROVE sess.restarted
  <2>1. CASE CommitPass
    BY <1>4, <2>1 DEF CommitPass, SafetyInv, Knowledge, InPass
  <2>2. CASE CommitCreate
    BY <1>4, <2>2, Defaults DEF CommitCreate, SafetyInv, PassShape
  <2>3. QED
    BY <2>1, <2>2
<1>5. ASSUME NEW c \in Cid, c \in S
      PROVE  accepted[c] > 0 /\ rows[c] # "ex" /\ rows'[c] # "ex"
  <2>1. CommitCreate /\ RefreshCascades /\ ~sess.failed /\ c = <<1, Legs>>
    BY <1>5
  <2>2. view[c] = "ex" /\ rows = NoRows
    BY <2>1 DEF CommitCreate, LedgerShape, SafetyInv, PassShape
  <2>3. accepted[c] >= 1 /\ rows[c] # "ex"
    BY <2>2, Defaults DEF SafetyInv, Knowledge
  <2>4. rows'[c] # "ex"
    BY <1>2, <2>1 DEF CommitCreate, TypeInv, TypeOK
  <2>5. QED
    BY <2>3, <2>4, LedgerTypes
<1>6. ASSUME NEW c \in Cid
      PROVE  unheard'[c] + forgotten'[c]
             = IF c \in S THEN (unheard[c] + forgotten[c]) + 1
                          ELSE unheard[c] + forgotten[c]
  <2>1. CASE CommitCreate /\ RefreshCascades /\ ~sess.failed
    BY <1>1, <2>1, LedgerTypes DEF CommitCreate, Forgotten
  <2>2. CASE ~(CommitCreate /\ RefreshCascades /\ ~sess.failed)
    <3>1. S = {} /\ UNCHANGED forgotten
      BY <2>2 DEF CommitPass, CommitCreate, histVars, numberVars, lossVars
    <3>2. QED
      BY <1>1, <3>1
  <2>3. QED
    BY <2>1, <2>2
<1> HIDE DEF S
<1>7. \A c \in Cid : c \in S => accepted'[c] > 0
  BY <1>1, <1>5
<1>8. Ledger!Excuse
  BY <1>5, <1>6, <1>7, LedgerExcuse
<1>9. Ledger!Book
  <2>1. ASSUME NEW c \in {d \in Cid : rows'[d] = "ex"}
        PROVE  /\ accepted[c] > 0
               /\ unheard'[c] + forgotten'[c] = unheard[c] + forgotten[c]
    BY <1>3, <1>5, <1>6
  <2>2. {d \in Cid : rows[d] = "ex"} \ {d \in Cid : rows'[d] = "ex"}
          \subseteq {d \in Cid : sess.restarted /\ rows[d] = "ex"}
    BY <1>4
  <2>3. QED
    BY <1>1, <1>8, <2>1, <2>2 DEF Ledger!Book
<1>10. QED
  BY <1>9 DEF Ledger!Next

\* Every step of the engine is a step of the ledger or leaves it alone.
LEMMA LedgerStep ==
    TypeInv /\ TypeInv' /\ SafetyInv /\ LedgerShape /\ [Next]_vars
        => [Ledger!Next]_(Ledger!vars)
<1> SUFFICES ASSUME TypeInv, TypeInv', SafetyInv, LedgerShape, [Next]_vars
             PROVE  Ledger!Next \/ UNCHANGED Ledger!vars
  OBVIOUS
<1> USE DEF dbVars, exVars, passVars, lossVars, histVars, numberVars
<1>1. CASE \/ UNCHANGED vars \/ EndTask \/ SupervisorStart \/ EngineStarts \/ Fill
           \/ Flatten \/ DeleteApiKey \/ HandleError \/ \E r \in Requests : RequestStep(r)
  BY <1>1, LedgerStutter
  DEF vars, EndTask, SupervisorStart, EngineStarts, Fill, Flatten, DeleteApiKey, HandleError, RequestStep,
      BeginStop, BeginClose, BeginDelete, BeginPatch, CancelAll, SkipCancel, ReadPositions,
      Reduce, CommitRequest, RequestFails
<1>2. CASE BeginCreate \/ BeginPass
  <2>1. sess = NoSession
    BY <1>2 DEF BeginCreate, BeginPass, SafetyInv, PassShape, InPass
  <2>2. sess'.restarted = sess.restarted
    BY <1>2, <2>1, Defaults DEF BeginCreate, BeginPass, Session
  <2>3. QED
    BY <1>2, <2>2, LedgerStutter DEF BeginCreate, BeginPass
<1>3. CASE Sync \/ RestartReadsPosition \/ RestartReadsOrders \/ ReuseRow
  BY <1>3, LedgerStutter DEF Sync, RestartReadsPosition, RestartReadsOrders, ReuseRow
<1>4. CASE SkipRecorded
  BY <1>4, AdvanceKeeps, LedgerStutter DEF SkipRecorded
<1>5. CASE AddRow
  BY <1>5, LedgerStutter DEF AddRow, TypeInv, TypeOK, Session
<1>6. CASE RestartGrid
  BY <1>6, LedgerRecreate
<1>7. CASE PlaceAck
  <2>1. sess'.restarted = sess.restarted
    BY <1>7, AdvanceKeeps DEF PlaceAck
  <2>2. UNCHANGED <<rows, unheard, forgotten>> /\ at = "place" /\ Accept(Current)
    BY <1>7 DEF PlaceAck
  <2>3. PICK S \in SUBSET Cid : S = {}
    OBVIOUS
  <2>4. /\ S \subseteq sent \cup {Current}
        /\ \A c \in Cid : unheard'[c] + forgotten'[c]
                          = IF c \in S THEN (unheard[c] + forgotten[c]) + 1
                                       ELSE unheard[c] + forgotten[c]
    BY <2>2, <2>3
  <2>5. QED
    BY <2>1, <2>2, <2>4, LedgerTake
<1>8. CASE PlaceLost
  <2>1. Current \in Cid /\ Current \notin sent /\ sent \in SUBSET Cid
    BY <1>8, CurrentType DEF PlaceLost, TypeInv, TypeOK, SafetyInv, Knowledge
  <2>2. unheard' = [c \in Cid |-> IF c = Current THEN unheard[c] + 1 ELSE unheard[c]]
    BY <1>8 DEF PlaceLost, Unheard
  <2>3. CASE DropSession /\ Forgotten(sent)
    <3>1. forgotten' = [c \in Cid |-> IF c \in sent THEN forgotten[c] + 1 ELSE forgotten[c]]
      BY <2>3 DEF Forgotten
    <3>2. ASSUME NEW c \in Cid
          PROVE  unheard'[c] + forgotten'[c]
                 = IF c \in sent \cup {Current}
                   THEN (unheard[c] + forgotten[c]) + 1
                   ELSE unheard[c] + forgotten[c]
      BY <1>8, <2>1, <2>2, <3>1, LedgerTypes DEF PlaceLost
    <3>3. sess'.restarted = FALSE
      BY <2>3, Defaults DEF DropSession
    <3>4. QED
      BY <1>8, <2>1, <3>2, <3>3, LedgerTake DEF PlaceLost
  <2>4. CASE sess'.restarted = sess.restarted /\ UNCHANGED forgotten
    <3>1. ASSUME NEW c \in Cid
          PROVE  unheard'[c] + forgotten'[c]
                 = IF c \in {Current} THEN (unheard[c] + forgotten[c]) + 1
                                      ELSE unheard[c] + forgotten[c]
      BY <1>8, <2>2, <2>4, LedgerTypes DEF PlaceLost
    <3>2. QED
      BY <1>8, <2>1, <2>4, <3>1, LedgerTake DEF PlaceLost
  <2>5. QED
    BY <1>8, <2>3, <2>4 DEF PlaceLost, RetryOrFail, PassFails, TypeInv, TypeOK, Session
<1>9. CASE PlaceUnreached
  <2>1. CASE PassFails
    BY <1>9, <2>1, LedgerFailure DEF PlaceUnreached
  <2>2. CASE sess' = [sess EXCEPT !.tries = @ + 1] /\ UNCHANGED forgotten
    BY <1>9, <2>2, LedgerStutter DEF PlaceUnreached, TypeInv, TypeOK, Session
  <2>3. QED
    BY <1>9, <2>1, <2>2 DEF PlaceUnreached, RetryOrFail
<1>10. CASE AddRowConflicts \/ PlaceRejected \/ CallFails
  BY <1>10, LedgerFailure DEF AddRowConflicts, PlaceRejected, CallFails
<1>11. CASE CreateAborted \/ SupervisorCancel \/ EngineCrash
  <2>1. CASE CreateAborted \/ TaskVanishes
    BY <2>1, LedgerAbandon DEF CreateAborted, TaskVanishes
  <2>2. CASE UNCHANGED <<dbVars, exVars, passVars, req, lossVars, numberVars>>
    BY <2>2, LedgerStutter
  <2>3. QED
    BY <1>11, <2>1, <2>2, CrashCases DEF SupervisorCancel
<1>12. CASE CommitPass \/ CommitCreate
  BY <1>12, LedgerBook
<1>13. QED
  BY <1>1, <1>2, <1>3, <1>4, <1>5, <1>6, <1>7, <1>8, <1>9, <1>10, <1>11, <1>12
  DEF Next, EngineStep, PassStep, Supervision, Environment

\* LedgerShape holds in every reachable state.
LEMMA LedgerShapeHolds == Spec => []LedgerShape
<1>1. TypeInv /\ SafetyInv /\ LedgerShape /\ [Next]_vars => LedgerShape'
  BY NextLedgerShape
<1>2. QED
  BY InitLedgerShape, Invariance, <1>1, PTL DEF Spec

\* The engine implements the ledger: for every number of legs, requests,
\* attempts and failures, an order is taken again only when the database could
\* not know of it, and what is booked stays so until the grid is re-created.
THEOREM ImplementsLedger == Spec => FollowsLedger
<1>1. Init => Ledger!Init
  BY Defaults DEF Init, Ledger!Init
<1>2. QED
  BY <1>1, LedgerShapeHolds, Invariance, LedgerStep, PTL DEF Spec, FollowsLedger, Ledger!Spec

-----------------------------------------------------------------------------
(* The configuration orders are placed with.                               *)

\* What a session works on: its version number and its configuration.
SamePair == sess'.ver = sess.ver /\ sess'.cfg = sess.cfg

\* A step that gives no number and touches no configuration, of the bot or of
\* the session, if there is one left; it may place the current order.
LEMMA KeepsNumbers ==
    ASSUME TypeInv, NumbersGiven, given' = given,
           ~InPass' \/ (InPass /\ SamePair),
           Exists' <=> Exists, bot'.ver = bot.ver, bot'.cfg = bot.cfg,
           \/ placedCfg' = placedCfg
           \/ InPass /\ placedCfg' = [placedCfg EXCEPT ![Current] = sess.cfg],
           \A r \in Requests : /\ req'[r].op # "none" => Exists
                               /\ req'[r].op # "patch" => req'[r].cfg = NoConfig
    PROVE  NumbersGiven'
<1>1. ASSUME NEW c \in Cid PROVE placedCfg'[c] \in given'[c[1]] \cup {NoConfig}
  <2>1. CASE placedCfg' = placedCfg
    BY <2>1 DEF NumbersGiven
  <2>2. CASE InPass /\ placedCfg' = [placedCfg EXCEPT ![Current] = sess.cfg]
    <3>1. Current = <<sess.ver, sess.idx>> /\ Current \in Cid
      BY CurrentType DEF TypeInv, TypeOK
    <3>2. CASE c = Current
      BY <2>2, <3>1, <3>2 DEF NumbersGiven, TypeInv, TypeOK
    <3>3. CASE c # Current
      BY <2>2, <3>3 DEF NumbersGiven, TypeInv, TypeOK
    <3>4. QED
      BY <3>2, <3>3
  <2>3. QED
    BY <2>1, <2>2
<1>2. InPass' => sess'.cfg \in given'[sess'.ver]
  BY DEF NumbersGiven, SamePair
<1>3. Exists' => bot'.cfg \in given'[bot'.ver]
  BY DEF NumbersGiven
<1>4. QED
  BY <1>1, <1>2, <1>3 DEF NumbersGiven

\* A number that is given keeps those it was given to before.
LEMMA GivesMore ==
    ASSUME TypeInv, NEW v \in Version, NEW c, Gives(v, c)
    PROVE  c \in given'[v] /\ \A n \in Version : given[n] \subseteq given'[n]
  BY DEF Gives, TypeInv, TypeOK

\* Failures end a pass, or mark it when it is create_bot's own.
LEMMA FailsKeep ==
    ASSUME TypeInv, PassFails \/ RetryOrFail PROVE ~InPass' \/ SamePair
<1>1. sess \in Session
  BY DEF TypeInv, TypeOK
<1>2. CASE at' = "error"
  BY <1>2 DEF InPass
<1>3. CASE sess' = [sess EXCEPT !.failed = TRUE]
  BY <1>1, <1>3 DEF Session, SamePair
<1>4. CASE sess' = [sess EXCEPT !.tries = @ + 1]
  BY <1>1, <1>4 DEF Session, SamePair
<1>5. QED
  BY <1>2, <1>3, <1>4 DEF PassFails, RetryOrFail

\* The next level is worked on with the same pair.
LEMMA AdvancePair == TypeInv /\ Advance => SamePair
  BY DEF TypeInv, TypeOK, Session, Advance, SamePair

\* The pass places orders with its own configuration, under a number that was
\* given to it: at the start, or by itself when it re-creates the grid.
LEMMA PassStepNumbers ==
    ASSUME TypeInv, NumbersGiven, PassStep PROVE NumbersGiven'
<1> USE DEF dbVars, exVars, passVars, lossVars, histVars, numberVars
<1>1. /\ UNCHANGED <<bot, req>> /\ Exists' = Exists /\ InPass
      /\ \A r \in Requests : /\ req'[r].op # "none" => Exists
                             /\ req'[r].op # "patch" => req'[r].cfg = NoConfig
  <2>1. UNCHANGED <<bot, req>> /\ InPass
    BY DEF PassStep, Sync, RestartReadsPosition, RestartReadsOrders, RestartGrid,
           SkipRecorded, ReuseRow, AddRow, AddRowConflicts, PlaceAck, PlaceLost,
           PlaceUnreached, PlaceRejected, CallFails, InPass
  <2>2. QED
    BY <2>1 DEF NumbersGiven, Exists
<1>2. CASE RestartGrid
  <2>1. sess \in Session /\ sess.ver + 1 \in Version
    BY <1>2, BoundsAssumption DEF RestartGrid, TypeInv, TypeOK, Session, Version
  <2>2. /\ sess.cfg \in given'[sess.ver + 1]
        /\ \A n \in Version : given[n] \subseteq given'[n]
    BY <1>2, <2>1, GivesMore DEF RestartGrid
  <2>3. sess'.ver = sess.ver + 1 /\ sess'.cfg = sess.cfg /\ placedCfg' = placedCfg
    BY <1>2, <2>1 DEF RestartGrid, Session
  <2>4. bot.ver \in Version /\ \A c \in Cid : c[1] \in Version
    BY DEF TypeInv, TypeOK, BotRow, Cid
  <2>5. QED
    BY <1>1, <2>2, <2>3, <2>4 DEF NumbersGiven, Exists
<1>3. CASE ~RestartGrid
  <2>1. given' = given
    BY <1>3 DEF PassStep, Sync, RestartReadsPosition, RestartReadsOrders,
           SkipRecorded, ReuseRow, AddRow, AddRowConflicts, PlaceAck, PlaceLost,
           PlaceUnreached, PlaceRejected, CallFails
  <2>2. placedCfg' = placedCfg \/ placedCfg' = [placedCfg EXCEPT ![Current] = sess.cfg]
    BY <1>3 DEF PassStep, Sync, RestartReadsPosition, RestartReadsOrders,
           SkipRecorded, ReuseRow, AddRow, AddRowConflicts, PlaceAck, PlaceLost,
           PlaceUnreached, PlaceRejected, CallFails, Accept
  <2>3. ~InPass' \/ SamePair
    <3>1. CASE Sync \/ RestartReadsPosition \/ RestartReadsOrders \/ ReuseRow
      BY <3>1 DEF Sync, RestartReadsPosition, RestartReadsOrders, ReuseRow, SamePair
    <3>2. CASE AddRow
      BY <3>2 DEF AddRow, SamePair, TypeInv, TypeOK, Session
    <3>3. CASE SkipRecorded \/ PlaceAck
      BY <3>3, AdvancePair DEF SkipRecorded, PlaceAck
    <3>4. CASE AddRowConflicts \/ PlaceLost \/ PlaceUnreached \/ PlaceRejected \/ CallFails
      BY <3>4, FailsKeep
      DEF AddRowConflicts, PlaceLost, PlaceUnreached, PlaceRejected, CallFails
    <3>5. QED
      BY <1>3, <3>1, <3>2, <3>3, <3>4 DEF PassStep
  <2>4. QED
    BY <1>1, <2>1, <2>2, <2>3, KeepsNumbers
<1>4. QED
  BY <1>2, <1>3

\* Steps outside the pass: a new session takes the pair the row has, and a
\* commit gives its number to the configuration the row is left with.
LEMMA OtherStepNumbers ==
    ASSUME TypeInv, TypeInv', SafetyInv, LedgerShape, NumbersGiven,
           \/ BeginCreate \/ CommitCreate \/ CreateAborted \/ BeginPass \/ EndTask
           \/ CommitPass \/ HandleError \/ Supervision \/ Environment \/ UNCHANGED vars
    PROVE  NumbersGiven'
<1> USE DEF dbVars, exVars, passVars, lossVars, histVars, numberVars
<1>1. /\ bot \in BotRow /\ bot.ver \in Version /\ 1 \in Version
      /\ \A c \in Cid : c[1] \in Version
  BY BoundsAssumption DEF TypeInv, TypeOK, BotRow, Cid, Version
<1>2. UNCHANGED <<req, placedCfg>>
  BY CrashCases
  DEF vars, BeginCreate, CommitCreate, CreateAborted, BeginPass, EndTask, CommitPass,
      HandleError, Supervision, SupervisorStart, SupervisorCancel, Environment,
      EngineStarts, TaskVanishes, Fill, Flatten, DeleteApiKey
<1>3. CASE BeginCreate
  <2>1. PICK c \in Configs :
          /\ sess' = [NoSession EXCEPT !.by = "create", !.cfg = c, !.estate = "RUNNING"]
          /\ Gives(1, c)
    BY <1>3 DEF BeginCreate
  <2>2. sess'.ver = 1 /\ sess'.cfg = c
    BY <2>1 DEF NoSession
  <2>3. c \in given'[1] /\ \A n \in Version : given[n] \subseteq given'[n]
    BY <1>1, <2>1, GivesMore
  <2>4. ~Exists /\ bot' = bot
    BY <1>3 DEF BeginCreate, Exists
  <2>5. QED
    BY <1>1, <1>2, <2>2, <2>3, <2>4 DEF NumbersGiven, Exists
<1>4. CASE CommitCreate
  <2>1. /\ given' = given /\ ~InPass'
        /\ bot'.ver = 1 /\ bot'.cfg = sess.cfg /\ bot'.life = "ACTIVE"
    BY <1>4 DEF CommitCreate, InPass
  <2>2. sess.ver = 1 /\ sess.cfg \in given[1]
    BY <1>4 DEF CommitCreate, LedgerShape, NumbersGiven, InPass
  <2>3. QED
    BY <1>2, <2>1, <2>2 DEF NumbersGiven, Exists
<1>5. CASE CreateAborted
  <2>1. given' = given /\ ~InPass' /\ bot'.life = "GONE"
    BY <1>1, <1>5 DEF CreateAborted, InPass, BotRow
  <2>2. ~Exists
    BY <1>5 DEF CreateAborted, SafetyInv, PassShape, Exists
  <2>3. QED
    BY <1>2, <2>1, <2>2 DEF NumbersGiven, Exists
<1>6. CASE BeginPass
  <2>1. given' = given /\ bot' = bot /\ Exists
    BY <1>6 DEF BeginPass, Tracked, Exists
  <2>2. InPass' => sess'.ver = bot.ver /\ sess'.cfg = bot.cfg
    <3>1. CASE ~keyLive
      BY <1>6, <3>1 DEF BeginPass, InPass
    <3>2. CASE keyLive
      <4> DEFINE e == IF bot.estate = "INIT" THEN "RUNNING" ELSE bot.estate
      <4>1. sess' = [NoSession EXCEPT
                       !.by = "engine", !.ver = bot.ver, !.cfg = bot.cfg,
                       !.loaded = bot.estate, !.err = bot.err, !.estate = e]
        BY <1>6, <3>2, Zenon DEF BeginPass
      <4> HIDE DEF e
      <4>2. QED
        BY <4>1, Defaults DEF Session
    <3>3. QED
      BY <3>1, <3>2
  <2>3. QED
    BY <1>2, <2>1, <2>2 DEF NumbersGiven, Exists
<1>7. CASE CommitPass
  <2>1. /\ ~InPass' /\ bot'.cfg = bot.cfg /\ bot'.life = bot.life
        /\ bot'.ver = IF sess.restarted THEN sess.ver ELSE bot.ver
    BY <1>1, <1>7 DEF CommitPass, InPass, BotRow
  <2>2. CASE sess.restarted
    <3>1. sess.ver \in Version /\ Gives(sess.ver, bot.cfg)
      BY <1>7, <2>2 DEF CommitPass, TypeInv, TypeOK, Session
    <3>2. bot.cfg \in given'[sess.ver] /\ \A n \in Version : given[n] \subseteq given'[n]
      BY <3>1, GivesMore
    <3>3. QED
      BY <1>1, <1>2, <2>1, <2>2, <3>2 DEF NumbersGiven, Exists
  <2>3. CASE ~sess.restarted
    <3>1. given' = given
      BY <1>7, <2>3 DEF CommitPass
    <3>2. QED
      BY <1>2, <2>1, <2>3, <3>1 DEF NumbersGiven, Exists
  <2>4. QED
    BY <2>2, <2>3
<1>8. CASE HandleError \/ SupervisorCancel \/ TaskVanishes
  <2>1. given' = given /\ ~InPass'
    BY <1>8 DEF HandleError, SupervisorCancel, TaskVanishes, InPass
  <2>2. bot'.ver = bot.ver /\ bot'.cfg = bot.cfg /\ bot'.life = bot.life
    BY <1>1, <1>8 DEF HandleError, SupervisorCancel, TaskVanishes, BotRow
  <2>3. QED
    BY <1>2, <2>1, <2>2 DEF NumbersGiven, Exists
<1>9. CASE UNCHANGED <<bot, at, sess, given>>
  BY <1>2, <1>9 DEF NumbersGiven, Exists, InPass
<1>10. EndTask \/ SupervisorStart \/ EngineStarts \/ Fill \/ Flatten \/ DeleteApiKey
       \/ UNCHANGED vars => UNCHANGED <<bot, at, sess, given>>
  BY DEF vars, EndTask, SupervisorStart, EngineStarts, Fill, Flatten, DeleteApiKey
<1>11. EngineCrash => TaskVanishes \/ UNCHANGED <<bot, at, sess, given>>
  BY CrashCases
<1>12. QED
  BY <1>3, <1>4, <1>5, <1>6, <1>7, <1>8, <1>9, <1>10, <1>11 DEF Supervision, Environment

\* A request reads the row and, if it is a PATCH, gives the next number to the
\* configuration it writes.
LEMMA RequestStepNumbers ==
    ASSUME TypeInv, TypeInv', SafetyInv, NumbersGiven, NEW r \in Requests, RequestStep(r)
    PROVE  NumbersGiven'
<1> USE DEF dbVars, exVars, passVars, lossVars, histVars, numberVars
<1>1. /\ bot \in BotRow /\ bot.ver \in Version /\ req \in [Requests -> Request]
      /\ \A c \in Cid : c[1] \in Version
  BY DEF TypeInv, TypeOK, BotRow, Cid
<1>2. UNCHANGED <<at, sess, placedCfg>>
  BY Zenon
  DEF RequestStep, BeginStop, BeginClose, BeginDelete, BeginPatch, CancelAll, SkipCancel,
      ReadPositions, Reduce, CommitRequest, RequestFails
<1>3. CASE ~CommitRequest(r)
  <2>1. UNCHANGED <<bot, given>>
    BY <1>3
    DEF RequestStep, BeginStop, BeginClose, BeginDelete, BeginPatch, CancelAll, SkipCancel,
        ReadPositions, Reduce, RequestFails
  <2>2. \A q \in Requests : /\ req'[q].op # "none" => Exists
                            /\ req'[q].op # "patch" => req'[q].cfg = NoConfig
    <3>1. ASSUME NEW op, NEW at0, Reads(r, op, at0), Found
          PROVE  \A q \in Requests : /\ req'[q].op # "none" => Exists
                                     /\ req'[q].op # "patch" => req'[q].cfg = NoConfig
      BY <1>1, <3>1 DEF Reads, NoRequest, Found, Exists, NumbersGiven
    <3>2. CASE BeginStop(r) \/ BeginClose(r) \/ BeginDelete(r)
      BY <3>1, <3>2 DEF BeginStop, BeginClose, BeginDelete
    <3>3. CASE BeginPatch(r)
      <4>1. PICK c : req' = [req EXCEPT ![r] = [NoRequest EXCEPT
                      !.op = "patch", !.at = "commit", !.life = bot.life,
                      !.estate = bot.estate, !.ver = bot.ver,
                      !.cfg = IF c = bot.cfg THEN NoConfig ELSE c]]
        BY <3>3, Zenon DEF BeginPatch
      <4> DEFINE q == [NoRequest EXCEPT
                      !.op = "patch", !.at = "commit", !.life = bot.life,
                      !.estate = bot.estate, !.ver = bot.ver,
                      !.cfg = IF c = bot.cfg THEN NoConfig ELSE c]
      <4>2. q.op = "patch"
        BY Defaults DEF Request
      <4>3. req' = [req EXCEPT ![r] = q]
        BY <4>1
      <4> HIDE DEF q
      <4>4. Exists
        BY <3>3 DEF BeginPatch, Found, Exists
      <4>5. QED
        BY <1>1, <4>2, <4>3, <4>4 DEF NumbersGiven
    <3>4. CASE CancelAll(r) \/ SkipCancel(r) \/ ReadPositions(r) \/ Reduce(r)
      BY <1>1, <3>4 DEF CancelAll, SkipCancel, ReadPositions, Reduce, NumbersGiven, Request
    <3>5. CASE RequestFails(r)
      BY <1>1, <3>5 DEF RequestFails, NumbersGiven, NoRequest
    <3>6. QED
      BY <1>3, <3>2, <3>3, <3>4, <3>5 DEF RequestStep
  <2>3. QED
    BY <1>2, <2>1, <2>2 DEF NumbersGiven, Exists, InPass
<1>4. CASE CommitRequest(r)
  <2>1. Exists /\ (req[r].op # "patch" => req[r].cfg = NoConfig)
    BY <1>4 DEF CommitRequest, NumbersGiven, SafetyInv, PassShape
  <2>2. Exists'
    BY <1>1, <1>4, <2>1 DEF CommitRequest, Exists, BotRow
  <2>3. \A q \in Requests : /\ req'[q].op # "none" => Exists
                            /\ req'[q].op # "patch" => req'[q].cfg = NoConfig
    BY <1>1, <1>4 DEF CommitRequest, NumbersGiven, NoRequest
  <2>4. CASE req[r].op = "patch"
    <3>1. req[r].ver + 1 \in Version
      BY <1>1, <2>4, BoundsAssumption DEF TypeInv, Request, Version
    <3>2. bot'.ver = req[r].ver + 1 /\ Gives(req[r].ver + 1, bot'.cfg)
      BY <1>1, <1>4, <2>4 DEF CommitRequest, BotRow
    <3>3. bot'.cfg \in given'[bot'.ver] /\ \A n \in Version : given[n] \subseteq given'[n]
      BY <3>1, <3>2, GivesMore
    <3>4. sess.ver \in Version
      BY DEF TypeInv, TypeOK, Session
    <3>5. QED
      BY <1>1, <1>2, <2>2, <2>3, <3>3, <3>4 DEF NumbersGiven, InPass
  <2>5. CASE req[r].op # "patch"
    <3>1. given' = given /\ bot'.ver = bot.ver /\ bot'.cfg = bot.cfg
      BY <1>1, <1>4, <2>1, <2>5 DEF CommitRequest, BotRow
    <3>2. QED
      BY <1>2, <2>1, <2>2, <2>3, <3>1 DEF NumbersGiven, InPass
  <2>6. QED
    BY <2>4, <2>5
<1>5. QED
  BY <1>3, <1>4

\* An order of the bot's present version was placed with its present
\* configuration unless both were given that number: for any number of
\* requests at a time, PATCHes during a pass, re-created grids and failures.
THEOREM OneConfig == Spec => []PlacedWithCurrentConfig
<1>1. Init => NumbersGiven
  BY Defaults DEF Init, NumbersGiven, InPass, Exists, NoRequest
<1>2. TypeInv /\ TypeInv' /\ SafetyInv /\ LedgerShape /\ NumbersGiven /\ [Next]_vars
      => NumbersGiven'
  BY PassStepNumbers, OtherStepNumbers, RequestStepNumbers DEF Next, EngineStep
<1>3. TypeInv /\ NumbersGiven => PlacedWithCurrentConfig
  <2> SUFFICES ASSUME TypeInv, NumbersGiven, Found, NEW l \in Level
               PROVE  LET c == placedCfg[<<bot.ver, l>>]
                      IN c = NoConfig \/ {c, bot.cfg} \subseteq given[bot.ver]
    BY DEF PlacedWithCurrentConfig
  <2>1. Exists /\ <<bot.ver, l>> \in Cid
    BY DEF Found, Exists, TypeInv, TypeOK, BotRow, Cid
  <2>2. placedCfg[<<bot.ver, l>>] \in given[bot.ver] \cup {NoConfig}
    BY <2>1 DEF NumbersGiven
  <2>3. QED
    BY <2>1, <2>2 DEF NumbersGiven
<1>4. QED
  BY <1>1, <1>2, <1>3, Invariance, LedgerShapeHolds, PTL DEF Spec

-----------------------------------------------------------------------------
(* Passes are finite: the safe half of Converges.                          *)

\* The calls left for the levels after the current one: none for the last,
\* and a level's share less for the next.
LEMMA CallsLeft ==
    ASSUME NEW i \in Level
    PROVE  /\ (Legs - i) * (Attempts + 1) \in 0 .. Legs * (Attempts + 1)
           /\ i # Legs => (Legs - (i + 1)) * (Attempts + 1) + Attempts + 1
                          = (Legs - i) * (Attempts + 1)
<1>1. Legs \in Nat /\ Attempts \in Nat /\ i \in Nat /\ i <= Legs
  BY LegsAssumption, AttemptsAssumption DEF Level
<1> DEFINE a == Attempts + 1
<1>2. a \in Nat
  BY <1>1
<1>3. ASSUME NEW n \in Nat, NEW m \in Nat, NEW k \in Nat, m <= n
      PROVE  m * k \in Nat /\ n * k \in Nat /\ m * k <= n * k
  <2>1. n = m + (n - m) /\ n - m \in Nat
    BY <1>3
  <2>2. n * k = m * k + (n - m) * k
    BY <2>1
  <2>3. (n - m) * k \in Nat /\ m * k \in Nat
    BY <2>1
  <2>4. QED
    BY <2>2, <2>3
<1>4. (Legs - i) * a \in 0 .. Legs * a
  <2>1. Legs - i \in Nat /\ Legs - i <= Legs
    BY <1>1
  <2> HIDE DEF a
  <2>2. QED
    BY <1>1, <1>2, <1>3, <2>1
<1>5. (Legs - (i + 1)) * a + a = (Legs - i) * a
  <2>1. Legs - i = (Legs - (i + 1)) + 1 /\ Legs - (i + 1) \in Int
    BY <1>1
  <2> HIDE DEF a
  <2>2. QED
    BY <1>2, <2>1
<1>6. QED
  BY <1>1, <1>4, <1>5

\* Calls, in either state of a step.
LEMMA CallsTypes ==
    ASSUME TypeInv
    PROVE  Calls \in 0 .. Legs * (Attempts + 1)
<1>1. sess.idx \in Level
  BY DEF TypeInv, TypeOK, Session
<1>2. QED
  BY <1>1, CallsLeft DEF Calls

\* A step of a pass, of whatever kind, leaves less to do.
LEMMA PassStepRest ==
    ASSUME TypeInv, TypeInv', TriesLeft, PassStep
    PROVE  TriesLeft' /\ Rest' < Rest
<1>1. /\ Calls \in Nat /\ Attempts \in Nat \ {0} /\ sess.tries \in Nat
      /\ sess.idx \in Level /\ sess \in Session /\ sess' \in Session
  BY CallsTypes, LegsAssumption, AttemptsAssumption DEF TypeInv, TypeOK, Session
<1>2. Calls' \in Nat
  <2>1. sess'.idx \in Level
    BY <1>1 DEF Session
  <2>2. QED
    BY <2>1, CallsLeft, LegsAssumption, AttemptsAssumption DEF Calls
<1>3. ASSUME sess'.idx = sess.idx PROVE Calls' = Calls
  BY <1>3 DEF Calls
<1>4. ASSUME PassFails, at \in {"sync", "rpos", "ropen", "rcancel", "row", "place"}
      PROVE  TriesLeft' /\ Rest' < Rest
  <2>1. at' \in {"error", "commit"}
    BY <1>4 DEF PassFails
  <2>2. Rest > 1
    BY <1>1, <1>4 DEF Rest, TriesLeft
  <2>3. Rest' \in {0, 1}
    BY <2>1 DEF Rest
  <2>4. TriesLeft'
    BY <2>1 DEF TriesLeft
  <2>5. QED
    BY <1>1, <1>4, <2>2, <2>3, <2>4 DEF Rest, TriesLeft
<1>5. ASSUME Advance, at \in {"row", "place"}
      PROVE  TriesLeft' /\ Rest' < Rest
  <2>1. CASE sess.idx = Legs
    <3>1. at' = "commit"
      BY <2>1, <1>5 DEF Advance
    <3>2. QED
      BY <1>1, <1>5, <3>1 DEF Rest, TriesLeft
  <2>2. CASE sess.idx # Legs
    <3>1. at' = "row" /\ sess'.idx = sess.idx + 1 /\ sess'.tries = 0
      BY <1>1, <1>5, <2>2 DEF Advance, Session
    <3>2. Calls' + Attempts + 1 = Calls
      BY <1>1, <2>2, <3>1, CallsLeft DEF Calls
    <3>3. QED
      BY <1>1, <1>2, <1>5, <3>1, <3>2 DEF Rest, TriesLeft
  <2>3. QED
    BY <2>1, <2>2
<1>6. ASSUME RetryOrFail, at = "place"
      PROVE  TriesLeft' /\ Rest' < Rest
  <2>1. CASE PassFails
    BY <1>4, <1>6, <2>1
  <2>2. CASE /\ sess.tries + 1 < Attempts
             /\ sess' = [sess EXCEPT !.tries = @ + 1]
             /\ UNCHANGED at
    <3>1. sess'.tries = sess.tries + 1 /\ sess'.idx = sess.idx
      BY <1>1, <2>2 DEF Session
    <3>2. QED
      BY <1>1, <1>3, <1>6, <2>2, <3>1 DEF Rest, TriesLeft
  <2>3. QED
    BY <1>6, <2>1, <2>2 DEF RetryOrFail
<1>7. CASE Sync \/ RestartReadsPosition \/ RestartReadsOrders
  <2>1. /\ sess' = sess
        /\ \/ at = "sync" /\ at' \in {"rpos", "row"}
           \/ at = "rpos" /\ at' \in {"ropen", "row"}
           \/ at = "ropen" /\ at' \in {"rcancel", "row"}
    BY <1>7 DEF Sync, RestartReadsPosition, RestartReadsOrders
  <2>2. QED
    BY <1>1, <1>3, <2>1 DEF Rest, TriesLeft
<1>8. CASE RestartGrid
  <2>1. at = "rcancel" /\ at' = "row"
    BY <1>8 DEF RestartGrid
  <2>2. sess'.idx = sess.idx /\ sess'.tries = sess.tries
    BY <1>1, <1>8 DEF RestartGrid, Session
  <2>3. QED
    BY <1>1, <1>3, <2>1, <2>2 DEF Rest, TriesLeft
<1>9. CASE ReuseRow \/ AddRow
  <2>1. at = "row" /\ at' = "place"
    BY <1>9 DEF ReuseRow, AddRow
  <2>2. sess'.idx = sess.idx /\ sess'.tries = sess.tries
    BY <1>1, <1>9 DEF ReuseRow, AddRow, Session
  <2>3. QED
    BY <1>1, <1>3, <2>1, <2>2 DEF Rest, TriesLeft
<1>10. CASE SkipRecorded \/ PlaceAck
  BY <1>5, <1>10 DEF SkipRecorded, PlaceAck
<1>11. CASE PlaceLost \/ PlaceUnreached
  BY <1>6, <1>11 DEF PlaceLost, PlaceUnreached
<1>12. CASE AddRowConflicts \/ PlaceRejected \/ CallFails
  BY <1>4, <1>12 DEF AddRowConflicts, PlaceRejected, CallFails
<1>13. QED
  BY <1>7, <1>8, <1>9, <1>10, <1>11, <1>12 DEF PassStep

\* Any other step leaves what there is, or ends the pass; two begin one.
LEMMA OtherStepRest ==
    ASSUME TypeInv, TypeInv', TriesLeft, [Next]_vars, ~PassStep
    PROVE  TriesLeft' /\ (BeginPass \/ BeginCreate \/ Rest' <= Rest)
<1>1. Rest \in Nat
  BY CallsTypes, LegsAssumption, AttemptsAssumption
  DEF Rest, TriesLeft, TypeInv, TypeOK, Session
<1>2. CASE UNCHANGED passVars
  <2>1. at' = at /\ sess' = sess
    BY <1>2 DEF passVars
  <2>2. QED
    BY <1>1, <2>1 DEF Rest, Calls, TriesLeft
<1>3. CASE at' \in {"idle", "error"}
  <2>1. Rest' = 0 /\ TriesLeft'
    BY <1>3 DEF Rest, TriesLeft
  <2>2. QED
    BY <1>1, <2>1
<1>4. CASE at' = "sync" /\ (BeginPass \/ BeginCreate)
  <2>1. NoSession \in Session /\ NoSession.tries = 0
    BY Defaults DEF NoSession
  <2>2. BeginCreate => sess'.tries = 0
    BY <2>1 DEF BeginCreate, Session
  <2>3. ASSUME BeginPass PROVE sess'.tries = 0
    <3> DEFINE e == IF bot.estate = "INIT" THEN "RUNNING" ELSE bot.estate
    <3>1. sess' = [NoSession EXCEPT
                     !.by = "engine", !.ver = bot.ver, !.cfg = bot.cfg,
                     !.loaded = bot.estate, !.err = bot.err, !.estate = e]
      BY <1>4, <2>3, Zenon DEF BeginPass
    <3> HIDE DEF e
    <3>2. QED
      BY <2>1, <3>1 DEF Session
  <2>4. sess'.tries = 0
    BY <1>4, <2>2, <2>3
  <2>5. QED
    BY <1>4, <2>4 DEF TriesLeft
<1>5. \/ UNCHANGED passVars \/ at' \in {"idle", "error"}
      \/ at' = "sync" /\ (BeginPass \/ BeginCreate)
  <2>1. UNCHANGED vars \/ EndTask \/ SupervisorStart \/ EngineStarts => UNCHANGED passVars
    BY DEF vars, EndTask, SupervisorStart, EngineStarts
  <2>0. Fill \/ Flatten \/ DeleteApiKey => UNCHANGED passVars
    BY DEF Fill, Flatten, DeleteApiKey
  <2>2. ASSUME NEW r \in Requests, RequestStep(r) PROVE UNCHANGED passVars
    BY <2>2, Zenon
    DEF RequestStep, BeginStop, BeginClose, BeginDelete, BeginPatch, CancelAll,
        SkipCancel, ReadPositions, Reduce, CommitRequest, RequestFails
  <2>3. BeginCreate => at' = "sync"
    BY Zenon DEF BeginCreate
  <2>4. BeginPass => at' \in {"sync", "error"}
    BY Zenon DEF BeginPass
  <2>5. CommitCreate \/ CreateAborted \/ CommitPass \/ HandleError => at' = "idle"
    BY Zenon DEF CommitCreate, CreateAborted, CommitPass, HandleError
  <2>6. SupervisorCancel \/ EngineCrash => at' = "idle" \/ UNCHANGED passVars
    BY Zenon DEF SupervisorCancel, EngineCrash, TaskVanishes
  <2>7. QED
    BY <2>0, <2>1, <2>2, <2>3, <2>4, <2>5, <2>6
    DEF Next, EngineStep, Supervision, Environment
<1>6. QED
  BY <1>2, <1>3, <1>4, <1>5

\* A pass comes to its end, whatever fails in it: it has at most Legs + 1
\* orders of Attempts attempts and a row lookup each, and five steps besides;
\* each step uses up one at least, and no request, fill or supervisor adds any.
THEOREM PassesEnd == Spec => []RestBounded /\ PassesShorten
<1>1. Init => TriesLeft
  BY DEF Init, TriesLeft
<1>2. TypeInv /\ TypeInv' /\ TriesLeft /\ [Next]_vars
      => TriesLeft' /\ [(PassStep => Rest' < Rest)
                        /\ (Rest' > Rest => BeginPass \/ BeginCreate)]_vars
  <2> SUFFICES ASSUME TypeInv, TypeInv', TriesLeft, [Next]_vars
               PROVE  /\ TriesLeft'
                      /\ (PassStep => Rest' < Rest)
                      /\ (Rest' > Rest => BeginPass \/ BeginCreate)
    OBVIOUS
  <2>1. Rest \in Int /\ Rest' \in Int
    <3>1. Calls \in Int /\ Calls' \in Int
      BY LegsAssumption, AttemptsAssumption DEF Calls, TypeInv, TypeOK, Session, Level
    <3>2. QED
      BY <3>1, AttemptsAssumption DEF Rest, TypeInv, TypeOK, Session
  <2>2. CASE PassStep
    BY <2>1, <2>2, PassStepRest
  <2>3. CASE ~PassStep
    BY <2>1, <2>3, OtherStepRest
  <2>4. QED
    BY <2>2, <2>3
<1>3. TypeInv /\ TriesLeft => RestBounded
  <2> SUFFICES ASSUME TypeInv, TriesLeft PROVE RestBounded
    OBVIOUS
  <2> DEFINE all == Legs * (Attempts + 1)
  <2>1. Calls \in 0 .. all /\ all \in Nat
    BY CallsTypes, LegsAssumption, AttemptsAssumption
  <2> HIDE DEF all
  <2>2. Rest \in 0 .. all + Attempts + 6
    BY <2>1, AttemptsAssumption DEF Rest, TriesLeft, TypeInv, TypeOK, Session
  <2>3. QED
    BY <2>2 DEF RestBounded, all
<1>4. TypeInv /\ [Next]_vars => TypeInv'
  BY NextTypes
<1>5. QED
  BY <1>1, <1>2, <1>3, <1>4, Invariance, PTL DEF Spec, PassesShorten

=============================================================================
