----------------------- MODULE ExchangeCallGateProofs -------------------------
(* The safety properties of ExchangeCallGate, for any limit and any finite  *)
(* set of callers.                                                          *)
EXTENDS ExchangeCallGate, FiniteSetTheorems, TLAPS

\* Taking a caller out of `over', and putting one in, changes its size by one.
LEMMA OverSize ==
    ASSUME NEW S, S \subseteq Callers, NEW c \in Callers
    PROVE  /\ IsFiniteSet(S) /\ Cardinality(S) \in Nat
           /\ c \notin S => Cardinality(S \cup {c}) = Cardinality(S) + 1
           /\ c \in S => Cardinality(S \ {c}) = Cardinality(S) - 1
  <1>1. IsFiniteSet(S)
    BY CallersAssumption, FS_Subset
  <1>2. Cardinality(S) \in Nat
    BY <1>1, FS_CardinalityType
  <1>3. c \notin S => Cardinality(S \cup {c}) = Cardinality(S) + 1
    BY <1>1, FS_AddElement
  <1>4. c \in S => Cardinality(S \ {c}) = Cardinality(S) - 1
    BY <1>1, FS_RemoveElement
  <1>5. QED
    BY <1>1, <1>2, <1>3, <1>4

LEMMA GateInit == Init => GateInv
  <1> SUFFICES ASSUME Init PROVE GateInv
    OBVIOUS
  <1> USE LimitAssumption, TTLAssumption
  <1>1. TypeOK
    <2>1. 0 \in 0..TTL /\ 0 \in Nat /\ {} \subseteq Callers
      OBVIOUS
    <2>2. pc \in [Callers -> {"out", "expire", "decr", "waiting"}]
      BY DEF Init
    <2>3. alive \in BOOLEAN /\ cut \in BOOLEAN
      BY Zenon DEF Init
    <2>4. /\ counter \in Int /\ ttl \in 0..TTL /\ over \subseteq Callers
          /\ granted \in Nat /\ leaked \in Nat /\ stray \in Nat /\ aborts \in Nat
      BY <2>1 DEF Init
    <2>5. QED
      BY <2>2, <2>3, <2>4 DEF TypeOK
  <1>2. Cardinality(over) = 0
    BY FS_EmptySet DEF Init
  <1>3. Balance
    BY <1>2 DEF Init, Balance
  <1>4. WindowLimit /\ OrphanOnlyByCut
    BY DEF Init, WindowLimit, OrphanOnlyByCut, Orphaned
  <1>5. QED
    BY <1>1, <1>3, <1>4 DEF Init, GateInv

\* An INCR that is granted raises counter and granted together; one that is
\* refused puts its caller into `over'.
LEMMA GateIncr ==
    ASSUME GateInv, NEW c \in Callers, Incr(c)
    PROVE  GateInv'
  <1> USE LimitAssumption, TTLAssumption
  <1>a. /\ TypeOK /\ Balance /\ WindowLimit
        /\ pc[c] \in {"out", "waiting"} /\ c \notin over
        /\ alive' = TRUE /\ counter' = counter + 1
        /\ UNCHANGED <<ttl, leaked, stray, cut, aborts>>
    BY DEF GateInv, Incr
  <1>o. Cardinality(over) \in Nat /\ Cardinality(over \cup {c}) = Cardinality(over) + 1
    BY <1>a, OverSize DEF TypeOK
  <1>1. CASE counter' <= Limit
    <2>1. /\ granted' = granted + 1 /\ over' = over
          /\ pc' = [pc EXCEPT ![c] = IF counter' = 1 THEN "expire" ELSE "out"]
      BY <1>1 DEF Incr
    <2>2. TypeOK'
      BY <1>a, <2>1 DEF TypeOK
    <2>3. \A d \in over' : pc'[d] = "decr"
      BY <1>a, <2>1 DEF TypeOK, GateInv
    <2>4. Balance'
      BY <1>a, <1>o, <2>1 DEF TypeOK, Balance
    <2>5. WindowLimit'
      BY <1>1, <1>a, <1>o, <2>1, <2>4 DEF TypeOK, Balance, WindowLimit
    <2>6. OrphanOnlyByCut'
      <3>1. CASE counter' = 1
        BY <3>1, <1>a, <2>1 DEF TypeOK, OrphanOnlyByCut, Orphaned
      <3>2. CASE counter' # 1 /\ alive
        <4> SUFFICES ASSUME Orphaned' PROVE cut
          BY <1>a DEF OrphanOnlyByCut
        <4>1. counter >= 1 /\ ttl = 0
          BY <3>2, <1>a DEF TypeOK, Orphaned
        <4>2. \A d \in Callers : pc[d] # "expire"
          BY <1>a, <2>1 DEF TypeOK, Orphaned
        <4>3. QED
          BY <4>1, <4>2, <3>2 DEF GateInv, OrphanOnlyByCut, Orphaned
      <3>3. CASE ~alive
        BY <3>3, <3>1, <1>a DEF GateInv, TypeOK
      <3>4. QED
        BY <3>1, <3>2, <3>3 DEF GateInv, TypeOK
    <2>7. QED
      BY <2>2, <2>3, <2>4, <2>5, <2>6, <1>a DEF GateInv
  <1>2. CASE ~(counter' <= Limit)
    <2>1. /\ granted' = granted /\ over' = over \cup {c}
          /\ pc' = [pc EXCEPT ![c] = "decr"]
      BY <1>2 DEF Incr
    <2>2. TypeOK'
      BY <1>a, <2>1 DEF TypeOK
    <2>3. \A d \in over' : pc'[d] = "decr"
      BY <1>a, <2>1 DEF TypeOK, GateInv
    <2>4. Balance'
      BY <1>a, <1>o, <2>1 DEF TypeOK, Balance
    <2>5. WindowLimit'
      BY <1>a, <2>1 DEF WindowLimit
    <2>6. OrphanOnlyByCut'
      <3> SUFFICES ASSUME Orphaned' PROVE cut
        BY <1>a DEF OrphanOnlyByCut
      <3>1. counter >= 1 /\ ttl = 0 /\ alive
        BY <1>2, <1>a DEF GateInv, TypeOK, Orphaned
      <3>2. \A d \in Callers : pc[d] # "expire"
        BY <1>a, <2>1 DEF TypeOK, Orphaned
      <3>3. QED
        BY <3>1, <3>2 DEF GateInv, OrphanOnlyByCut, Orphaned
    <2>7. QED
      BY <2>2, <2>3, <2>4, <2>5, <2>6, <1>a DEF GateInv
  <1>3. QED
    BY <1>1, <1>2

\* EXPIRE leaves the balance alone and ends the danger of an orphan.
LEMMA GateExpire ==
    ASSUME GateInv, NEW c \in Callers, Expire(c)
    PROVE  GateInv'
  <1> USE LimitAssumption, TTLAssumption
  <1>a. /\ TypeOK /\ pc[c] = "expire" /\ c \notin over
        /\ ttl' = IF alive THEN TTL ELSE 0
        /\ pc' = [pc EXCEPT ![c] = "out"]
        /\ UNCHANGED <<alive, counter, granted, over, leaked, stray, cut, aborts>>
    BY DEF GateInv, Expire
  <1>1. TypeOK'
    BY <1>a DEF TypeOK
  <1>2. \A d \in over' : pc'[d] = "decr"
    BY <1>a DEF TypeOK, GateInv
  <1>3. Balance' /\ WindowLimit'
    BY <1>a DEF GateInv, Balance, WindowLimit
  <1>4. OrphanOnlyByCut'
    BY <1>a DEF OrphanOnlyByCut, Orphaned
  <1>5. QED
    BY <1>1, <1>2, <1>3, <1>4, <1>a DEF GateInv

\* A DECR takes its own INCR back, or is a stray one.
LEMMA GateDecr ==
    ASSUME GateInv, NEW c \in Callers, Decr(c)
    PROVE  GateInv'
  <1>a. /\ TypeOK /\ pc[c] = "decr"
        /\ alive' = TRUE /\ counter' = counter - 1 /\ over' = over \ {c}
        /\ stray' = IF c \in over THEN stray ELSE stray + 1
        /\ pc' = [pc EXCEPT ![c] = "waiting"]
        /\ UNCHANGED <<ttl, granted, leaked, cut, aborts>>
    BY DEF GateInv, Decr
  <1>o. /\ Cardinality(over) \in Nat
        /\ c \in over => Cardinality(over \ {c}) = Cardinality(over) - 1
        /\ c \notin over => over \ {c} = over
    BY <1>a, OverSize DEF TypeOK
  <1>1. TypeOK'
    BY <1>a DEF TypeOK
  <1>2. \A d \in over' : pc'[d] = "decr"
    BY <1>a DEF TypeOK, GateInv
  <1>3. Balance'
    <2>1. CASE c \in over
      BY <2>1, <1>a, <1>o DEF GateInv, TypeOK, Balance
    <2>2. CASE c \notin over
      <3>1. over' = over /\ stray' = stray + 1
        BY <2>2, <1>a, <1>o
      <3>2. QED
        BY <3>1, <1>a, <1>o DEF GateInv, TypeOK, Balance
    <2>3. QED
      BY <2>1, <2>2
  <1>4. WindowLimit'
    BY <1>a, LimitAssumption DEF GateInv, TypeOK, WindowLimit
  <1>5. OrphanOnlyByCut'
    <2> SUFFICES ASSUME Orphaned' PROVE cut
      BY <1>a DEF OrphanOnlyByCut
    <2>1. counter >= 1 /\ ttl = 0 /\ alive
      BY <1>a DEF GateInv, TypeOK, Orphaned
    <2>2. \A d \in Callers : pc[d] # "expire"
      BY <1>a DEF TypeOK, Orphaned
    <2>3. QED
      BY <2>1, <2>2 DEF GateInv, OrphanOnlyByCut, Orphaned
  <1>6. QED
    BY <1>1, <1>2, <1>3, <1>4, <1>5, <1>a DEF GateInv

\* A cancelled caller leaves its INCR behind.
LEMMA GateAbort ==
    ASSUME GateInv, NEW c \in Callers, Abort(c)
    PROVE  GateInv'
  <1>a. /\ TypeOK /\ aborts' = aborts + 1
        /\ cut' = (cut \/ pc[c] = "expire")
        /\ leaked' = IF c \in over THEN leaked + 1 ELSE leaked
        /\ over' = over \ {c}
        /\ pc' = [pc EXCEPT ![c] = "out"]
        /\ UNCHANGED <<alive, counter, ttl, granted, stray>>
    BY DEF GateInv, Abort
  <1>o. /\ Cardinality(over) \in Nat
        /\ c \in over => Cardinality(over \ {c}) = Cardinality(over) - 1
        /\ c \notin over => over \ {c} = over
    BY <1>a, OverSize DEF TypeOK
  <1>1. TypeOK'
    BY <1>a DEF TypeOK
  <1>2. \A d \in over' : pc'[d] = "decr"
    BY <1>a DEF TypeOK, GateInv
  <1>3. Balance'
    <2>1. CASE c \in over
      BY <2>1, <1>a, <1>o DEF GateInv, TypeOK, Balance
    <2>2. CASE c \notin over
      BY <2>2, <1>a, <1>o DEF GateInv, TypeOK, Balance
    <2>3. QED
      BY <2>1, <2>2
  <1>4. WindowLimit'
    BY <1>a DEF GateInv, WindowLimit
  <1>5. OrphanOnlyByCut'
    <2> SUFFICES ASSUME Orphaned', pc[c] # "expire" PROVE cut
      BY <1>a DEF OrphanOnlyByCut
    <2>1. \A d \in Callers : pc[d] # "expire"
      BY <1>a DEF TypeOK, Orphaned
    <2>2. QED
      BY <2>1, <1>a DEF GateInv, OrphanOnlyByCut, Orphaned
  <1>6. ~alive' => over' = {} /\ leaked' = 0
    BY <1>a DEF GateInv
  <1>7. QED
    BY <1>1, <1>2, <1>3, <1>4, <1>5, <1>6, <1>a DEF GateInv

\* Time only ages the counter, or drops it and all that is counted of it.
LEMMA GateTick ==
    ASSUME GateInv, Tick
    PROVE  GateInv'
  <1>a. /\ TypeOK /\ ttl > 0 /\ ttl' = ttl - 1 /\ UNCHANGED <<pc, cut, aborts>>
    BY DEF GateInv, Tick
  <1>1. CASE ttl = 1
    <2>1. /\ alive' = FALSE /\ counter' = 0 /\ ttl' = 0
          /\ granted' = 0 /\ over' = {} /\ leaked' = 0 /\ stray' = 0
      BY <1>1, <1>a DEF Tick
    <2>2. Cardinality({}) = 0
      BY FS_EmptySet
    <2>3. TypeOK'
      <3>1. 0 \in 0..TTL
        BY TTLAssumption
      <3>2. pc' \in [Callers -> {"out", "expire", "decr", "waiting"}]
        BY <1>a DEF TypeOK
      <3>3. alive' \in BOOLEAN
        BY <2>1, Zenon
      <3>4. cut' \in BOOLEAN /\ aborts' \in Nat
        BY <1>a DEF TypeOK
      <3>5. /\ counter' \in Int /\ ttl' \in 0..TTL /\ over' \subseteq Callers
            /\ granted' \in Nat /\ leaked' \in Nat /\ stray' \in Nat
        BY <2>1, <3>1
      <3>6. QED
        BY <3>2, <3>3, <3>4, <3>5 DEF TypeOK
    <2>4. Balance' /\ WindowLimit' /\ OrphanOnlyByCut'
      BY <2>1, <2>2, LimitAssumption DEF Balance, WindowLimit, OrphanOnlyByCut, Orphaned
    <2>5. QED
      BY <2>1, <2>3, <2>4 DEF GateInv
  <1>2. CASE ttl # 1
    <2>1. UNCHANGED <<alive, counter, granted, over, leaked, stray>>
      BY <1>2 DEF Tick
    <2>2. TypeOK' /\ ttl' # 0
      BY <1>a, <1>2, <2>1, TTLAssumption DEF TypeOK
    <2>3. Balance' /\ WindowLimit' /\ OrphanOnlyByCut'
      BY <1>a, <2>1, <2>2 DEF GateInv, Balance, WindowLimit, OrphanOnlyByCut, Orphaned
    <2>4. alive
      BY <1>a DEF GateInv, TypeOK
    <2>5. QED
      BY <1>a, <2>1, <2>2, <2>3, <2>4 DEF GateInv
  <1>3. QED
    BY <1>1, <1>2

\* Every step keeps the invariant.
LEMMA GateStep == GateInv /\ [Next]_vars => GateInv'
  <1> SUFFICES ASSUME GateInv, [Next]_vars PROVE GateInv'
    OBVIOUS
  <1>1. CASE UNCHANGED vars
    BY <1>1 DEF vars, GateInv, TypeOK, Balance, WindowLimit, OrphanOnlyByCut, Orphaned
  <1>2. ASSUME NEW c \in Callers, Incr(c) PROVE GateInv'
    BY <1>2, GateIncr
  <1>3. ASSUME NEW c \in Callers, Expire(c) PROVE GateInv'
    BY <1>3, GateExpire
  <1>4. ASSUME NEW c \in Callers, Decr(c) PROVE GateInv'
    BY <1>4, GateDecr
  <1>5. ASSUME NEW c \in Callers, Abort(c) PROVE GateInv'
    BY <1>5, GateAbort
  <1>6. CASE Tick
    BY <1>6, GateTick
  <1>7. QED
    BY <1>1, <1>2, <1>3, <1>4, <1>5, <1>6 DEF Next

LEMMA GateInductive == Spec => []GateInv
  BY GateInit, GateStep, PTL DEF Spec

\* The limit of exchange_rate_per_minute holds for one counter, but for the
\* DECRs it took from callers of an earlier one: for every limit, every TTL
\* and every number of callers.
THEOREM SlotsBounded == Spec => []WindowLimit
  <1>1. GateInv => WindowLimit
    BY DEF GateInv
  <1>2. QED
    BY <1>1, GateInductive, PTL

\* A counter without TTL that counts up is always the work of a caller lost
\* between its INCR and its EXPIRE.
THEOREM OrphansExplained == Spec => []OrphanOnlyByCut
  <1>1. GateInv => OrphanOnlyByCut
    BY DEF GateInv
  <1>2. QED
    BY <1>1, GateInductive, PTL

\* Type correctness, and with it: no counter has more than 60 s to live, also
\* when several callers set its TTL.
THEOREM GateTypes == Spec => []TypeOK
  <1>1. GateInv => TypeOK
    BY DEF GateInv
  <1>2. QED
    BY <1>1, GateInductive, PTL
=============================================================================
