--------------------------- MODULE ExchangeCallGate ---------------------------
(***************************************************************************)
(* ExchangeCallGate (core/exchange_rate_limit.py): every call of the       *)
(* exchange made with one API key first takes a slot of a counter in Redis *)
(* that all API and engine processes share.  The counter is a key that     *)
(* INCR or DECR creates and that lives on until a TTL set by a command of  *)
(* its own runs out.                                                       *)
(*                                                                         *)
(* Each Redis command is one step; a caller may be cancelled, or lose its  *)
(* connection, between any two of them.                                    *)
(***************************************************************************)
EXTENDS Integers, FiniteSets

CONSTANTS
    Callers,    \* tasks that call the exchange with this key
    Limit,      \* max(1, exchange_rate_per_minute)
    TTL,        \* clock ticks in 60 s
    MaxAborts   \* bound: callers cancelled inside acquire

ASSUME CallersAssumption == IsFiniteSet(Callers)
ASSUME LimitAssumption == Limit \in Nat \ {0}
ASSUME TTLAssumption == TTL \in Nat \ {0}
ASSUME AbortsAssumption == MaxAborts \in Nat

VARIABLES
    alive,    \* the key exists
    counter,  \* its value; 0 when it does not exist
    ttl,      \* ticks until Redis drops it, 0 when it has no TTL
    pc,       \* where each caller is in acquire
    granted,  \* slots given out by the present counter (history)
    over,     \* callers whose refused INCR is in the present counter (history)
    leaked,   \* such INCRs whose caller was cancelled (history)
    stray,    \* DECRs in it whose INCR went to an earlier one (history)
    cut,      \* a caller was cancelled between INCR and EXPIRE (history)
    aborts

vars == <<alive, counter, ttl, pc, granted, over, leaked, stray, cut, aborts>>

Init ==
    /\ alive = FALSE /\ counter = 0 /\ ttl = 0
    /\ pc = [c \in Callers |-> "out"]
    /\ granted = 0 /\ over = {} /\ leaked = 0 /\ stray = 0
    /\ cut = FALSE /\ aborts = 0

\* Mutants: n < limit + 1 misread; the TTL set on every call; the early
\* return before the EXPIRE.
IncrOffByOne(c) ==
    /\ pc[c] \in {"out", "waiting"}
    /\ alive' = TRUE /\ counter' = counter + 1
    /\ IF counter' <= Limit + 1
       THEN /\ pc' = [pc EXCEPT ![c] = IF counter' = 1 THEN "expire" ELSE "out"]
            /\ granted' = granted + 1
            /\ UNCHANGED over
       ELSE /\ pc' = [pc EXCEPT ![c] = "decr"]
            /\ over' = over \cup {c}
            /\ UNCHANGED granted
    /\ UNCHANGED <<ttl, leaked, stray, cut, aborts>>
IncrRenews(c) ==
    /\ pc[c] \in {"out", "waiting"}
    /\ alive' = TRUE /\ counter' = counter + 1
    /\ ttl' = TTL
    /\ IF counter' <= Limit
       THEN /\ pc' = [pc EXCEPT ![c] = "out"]
            /\ granted' = granted + 1
            /\ UNCHANGED over
       ELSE /\ pc' = [pc EXCEPT ![c] = "decr"]
            /\ over' = over \cup {c}
            /\ UNCHANGED granted
    /\ UNCHANGED <<leaked, stray, cut, aborts>>
IncrReturnsFirst(c) ==
    /\ pc[c] \in {"out", "waiting"}
    /\ alive' = TRUE /\ counter' = counter + 1
    /\ IF counter' <= Limit
       THEN /\ pc' = [pc EXCEPT ![c] = "out"]
            /\ granted' = granted + 1
            /\ UNCHANGED over
       ELSE /\ pc' = [pc EXCEPT ![c] = "decr"]
            /\ over' = over \cup {c}
            /\ UNCHANGED granted
    /\ UNCHANGED <<ttl, leaked, stray, cut, aborts>>

\* INCR.  The first of a counter sets its TTL before it returns, one within
\* the limit returns, any other gives its INCR back and tries again.
Incr(c) ==
    /\ pc[c] \in {"out", "waiting"}
    /\ alive' = TRUE /\ counter' = counter + 1
    /\ IF counter' <= Limit
       THEN /\ pc' = [pc EXCEPT ![c] = IF counter' = 1 THEN "expire" ELSE "out"]
            /\ granted' = granted + 1
            /\ UNCHANGED over
       ELSE /\ pc' = [pc EXCEPT ![c] = "decr"]
            /\ over' = over \cup {c}
            /\ UNCHANGED granted
    /\ UNCHANGED <<ttl, leaked, stray, cut, aborts>>

\* Mutant: the 60 s are added to what is left.
ExpireAdds(c) ==
    /\ pc[c] = "expire"
    /\ ttl' = IF alive THEN ttl + TTL ELSE 0
    /\ pc' = [pc EXCEPT ![c] = "out"]
    /\ UNCHANGED <<alive, counter, granted, over, leaked, stray, cut, aborts>>

\* EXPIRE does nothing to a key that is gone.
Expire(c) ==
    /\ pc[c] = "expire"
    /\ ttl' = IF alive THEN TTL ELSE 0
    /\ pc' = [pc EXCEPT ![c] = "out"]
    /\ UNCHANGED <<alive, counter, granted, over, leaked, stray, cut, aborts>>

\* DECR creates the key at -1, without TTL, when the counter it meant is gone.
Decr(c) ==
    /\ pc[c] = "decr"
    /\ alive' = TRUE /\ counter' = counter - 1
    /\ over' = over \ {c}
    /\ stray' = IF c \in over THEN stray ELSE stray + 1
    /\ pc' = [pc EXCEPT ![c] = "waiting"]
    /\ UNCHANGED <<ttl, granted, leaked, cut, aborts>>

\* The caller is cancelled or its connection breaks.
Abort(c) ==
    /\ pc[c] # "out" /\ aborts < MaxAborts
    /\ aborts' = aborts + 1
    /\ cut' = (cut \/ pc[c] = "expire")
    /\ leaked' = IF c \in over THEN leaked + 1 ELSE leaked
    /\ over' = over \ {c}
    /\ pc' = [pc EXCEPT ![c] = "out"]
    /\ UNCHANGED <<alive, counter, ttl, granted, stray>>

\* Time passes; Redis drops the key when its TTL is over.
Tick ==
    /\ ttl > 0
    /\ ttl' = ttl - 1
    /\ IF ttl = 1
       THEN /\ alive' = FALSE /\ counter' = 0
            /\ granted' = 0 /\ over' = {} /\ leaked' = 0 /\ stray' = 0
       ELSE UNCHANGED <<alive, counter, granted, over, leaked, stray>>
    /\ UNCHANGED <<pc, cut, aborts>>

Next ==
    \/ \E c \in Callers : Incr(c) \/ Expire(c) \/ Decr(c) \/ Abort(c)
    \/ Tick

Spec == Init /\ [][Next]_vars

\* A caller inside acquire goes on (its sleep is 50 ms), and time passes.
FairSpec ==
    /\ Spec
    /\ \A c \in Callers :
         WF_vars(pc[c] # "out" /\ (Incr(c) \/ Expire(c) \/ Decr(c)))
    /\ WF_vars(Tick)

-----------------------------------------------------------------------------
(* Properties.                                                             *)

\* Every variable has its type; a counter lives 60 s at most from its last
\* EXPIRE, also when two callers were the first of one counter.
TypeOK ==
    /\ alive \in BOOLEAN /\ counter \in Int /\ ttl \in 0..TTL
    /\ pc \in [Callers -> {"out", "expire", "decr", "waiting"}]
    /\ granted \in Nat /\ over \subseteq Callers /\ leaked \in Nat
    /\ stray \in Nat /\ cut \in BOOLEAN /\ aborts \in Nat

\* One counter gives out no more slots than the limit and the DECRs that
\* callers of an earlier counter took from it.
WindowLimit == granted <= Limit + stray

\* A counter that counts up and will never expire: nobody gets n = 1 again.
Orphaned ==
    alive /\ ttl = 0 /\ counter >= 1 /\ \A c \in Callers : pc[c] # "expire"

\* Only a caller cancelled between its INCR and its EXPIRE leaves a counter
\* that never expires; a DECR that creates the key does not.
OrphanOnlyByCut == Orphaned => cut

\* While somebody waits for a slot, slots keep being given out, unless the
\* counter is orphaned: then every caller of the key may wait for ever.
Waiting == {c \in Callers : pc[c] # "out"}
Grant   == granted' > granted
SlotsKeepComing == <>[]Orphaned \/ []<>(Waiting = {}) \/ []<><<Grant>>_vars

-----------------------------------------------------------------------------
(* The inductive invariant.                                                *)

\* What the counter counts.
Balance == counter = granted + Cardinality(over) + leaked - stray

GateInv ==
    /\ TypeOK
    /\ \A c \in over : pc[c] = "decr"
    /\ ~alive => counter = 0 /\ granted = 0 /\ over = {} /\ leaked = 0
                 /\ stray = 0 /\ ttl = 0
    /\ Balance
    /\ WindowLimit
    /\ OrphanOnlyByCut
=============================================================================
