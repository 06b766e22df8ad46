------------------------------ MODULE OrderLedger ------------------------------
(***************************************************************************)
(* What the engine promises about the orders of an account, apart from how *)
(* its passes, sessions, retries, crashes and requests come about it: an   *)
(* order is taken by the exchange once, and once more only for each time   *)
(* it was taken and the database did not learn of it or gave it up; what   *)
(* is booked was taken, and is neither taken again nor struck off the book *)
(* before its grid is given up.  BotEngine and SharedSymbol, which has     *)
(* several bots on a symbol, implement this specification.                 *)
(***************************************************************************)
EXTENDS Naturals

CONSTANT Orders     \* client order ids

VARIABLES
    taken,          \* how often the exchange has accepted each order
    excused,        \* how often each order may have to be repeated
    book,           \* orders the database has with an exchange id
    leaving         \* booked orders of grids given up and not yet committed

vars == <<taken, excused, book, leaving>>

Init ==
    /\ taken = [o \in Orders |-> 0] /\ excused = [o \in Orders |-> 0]
    /\ book = {} /\ leaving = {}

\* Some orders may have to be repeated: none that was not taken, and none that
\* is booked, unless its grid is given up.
Excuse ==
    /\ excused' \in [Orders -> Nat]
    /\ \A o \in Orders :
         \/ excused'[o] = excused[o]
         \/ /\ excused'[o] = excused[o] + 1
            /\ taken'[o] > 0
            /\ o \in book => o \in leaving \cup leaving'

\* The exchange takes an order; its reply, and those of others, may be lost
\* in the same step.
Take(o) ==
    /\ taken[o] <= excused[o]
    /\ o \in book => o \in leaving
    /\ taken' = [taken EXCEPT ![o] = @ + 1]
    /\ Excuse
    /\ book' = book /\ leaving' \subseteq leaving

\* Sessions end without a commit.
Abandon ==
    /\ Excuse
    /\ taken' = taken /\ book' = book /\ leaving' \subseteq leaving

\* A grid is given up and may be placed anew.
Recreate ==
    /\ Excuse
    /\ taken' = taken /\ book' = book
    /\ leaving \subseteq leaving' /\ leaving' \subseteq book

\* A session commits: what it has heard of is booked, what it forgets is not.
Book ==
    /\ Excuse
    /\ \A o \in book' : taken[o] > 0 /\ excused'[o] = excused[o]
    /\ book' \subseteq Orders /\ book \ book' \subseteq leaving
    /\ taken' = taken /\ leaving' \subseteq leaving \cap book'

Next == (\E o \in Orders : Take(o)) \/ Abandon \/ Recreate \/ Book

Spec == Init /\ [][Next]_vars

-----------------------------------------------------------------------------
\* What follows from the rules alone, whoever keeps the book.
Balanced ==
    /\ \A o \in Orders : taken[o] <= 1 + excused[o]
    /\ \A o \in book : taken[o] > 0
    /\ leaving \subseteq book /\ book \subseteq Orders
=============================================================================
