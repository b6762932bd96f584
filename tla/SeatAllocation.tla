--------------------------- MODULE SeatAllocation ---------------------------
(***************************************************************************)
(* What the booking core promises, with no clock, counter or request in    *)
(* sight: every seat of every session is free or belongs to one order, an  *)
(* order takes its seats once and all of them together, and it is sold     *)
(* only while it still has every seat it took.                             *)
(*                                                                         *)
(* phase[o]: "new" has taken no seat yet; "held" has all the seats it took *)
(* and may be sold; "sold" has been sold and has a seat left; "gone" can   *)
(* no longer be sold, or was sold and gave every seat back.                *)
(***************************************************************************)
EXTENDS FiniteSets

CONSTANTS Sessions, Orders, Seats, Free

VARIABLES
    owner,   \* [Sessions \X Seats -> Orders or Free]
    phase    \* [Orders -> Phases]

Phases == {"new", "held", "sold", "gone"}

Places(ses) == {ses} \X Seats

OwnersOf(R) == {owner[p] : p \in R}

Init ==
    /\ owner = [p \in Sessions \X Seats |-> Free]
    /\ phase = [o \in Orders |-> "new"]

\* The owners once the places of R are given back.
Without(R) == [p \in Sessions \X Seats |-> IF p \in R THEN Free ELSE owner[p]]

\* An order that gives a seat back can no longer be sold, and an order that
\* gives its last seat back is gone.
PhaseWithout(R) ==
    [o \in Orders |->
        IF /\ o \in OwnersOf(R)
           /\ phase[o] = "sold" => \A p \in Sessions \X Seats : Without(R)[p] # o
        THEN "gone" ELSE phase[o]]

Taken(ses) == {p \in Places(ses) : owner[p] # Free}

\* Places of one session are given back, those of several orders at a time.
GiveBack(ses, R) ==
    /\ R # {}
    /\ owner' = Without(R)
    /\ phase' = PhaseWithout(R)

\* A new order takes free places of a session; holds that are over may be
\* given back in the same step, sold places never.
Take(o, ses, R, S) ==
    /\ phase[o] = "new"
    /\ S # {}
    /\ \A p \in R : phase[owner[p]] # "sold"
    /\ \A p \in S : Without(R)[p] = Free
    /\ owner' = [p \in Sessions \X Seats |-> IF p \in S THEN o ELSE Without(R)[p]]
    /\ phase' = [PhaseWithout(R) EXCEPT ![o] = "held"]

\* An order that still has every place it took is sold.
Sell(o) ==
    /\ phase[o] = "held"
    /\ phase' = [phase EXCEPT ![o] = "sold"]
    /\ UNCHANGED owner

Next ==
    \/ \E o \in Orders : Sell(o)
    \/ \E ses \in Sessions : \E R \in SUBSET Taken(ses) :
        \/ GiveBack(ses, R)
        \/ \E o \in Orders, S \in SUBSET Places(ses) : Take(o, ses, R, S)

Spec == Init /\ [][Next]_<<owner, phase>>

=============================================================================
