------------------------------- MODULE Domain -------------------------------
(***************************************************************************)
(* The vocabulary shared by every component of the cinema backend: the     *)
(* status enumerations of core/constants.py and the derivation of an       *)
(* order's status from the statuses of its tickets.                        *)
(*                                                                         *)
(* The value "none" is not a status of the program: it stands for a        *)
(* document that has not been inserted.                                    *)
(***************************************************************************)

\* A deleted session leaves no document; "deleted" records that it existed.
SessionStatuses == {"scheduled", "cancelled", "completed", "deleted"}

TicketStatuses == {"reserved", "purchased", "cancelled", "expired"}

\* The statuses in which a ticket occupies its seat.
BlockingStatuses == {"reserved", "purchased"}

OrderStatuses ==
    {"pending_payment", "completed", "partially_cancelled", "payment_failed",
     "payment_cancelled", "cancelled", "expired"}

\* The statuses that tell why a payment released the order's reservation.
PaymentReleaseStatuses == {"payment_failed", "payment_cancelled"}

-----------------------------------------------------------------------------
\* A bug that calls an order cancelled as soon as one ticket is.
DerivedStatusAnyCancelled(S) ==
    IF "reserved" \in S THEN "pending_payment"
    ELSE IF "cancelled" \in S THEN "cancelled"
    ELSE IF "expired" \in S THEN "expired"
    ELSE "completed"

(***************************************************************************)
(* The status of an order whose tickets have exactly the statuses in the   *)
(* set S.  The program counts tickets per status; only which counts are    *)
(* zero, and whether every ticket is purchased, decide the result, and     *)
(* both can be read from the set.                                          *)
(***************************************************************************)
DerivedStatus(S) ==
    CASE "reserved" \in S                         -> "pending_payment"
      [] "reserved" \notin S /\ "purchased" \notin S /\ "expired" \in S
                                                  -> "expired"
      [] S \cap {"reserved", "purchased", "expired"} = {}
                                                  -> "cancelled"
      [] S = {"purchased"}                        -> "completed"
      [] OTHER                                    -> "partially_cancelled"

(***************************************************************************)
(* The status an aggregate refresh stores for an order that now holds the  *)
(* status `current`: a released reservation keeps the reason a payment     *)
(* gave for the release.                                                   *)
(***************************************************************************)
AggregateStatus(current, S) ==
    IF /\ current \in PaymentReleaseStatuses
       /\ DerivedStatus(S) \in {"cancelled", "expired"}
    THEN current
    ELSE DerivedStatus(S)

=============================================================================
