----------------------------- MODULE MCPayments -----------------------------
(***************************************************************************)
(* One order with two payment documents, two initiations and two webhook   *)
(* deliveries at once, and up to two refunds of a price of two units.      *)
(***************************************************************************)
EXTENDS Payments

CONSTANTS p1, p2, i1, i2, d1, d2, r1, r2

Claimed == ~ crossed /\ ~ raced

=============================================================================
