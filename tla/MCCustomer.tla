----------------------------- MODULE MCCustomer -----------------------------
(* The root module of the TLC runs of CustomerSite. *)
EXTENDS CustomerSite
=============================================================================
