------------------------------ MODULE MCAdmin ------------------------------
(* The root module of the TLC runs of AdminDashboard. *)
EXTENDS AdminDashboard
=============================================================================
