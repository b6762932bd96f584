------------------------------ MODULE MCAuth ------------------------------
(***************************************************************************)
(* The root module of the TLC runs of AuthSession.  Its configuration      *)
(* gives the constants their values.                                       *)
(***************************************************************************)
EXTENDS AuthSession
=============================================================================
