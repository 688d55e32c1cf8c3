------------------------------- MODULE MCHttp --------------------------------
(***************************************************************************)
(* HttpSession with the requests of MCHttpPlans.                           *)
(***************************************************************************)
EXTENDS HttpSession, MCHttpPlans
=============================================================================
