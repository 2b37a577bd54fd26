------------------------------ MODULE MCPortal ------------------------------
(***************************************************************************)
(* Two customers, two requests at the same time, two devices.              *)
(***************************************************************************)
EXTENDS Portal
=============================================================================
