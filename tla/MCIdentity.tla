----------------------------- MODULE MCIdentity -----------------------------
(***************************************************************************)
(* A company with two e-mail addresses.                                    *)
(***************************************************************************)
EXTENDS Identity

CONSTANTS u1, u2
=============================================================================
