--------------------------- MODULE MCRateLimiter ---------------------------
(***************************************************************************)
(* Two clients with budgets of one and three a minute, and a disabled      *)
(* class.  A minute of two ticks leaves half a token in the slow bucket.   *)
(***************************************************************************)
EXTENDS RateLimiter, TLC

CONSTANTS q1, q2, slow, fast, off

RequestSymmetry == Permutations(Callers)

Budgets == slow :> 1 @@ fast :> 3 @@ off :> 0
=============================================================================
