-------------------------------- MODULE Sums ---------------------------------
(***************************************************************************)
(* What the loops of the program add up.                                   *)
(***************************************************************************)
EXTENDS Integers, FiniteSetsExt

\* The sum of what f has for the members of S.
SumOver(f, S) == MapThenSumSet(LAMBDA x : f[x], S)
=============================================================================
