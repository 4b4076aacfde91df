------------------------------ MODULE MCBreaker ------------------------------
(* Instances of BreakerSafety for TLC. *)
EXTENDS BreakerSafety

\* Left out of the configuration, zero, and negative.
Configured == {-1, 0, 2}
=============================================================================
