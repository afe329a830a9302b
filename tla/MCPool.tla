------------------------------- MODULE MCPool -------------------------------
(***************************************************************************)
(* State for runs that check several components one beside the other.  A   *)
(* behaviour is one of a single component, named by part; a component has  *)
(* its own variables, or takes the first ones of the pool, the rest of     *)
(* which stays 0.  A run explores the sum of the components' states and    *)
(* not their product.                                                      *)
(***************************************************************************)
EXTENDS Integers, Sequences

VARIABLES
    part,
    v1, v2, v3, v4, v5, v6, v7, v8

pool == <<v1, v2, v3, v4, v5, v6, v7, v8>>

\* Variables that a part of n variables does not need.
NothingBeyond(n) ==
    /\ (n < 1 => v1 = 0) /\ (n < 2 => v2 = 0) /\ (n < 3 => v3 = 0)
    /\ (n < 4 => v4 = 0) /\ (n < 5 => v5 = 0) /\ (n < 6 => v6 = 0) /\ (n < 7 => v7 = 0)
    /\ (n < 8 => v8 = 0)

SameBeyond(n) ==
    /\ (n < 1 => UNCHANGED v1) /\ (n < 2 => UNCHANGED v2) /\ (n < 3 => UNCHANGED v3)
    /\ (n < 4 => UNCHANGED v4) /\ (n < 5 => UNCHANGED v5) /\ (n < 6 => UNCHANGED v6) /\ (n < 7 => UNCHANGED v7)
    /\ (n < 8 => UNCHANGED v8)
=============================================================================
