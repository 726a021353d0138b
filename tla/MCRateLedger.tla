---------------------------- MODULE MCRateLedger ----------------------------
(***************************************************************************)
(* The instances of RateLedger that TLC checks: two callers that compete   *)
(* for the entries of one stripe, or one caller with all the requests.     *)
(***************************************************************************)
EXTENDS RateLedger, TLC

CONSTANTS w1, w2, r1, r2, r3, k1, k2

TwoWorkers == {w1, w2}
Symmetry == Permutations(TwoWorkers) \cup Permutations({r1, r2})
Callers == {k1, k2}
ThreeKeyOf == (r1 :> k1) @@ (r2 :> k1) @@ (r3 :> k2)
OneCaller == {k1}
OneKeyOf == [r \in {r1, r2, r3} |-> k1]
TwoKeyOf == (r1 :> k1) @@ (r3 :> k2)
OneCallerSymmetry == Permutations(TwoWorkers) \cup Permutations({r1, r2, r3})
MCActual == {0, 1, 3}
MCCooldowns == {0, 1}
=============================================================================
