---------------------------- MODULE MCSpendLedger ----------------------------
(***************************************************************************)
(* The instance of SpendLedger that TLC checks: one organisation with two  *)
(* projects, requests of both, one of them without a reservation.          *)
(***************************************************************************)
EXTENDS SpendLedger, TLC

CONSTANTS w1, w2, r1, r2, r3, org, p1, p2

TwoWorkers == {w1, w2}
ThreeRequests == {r1, r2, r3}
\* The workers are alike, and so are the two projects with their requests.
Swap == (r1 :> r2) @@ (r2 :> r1) @@ (p1 :> p2) @@ (p2 :> p1)
Symmetry == Permutations(TwoWorkers) \cup {Swap}
MCScopes == (r1 :> <<p1, org>>) @@ (r2 :> <<p2, org>>) @@ (r3 :> <<org>>)
MCBudget == (org :> 3) @@ (p1 :> 2) @@ (p2 :> 2)
MCMode == (r1 :> "hard") @@ (r2 :> "hard") @@ (r3 :> "dry")
MCCosts == {1}
=============================================================================
