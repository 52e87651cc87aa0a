----------------------------- MODULE MCReviews -----------------------------
(***************************************************************************)
(* Instances of Reviews for TLC.  Two orders of the same two products,     *)
(* which their customers may rate in either order, and one that was        *)
(* cancelled and may not be rated.                                         *)
(***************************************************************************)
EXTENDS Reviews, TLC, Integers

CONSTANTS product1, product2, order1, order2, cancelled

MCRateable == order1 :> {product1, product2} @@ order2 :> {product1, product2} @@ cancelled :> {}
MCRank == product1 :> 3 @@ product2 :> 3

Symmetry ==
    Permutations(Requests) \cup Permutations({order1, order2}) \cup Permutations(Targets)
=============================================================================
