------------------------- MODULE MCEndpointRegistry -------------------------
(* Instances of EndpointRegistry for TLC.                                  *)
EXTENDS EndpointRegistry, TLC

CONSTANTS r1, r2, r3, u1, u2, c1, c2

\* Two requests for one chain and one for another.
Asks == r1 :> c1 @@ r2 :> c1 @@ r3 :> c2

\* The second configuration moves u1 from the second chain to the first.
Moving == << c1 :> {} @@ c2 :> {u1}, c1 :> {u1} @@ c2 :> {} >>

\* The provider knows one endpoint, of the first chain.
ProvidesOne == c1 :> {u2} @@ c2 :> {}

\* The requests for the same chain can be exchanged.
Swap == Permutations({r1, r2})

=============================================================================
