--------------------------- MODULE MCReleasePages ---------------------------
(* Two clusters with two releases of the same names, and the bounds.       *)
EXTENDS ReleasePages, TLC

CONSTANTS c1, c2, r1, r2

MCInstalled == (c1 :> (r1 :> 1 @@ r2 :> 1)) @@ (c2 :> (r1 :> 2 @@ r2 :> 0))

=============================================================================
