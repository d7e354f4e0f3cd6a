--------------------------- MODULE MCReleaseTable ---------------------------
(* An instance of ReleaseTable for TLC: two releases of one name in two     *)
(* namespaces, and two operations of the user.                              *)
EXTENDS ReleaseTable

CONSTANTS x, n, m, i, j

MCNames == {x}
MCReleases == {[name |-> x, ns |-> n], [name |-> x, ns |-> m]}
TwoJobs == {i, j}
=============================================================================
