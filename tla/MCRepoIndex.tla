---------------------------- MODULE MCRepoIndex ----------------------------
(* An instance of RepoIndex: two repositories, two URLs, three charts      *)
(* versions of which two share a number.                                   *)
EXTENDS RepoIndex, TLC

CONSTANTS r1, r2, u1, u2, web, db, c1, c2

E(ch, v) == [chart |-> ch, version |-> v]

MCCatalog == (r1 :> u1) @@ (r2 :> u2)
MCOffers  == {{E(web, 1)}, {E(web, 1), E(db, 1), E(web, 2)}}
MCOffered == {(u1 :> {E(web, 1), E(db, 1), E(web, 2)}) @@ (u2 :> {E(web, 1)})}
MCStored  == {(r1 :> u2) @@ (r2 :> None)}
Symmetric == Permutations(Calls)
=============================================================================
