-------------------------- MODULE MCClusterProvider --------------------------
(* Instances of ClusterProvider for TLC. Two contexts, one of them present  *)
(* in two kubeconfigs, so that a switch may change the name, the path or    *)
(* both.                                                                    *)
EXTENDS ClusterProvider

CONSTANTS a, b, p, q, n

MCLabels == {a, b}
MCPaths == {p, q}
MCTargets == {[ctx |-> a, path |-> p], [ctx |-> b, path |-> q]}
MCNamespaces == {n}
MCFilters == {{n}}
=============================================================================
