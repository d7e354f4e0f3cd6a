---------------------------- MODULE MCHelmService ----------------------------
(* Instances of HelmService for TLC: two or three requests, one or two      *)
(* context names and kubeconfig paths, one namespace beside "all".          *)
EXTENDS HelmService, TLC

CONSTANTS a, b, p, q, n, x, y, z

MCLabels == {a, b}
OneLabel == {a}
MCPaths == {p, q}
OnePath == {p}
MCNamespaces == {n}
MCCalls == {x, y}
ThreeCalls == {x, y, z}
CallSymmetry == Permutations(Calls)
=============================================================================
