-------------------------- MODULE MCNodePreflight --------------------------
(***************************************************************************)
(* Instances of NodePreflight.                                             *)
(***************************************************************************)
EXTENDS NodePreflight, TLC

CONSTANTS d, s, w1, w2

\* One pod of a daemon set, one static pod and two of the workload.
KindOf == (d :> "daemonSet") @@ (s :> "static") @@ (w1 :> "other") @@ (w2 :> "other")
=============================================================================
