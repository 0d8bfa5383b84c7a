------------------------- MODULE MCNodeComponents -------------------------
(***************************************************************************)
(* Instances of NodeComponents: a host with every package nodeadm would    *)
(* install, or with a runc of the user's own.                              *)
(***************************************************************************)
EXTENDS NodeComponents

Hosts == {{"runc"}, {"containerd", "runc", "iptables"}}
AllSources == ContainerdSources
=============================================================================
