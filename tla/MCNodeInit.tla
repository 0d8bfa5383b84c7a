----------------------------- MODULE MCNodeInit -----------------------------
(* NodeInit for TLC: two clusters, a node that can be moved between them,   *)
(* and hosts that differ in what the checks and the aspects look at.        *)
EXTENDS NodeInit

East == [cluster |-> "east", provider |-> "iam-ra", complete |-> FALSE, dropin |-> TRUE, credentialsFile |-> TRUE]
West == [cluster |-> "west", provider |-> "iam-ra", complete |-> TRUE, dropin |-> FALSE, credentialsFile |-> FALSE]
Ssm == [cluster |-> "west", provider |-> "ssm", complete |-> FALSE, dropin |-> FALSE, credentialsFile |-> FALSE]

MCNodeConfigs == {East, West, Ssm}

HostWith(p, containerd, active, fstab, kind, status, runtime, permanent) ==
    [installed |-> p, containerd |-> containerd,
     swap |-> [active |-> active, fstab |-> fstab, mounts |-> TRUE],
     firewall |-> [kind |-> kind, status |-> status, runtime |-> runtime, permanent |-> permanent]]

MCHosts ==
    {HostWith("none", FALSE, "off", FALSE, "ufw", "off", {}, {}),
     HostWith("iam-ra", TRUE, "file", TRUE, "firewalld", "on", {"cni"}, {"cni"}),
     HostWith("iam-ra", FALSE, "deleted", TRUE, "firewalld", "on", {"cni"}, {}),
     HostWith("iam-ra", TRUE, "partition", TRUE, "ufw", "error", {}, {}),
     HostWith("ssm", FALSE, "file", FALSE, "ufw", "on", {"cni"}, {"cni"})}

MCSkipSets ==
    {{}, {"config", "kubelet-cert-validation"},
     {"run", "install-validation", "init-validation", "cni-validation"}}
=============================================================================
