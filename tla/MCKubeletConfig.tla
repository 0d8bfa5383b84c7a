-------------------------- MODULE MCKubeletConfig --------------------------
(***************************************************************************)
(* Small instances of KubeletConfig: hybrid nodes of both credential       *)
(* providers, with and without settings and flags of the user, an EC2 and  *)
(* an Outpost node.                                                        *)
(***************************************************************************)
EXTENDS KubeletConfig

NoSettings == [s \in Settings |-> None]
NodeConfig(kind, name, cluster, user, flags) ==
    [kind |-> kind, name |-> name, cluster |-> cluster, profile |-> kind, ubuntu |-> TRUE,
     cidr |-> [family |-> "ipv4", net |-> cluster, last |-> 0],
     instance |-> IF kind = "outpost" THEN "new.large" ELSE "m5.large", user |-> user, flags |-> flags]
UserFlag(name, value, joined) == [name |-> name, value |-> value, joined |-> joined]

Dns == [NoSettings EXCEPT !["clusterDNS"] = [family |-> "ipv4", net |-> "user", last |-> 53]]
Id == [NoSettings EXCEPT !["providerID"] = <<"user">>]

\* The hostname flag in both forms, of which the validator of hybrid nodes knows one.
MCConfigs ==
    {NodeConfig("ssm", "mi-1", "c1", NoSettings, << >>),
     NodeConfig("iam-ra", "n1", "c1", Dns, <<UserFlag("node-labels", "a", TRUE), UserFlag("node-labels", "b", FALSE)>>),
     NodeConfig("iam-ra", "n2", "c1", Id, <<UserFlag("hostname-override", "x", FALSE)>>),
     NodeConfig("iam-ra", "n3", "c1", NoSettings, <<UserFlag("hostname-override", "x", TRUE)>>),
     NodeConfig("iam-ra", "n4", "c1", NoSettings, <<UserFlag("config", "/own.json", TRUE), UserFlag("kubeconfig", "/own", TRUE)>>),
     NodeConfig("ec2", "i-1", "c1", Dns, <<UserFlag("hostname-override", "x", TRUE)>>),
     NodeConfig("outpost", "i-2", "c1", NoSettings, << >>),
     NodeConfig("outpost", "i-2", "c2", NoSettings, << >>)}

\* Seven CPUs, one of them offline and one without a core; the memory around the steps
\* of the table.
MCTopology(nodes) ==
    [nodes |-> nodes, online |-> <<<<0, 3>>, <<5, 6>>>>,
     cpus |-> {[id |-> i, ids |-> IF i = 3 THEN "missing" ELSE "there"] : i \in 0..6}]
MCHosts ==
    {[topology |-> MCTopology(gib % 2 = 0), memory |-> 1024 * gib + 500] : gib \in {0, 1, 2, 3, 7, 15, 127, 128}}
MCMaxPods == [t \in {"m5.large"} |-> 29]
MCEnis == [t \in {"new.large"} |-> [count |-> 3, pods |-> 10]]
=============================================================================
