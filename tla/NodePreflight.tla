--------------------------- MODULE NodePreflight ---------------------------
(***************************************************************************)
(* internal/node: the checks `nodeadm uninstall` and `nodeadm upgrade` run *)
(* before they touch a node whose kubelet is running - no workload on it   *)
(* (IsDrained), then no new workload to come (IsUnscheduled) - against a   *)
(* cluster that keeps scheduling, evicting and cordoning between the two   *)
(* requests.                                                               *)
(***************************************************************************)
EXTENDS Naturals, FiniteSets

CONSTANTS
    Pods,        \* pod objects
    Kind         \* what controls each pod: "daemonSet", "static" or "other"

ASSUME NodePreflightAssumption == Kind \in [Pods -> {"daemonSet", "static", "other"}]

VARIABLES
    node,      \* the Node object: "schedulable", "unschedulable" or "gone"
    onNode,    \* the pods bound to the node, as the API server lists them
    kubelet,   \* GetDaemonStatus of the kubelet
    skip,      \* the --skip checks of the running command
    step,      \* its next step
    cordoned   \* history: the node has not been schedulable since the pods were listed

preflightVars == <<node, onNode, kubelet, skip, step, cordoned>>

Phases == {"pod-validation", "node-validation"}

PreflightTypeOK ==
    /\ node \in {"schedulable", "unschedulable", "gone"}
    /\ onNode \in SUBSET Pods
    /\ kubelet \in {"running", "stopped", "unknown"}
    /\ skip \in SUBSET Phases
    /\ step \in {"idle", "isDrained", "isUnscheduled", "flow",
               "notDrained", "schedulable", "error"}
    /\ cordoned \in BOOLEAN

PreflightInit ==
    /\ node \in {"schedulable", "unschedulable", "gone"}
    /\ onNode \in SUBSET Pods
    /\ kubelet \in {"running", "stopped", "unknown"}
    /\ skip = {} /\ step = "idle" /\ cordoned = FALSE

-----------------------------------------------------------------------------
(* The cluster, while nodeadm runs and between its commands.               *)

\* The scheduler binds a pod; daemon-set pods and mirror pods of static pods
\* come whether or not the node is cordoned.
Bind(p) ==
    /\ p \notin onNode
    /\ node # "gone"
    /\ Kind[p] = "other" => node = "schedulable"
    /\ onNode' = onNode \cup {p}
    /\ UNCHANGED <<node, kubelet, skip, step, cordoned>>

Evict(p) ==
    /\ p \in onNode
    /\ onNode' = onNode \ {p}
    /\ UNCHANGED <<node, kubelet, skip, step, cordoned>>

\* kubectl cordon, uncordon, delete node; a running kubelet registers again.
SetNode(n) ==
    /\ node # n
    /\ node' = n
    /\ cordoned' = (cordoned /\ n # "schedulable")
    /\ UNCHANGED <<onNode, kubelet, skip, step>>

\* Between two commands the kubelet is started, crashes, or is restarted.
SetKubelet(k) ==
    /\ step = "idle" /\ kubelet # k
    /\ kubelet' = k
    /\ UNCHANGED <<node, onNode, skip, step, cordoned>>

-----------------------------------------------------------------------------
(* The command.                                                            *)

\* Only an active kubelet unit is checked.
Start(s) ==
    /\ step = "idle"
    /\ skip' = s
    /\ step' = IF kubelet = "running" THEN "isDrained" ELSE "flow"
    /\ UNCHANGED <<node, onNode, kubelet, cordoned>>

DaemonSetFilter(pods) == {p \in pods : Kind[p] # "daemonSet"}

\* getStaticPodsOnNode unmarshals each manifest into an ObjectMeta, whose name is a
\* field of "metadata" in the manifest and not of its top level, so every name it
\* returns is empty, and no pod has the empty name.
StaticPodNames == {}
StaticPodsFilter(pods) == IF StaticPodNames = {} THEN pods ELSE pods \ StaticPodNames

IsDrained == StaticPodsFilter(DaemonSetFilter(onNode)) = {}

CheckDrainedNever ==  \* mutant: the pods are not looked at
    /\ step = "isDrained"
    /\ cordoned' = (node # "schedulable")
    /\ step' = "isUnscheduled"
    /\ UNCHANGED <<node, onNode, kubelet, skip>>

\* GetPodsOnNode and the filters. ListRetry may use up its attempts.
CheckDrained ==
    /\ step = "isDrained"
    /\ cordoned' = (node # "schedulable")
    /\ \/ "pod-validation" \in skip /\ step' = "isUnscheduled"
       \/ "pod-validation" \notin skip /\ step' = IF IsDrained THEN "isUnscheduled" ELSE "notDrained"
       \/ "pod-validation" \notin skip /\ step' = "error"
    /\ UNCHANGED <<node, onNode, kubelet, skip>>

\* IsUnscheduled: a node that is not there is as good as cordoned. GetRetry may
\* use up its attempts.
CheckUnscheduled ==
    /\ step = "isUnscheduled"
    /\ \/ "node-validation" \in skip /\ step' = "flow"
       \/ "node-validation" \notin skip /\ step' = IF node = "schedulable" THEN "schedulable" ELSE "flow"
       \/ "node-validation" \notin skip /\ step' = "error"
    /\ UNCHANGED <<node, onNode, kubelet, skip, cordoned>>

\* The flow stops the kubelet and goes on, or the command was refused.
Finish ==
    /\ step \in {"flow", "notDrained", "schedulable", "error"}
    /\ kubelet' = IF step = "flow" THEN "stopped" ELSE kubelet
    /\ step' = "idle" /\ skip' = {}
    /\ UNCHANGED <<node, onNode, cordoned>>

Command == (\E s \in SUBSET Phases : Start(s)) \/ CheckDrained \/ CheckUnscheduled \/ Finish

Cluster ==
    \/ \E p \in Pods : Bind(p) \/ Evict(p)
    \/ \E n \in {"schedulable", "unschedulable", "gone"} : SetNode(n)
    \/ \E k \in {"running", "stopped", "unknown"} : SetKubelet(k)

PreflightNext == Command \/ Cluster

PreflightSpec == PreflightInit /\ [][PreflightNext]_preflightVars

-----------------------------------------------------------------------------
(* Properties                                                              *)

Workload == {p \in onNode : Kind[p] = "other"}

\* The command checked the pods: they were listed, and the flow is not skipped.
PodsChecked ==
    step \in {"isUnscheduled", "flow"} /\ kubelet = "running" /\ "pod-validation" \notin skip

\* On a node that stays cordoned from the moment its pods are listed, the flow
\* starts with no workload on it, whatever else happens in the cluster between
\* the two requests: draining before running nodeadm is enough.
CordonedStaysDrained == (PodsChecked /\ cordoned) => Workload = {}

\* "only static pods and pods controlled by daemon-sets can be running on the
\* node": a node on which only such pods run is not refused.
StaticPodsAllowed == [][step' = "notDrained" => Workload # {}]_preflightVars
=============================================================================
