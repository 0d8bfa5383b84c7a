--------------------------- MODULE NodeLifecycle ---------------------------
(***************************************************************************)
(* What nodeadm install, upgrade and uninstall together promise about a    *)
(* host, whatever fails between their steps: a record exists only of a     *)
(* complete installation, it is given up only when nothing it lists is     *)
(* left, and what the host owned before stays, except what is contested.   *)
(* NodeComponents implements this specification.                           *)
(***************************************************************************)
CONSTANTS
    Components,  \* everything the commands may add or remove
    Required,    \* what every installation consists of ...
    Either,      \* ... together with at least one of these
    Contested    \* what a command may take over from the host's owner

VARIABLES
    owned,    \* what the host had before and nodeadm must leave alone
    present,  \* what is on the host
    record    \* the record: "missing", "damaged", or "saved" with what it lists

vars == <<owned, present, record>>

Complete(s) == Required \subseteq s /\ s \cap Either # {}

Record(state, lists) == [state |-> state, lists |-> lists]

Init ==
    /\ present \in SUBSET Components
    /\ owned \in SUBSET present
    /\ record = Record("missing", {})

\* A step of any command, complete or not, that adds or removes components and may
\* take over all that is contested.
Work ==
    /\ present' \in SUBSET Components
    /\ owned' \in {owned, owned \ Contested}
    /\ owned' \subseteq present'
    /\ UNCHANGED record

\* The old record is given up for a new one, which is not there yet.
Overwrite ==
    /\ record' = Record("damaged", {})
    /\ UNCHANGED <<owned, present>>

\* A new record: what it lists makes, as far as it is on the host, an installation.
Register ==
    /\ record.state = "damaged"
    /\ \E s \in SUBSET Components : Complete(s \cap present) /\ record' = Record("saved", s)
    /\ UNCHANGED <<owned, present>>

\* The record is given up for good.
Forget ==
    /\ record.state = "saved" /\ record.lists \cap present = {}
    /\ record' = Record("missing", {})
    /\ UNCHANGED <<owned, present>>

Next == Work \/ Overwrite \/ Register \/ Forget

Spec == Init /\ [][Next]_vars
=============================================================================
