----------------------------- MODULE MCRetrier -----------------------------
(***************************************************************************)
(* Instances of Retrier: the three Retrier values of the repository, with  *)
(* operations that return anything, done together with an error included.  *)
(***************************************************************************)
EXTENDS Retrier

\* kubernetes.WaitFor, kubernetes.defaultRetrier and retry.NetworkRequest.
WaitForRetrier == [steps |-> 0, handler |-> "maxConsecutive", maxAttempts |-> 3, timeout |-> TRUE]
DefaultRetrier == [steps |-> 4, handler |-> "none", maxAttempts |-> 0, timeout |-> TRUE]
NetworkRetrier == [steps |-> 0, handler |-> "none", maxAttempts |-> 0, timeout |-> TRUE]
AllRetriers == {WaitForRetrier, DefaultRetrier, NetworkRetrier}

OpOutcomes == [done : BOOLEAN, err : BOOLEAN]
=============================================================================
