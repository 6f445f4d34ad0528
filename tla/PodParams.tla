------------------------------ MODULE PodParams ------------------------------
(***************************************************************************)
(* What the agent promises about the parameters of the pods on its node:   *)
(* at any time it may take in a new version of a pod or a new set of       *)
(* policies, and it gives a running pod, in one step, the parameters that  *)
(* the policies and the pod as they are then call for.  Nothing else ever  *)
(* changes a pod's parameters, except that a pod that has ended or gone    *)
(* loses them.                                                             *)
(***************************************************************************)
EXTENDS PolicyMerge

CONSTANTS Uids, PodNames

VARIABLES
  policies,            \* the policies the agent knows
  pods,                \* the pod object last seen under each name, or None
  params               \* the parameters of each pod, or None

vars == <<policies, pods, params>>

Init ==
  /\ policies = [n \in Policies |-> None]
  /\ pods = [p \in PodNames |-> None]
  /\ params = [u \in Uids |-> None]

Learn ==
  /\ policies' \in [Policies -> Specs \cup {None}]
  /\ UNCHANGED <<pods, params>>

See(p) ==
  /\ \E o \in Objs \cup {None} : pods' = [pods EXCEPT ![p] = o]
  /\ UNCHANGED <<policies, params>>

Apply(p) ==
  /\ pods[p] # None /\ pods[p].phase = "Running"
  /\ params' = [params EXCEPT ![pods[p].uid] =
                  Granted(Matching(policies, pods[p]), pods[p])]
  /\ UNCHANGED <<policies, pods>>

\* The pod last seen under p is found to have ended, or has been deleted.
Drop(p) ==
  /\ pods[p] # None
  /\ \E o \in Objs \cup {None} :
       /\ pods' = [pods EXCEPT ![p] = o]
       /\ \/ o = None /\ params' = [params EXCEPT ![pods[p].uid] = None]
          \/ /\ o # None /\ o.phase \in {"Succeeded", "Failed"}
             /\ params' = [params EXCEPT ![o.uid] = None]
  /\ UNCHANGED policies

Next == Learn \/ \E p \in PodNames : See(p) \/ Apply(p) \/ Drop(p)

Spec == Init /\ [][Next]_vars
=============================================================================
