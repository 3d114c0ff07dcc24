---------------------------- MODULE SandboxLease ----------------------------
(***************************************************************************)
(* What the sandbox calls promise the kubelet about the network of a pod   *)
(* whose RunPodSandbox has answered.  The pod holds a lease on its CNI     *)
(* attachment: the lease is granted with the answer, outlives the death of *)
(* the pause process, is released only once the pod no longer runs, and    *)
(* the pod disappears only once the lease is released.  The exception is a *)
(* DEL that failed with an error go-cni takes for success: the lease is    *)
(* waived, and the pod may then go while the plugins still hold what is    *)
(* attached.  A lease that was released or waived, or a pod that is gone,  *)
(* never comes back.                                                       *)
(***************************************************************************)
CONSTANT Pods          \* the ids RunPodSandbox may answer with

VARIABLES status,      \* status[p]: how the answered pod p stands
          held,        \* the pods that hold their CNI attachment
          waived       \* the pods a DEL of which failed unnoticed

leaseVars == <<status, held, waived>>

LeaseTypeOK ==
  /\ status \in [Pods -> {"unborn", "up", "down", "gone"}]
  /\ held \subseteq Pods
  /\ waived \subseteq Pods

LeaseInit ==
  /\ status = [p \in Pods |-> "unborn"]
  /\ held = {}
  /\ waived = {}

\* RunPodSandbox answers: with an attachment, or without one for a pod on the
\* network of the node.  The pause process may have died before the answer.
Grant(p) ==
  /\ status[p] = "unborn"
  /\ \E s \in {"up", "down"} : status' = [status EXCEPT ![p] = s]
  /\ held' \in {held, held \cup {p}}
  /\ UNCHANGED waived

\* The pause process ends, killed or by itself.
Fall(p) ==
  /\ status[p] = "up"
  /\ status' = [status EXCEPT ![p] = "down"]
  /\ UNCHANGED <<held, waived>>

\* CNI DEL.  A late one of a concurrent removal may come after the pod.
Release(p) ==
  /\ status[p] \in {"down", "gone"}
  /\ p \in held
  /\ held' = held \ {p}
  /\ UNCHANGED <<status, waived>>

\* CNI DEL fails and is taken for done; it may have released the lease.
Waive(p) ==
  /\ status[p] \in {"down", "gone"}
  /\ held' \in {held, held \ {p}}
  /\ waived' = waived \cup {p}
  /\ UNCHANGED status

\* The sandbox and its metadata are destroyed.
Drop(p) ==
  /\ status[p] = "down"
  /\ p \notin held \/ p \in waived
  /\ status' = [status EXCEPT ![p] = "gone"]
  /\ UNCHANGED <<held, waived>>

LeaseNext ==
  \E p \in Pods : Grant(p) \/ Fall(p) \/ Release(p) \/ Waive(p) \/ Drop(p)

LeaseSpec == LeaseInit /\ [][LeaseNext]_leaseVars
=============================================================================
