------------------------------- MODULE Sandbox -------------------------------
(***************************************************************************)
(* The pod sandbox calls of portoshim's CRI server: RunPodSandbox,         *)
(* StopPodSandbox, RemovePodSandbox and ListPodSandbox of                  *)
(* cmd/portoshim/runtime_mapper.go, with the network code they call.       *)
(*                                                                         *)
(* Every gRPC request runs in a goroutine of its own, takes no lock, and   *)
(* talks to portod, to the CNI plugins and to the file system one call at  *)
(* a time.  A step of the model is one such call with the code up to the   *)
(* next one, so requests interleave between any two calls, portoshim may   *)
(* crash there, and each call may fail: before it took effect or after it  *)
(* (a reply lost when portod restarts).                                    *)
(*                                                                         *)
(* Pods are named by the ids RunPodSandbox draws.  An id is drawn once;    *)
(* the network namespace NewNetNS makes for it has a random name of its    *)
(* own and is named here by the pod it was made for.                       *)
(***************************************************************************)
EXTENDS Naturals

CONSTANTS
  Pods,          \* pod ids, what createID draws from
  NoPod,         \* the pod of a handler that serves no request
  Handlers,      \* goroutines that may serve a request at the same time
  NetMode,       \* "netns" or "L3": Porto.ParentContainer and CNI.NetType
  KubeletWaits,  \* the kubelet sends Stop and Remove only for a pod whose
                 \* RunPodSandbox is no longer being served
  MaxFaults,     \* bound on failing calls
  MaxCrashes     \* bound on crashes of portoshim

ASSUME NoPodAssumption == NoPod \notin Pods
ASSUME ModeAssumption == NetMode \in {"netns", "L3"} /\ KubeletWaits \in BOOLEAN
ASSUME BoundAssumption == MaxFaults \in Nat /\ MaxCrashes \in Nat

VARIABLES
  req,        \* req[h]: the request handler h serves and the call it is at
  state,      \* state[p]: the porto state of p, "absent" if porto has no p
  net,        \* net[p]: the porto property net of p
  netns,      \* the pods whose network namespace exists in CNI.NetnsDir
  cni,        \* the pods the CNI plugins hold an attachment for
  roots,      \* the pods whose directory exists in Portoshim.VolumesDir
  used,       \* the ids drawn so far
  answered,   \* the pods the kubelet got an answer to RunPodSandbox for
  known,      \* the pods the kubelet knows of
  doomed,     \* the pods whose removal the kubelet asked for, in vain so far
  ignored,    \* history: the pods a DEL of which ended in an error that go-cni
              \* takes for success
  faults,     \* failing calls so far
  crashes     \* crashes so far

portoVars == <<state, net>>
hostVars == <<netns, cni, roots, ignored>>
kubeletVars == <<used, answered, known, doomed>>
vars == <<req, state, net, netns, cni, roots, used, answered, known, doomed,
          ignored, faults, crashes>>

RunSteps == {"image", "root", "create", "command", "netns", "setup", "update",
             "abort", "reply"}
StopSteps == {"getState", "kill"}
RemoveSteps == {"getNet", "getLabels", "stopTimeout", "cniDel", "netnsRemove",
                "destroy", "removeAll"}
Steps == {"idle"} \cup RunSteps \cup StopSteps \cup RemoveSteps

NetOptions == {"inherited", "netns", "L3"}
PortoStates == {"absent", "stopped", "running", "dead"}

Requests == [at : Steps, pod : Pods \cup {NoPod},
             mode : {"NODE", "POD"}, saw : NetOptions]

Idle == [at |-> "idle", pod |-> NoPod, mode |-> "POD", saw |-> "inherited"]

TypeOK ==
  /\ req \in [Handlers -> Requests]
  /\ \A h \in Handlers : req[h].pod = NoPod <=> req[h].at = "idle"
  /\ state \in [Pods -> PortoStates]
  /\ net \in [Pods -> NetOptions]
  /\ netns \subseteq Pods
  /\ cni \subseteq Pods
  /\ roots \subseteq Pods
  /\ used \subseteq Pods
  /\ answered \subseteq Pods
  /\ known \subseteq Pods
  /\ doomed \subseteq Pods
  /\ ignored \subseteq Pods
  /\ faults \in 0 .. MaxFaults
  /\ crashes \in 0 .. MaxCrashes

Init ==
  /\ req = [h \in Handlers |-> Idle]
  /\ state = [p \in Pods |-> "absent"]
  /\ net = [p \in Pods |-> "inherited"]
  /\ netns = {}
  /\ cni = {}
  /\ roots = {}
  /\ used = {}
  /\ answered = {}
  /\ known = {}
  /\ doomed = {}
  /\ ignored = {}
  /\ faults = 0
  /\ crashes = 0

-----------------------------------------------------------------------------
(* Control of a handler *)

Goto(h, step) == req' = [req EXCEPT ![h].at = step]

Return(h) == req' = [req EXCEPT ![h] = Idle]

\* The call a handler makes works, or it fails.
Works == UNCHANGED faults
Fails == faults < MaxFaults /\ faults' = faults + 1

\* RunPodSandbox is being served for p.
Launching(p) == \E h \in Handlers : req[h].pod = p /\ req[h].at \in RunSteps

-----------------------------------------------------------------------------
(* portod *)

SetPod(p, s, n) ==
  /\ state' = [state EXCEPT ![p] = s]
  /\ net' = [net EXCEPT ![p] = n]

CreateFromSpec(p) == SetPod(p, "stopped", "inherited")

Destroy(p) == SetPod(p, "absent", "inherited")

\* UpdateFromSpec reports an error: porto may have set some of the properties,
\* and started the container.
PartialUpdate(p, option) ==
  \/ UNCHANGED portoVars
  \/ SetPod(p, "stopped", option)
  \/ SetPod(p, "running", option)

-----------------------------------------------------------------------------
(* RunPodSandbox *)

\* The kubelet asks for a pod, on its own network or on that of the node, and
\* createID draws an id.
RunPodSandbox(h) ==
  /\ req[h].at = "idle"
  /\ \E p \in Pods \ used, mode \in {"NODE", "POD"} :
       /\ req' = [req EXCEPT ![h] = [at |-> "image", pod |-> p, mode |-> mode,
                                     saw |-> "inherited"]]
       /\ used' = used \cup {p}
  /\ UNCHANGED <<portoVars, hostVars, answered, known, doomed, faults, crashes>>

\* The pause image is there or is pulled, in three attempts, and the resources
\* parse.
RunImage(h) ==
  /\ req[h].at = "image"
  /\ \/ Works /\ Goto(h, "root")
     \/ Fails /\ Return(h)
  /\ UNCHANGED <<portoVars, hostVars, kubeletVars, crashes>>

\* prepareRoot makes the directory of the pod.  No error path removes it.
RunRoot(h) ==
  /\ req[h].at = "root"
  /\ \/ Works /\ Goto(h, "create") /\ roots' = roots \cup {req[h].pod}
     \/ Fails /\ Return(h) /\ UNCHANGED roots
  /\ UNCHANGED <<portoVars, netns, cni, ignored, kubeletVars, crashes>>

\* CreateFromSpec with the labels of the pod, not started yet.
RunCreate(h) ==
  /\ req[h].at = "create"
  /\ \/ Works /\ Goto(h, "command") /\ CreateFromSpec(req[h].pod)
     \/ Fails /\ Return(h) /\ UNCHANGED portoVars
     \/ Fails /\ Return(h) /\ CreateFromSpec(req[h].pod)
  /\ UNCHANGED <<hostVars, kubeletVars, crashes>>

\* prepareEnv and prepareCommand, then preparePodNetwork returns at once for a
\* pod on the network of the node.
RunCommand(h) ==
  /\ req[h].at = "command"
  /\ \/ Works /\ Goto(h, IF req[h].mode = "NODE" THEN "update" ELSE "netns")
     \/ Fails /\ Goto(h, "abort")
  /\ UNCHANGED <<portoVars, hostVars, kubeletVars, crashes>>

\* preparePodNetwork loads the CNI configuration and makes the network
\* namespace; in L3 mode it only draws a path.
RunNewNetNS(h) ==
  /\ req[h].at = "netns"
  /\ \/ /\ Works
        /\ Goto(h, "setup")
        /\ netns' = IF NetMode = "netns" THEN netns \cup {req[h].pod} ELSE netns
     \/ Fails /\ Goto(h, "abort") /\ UNCHANGED netns
  /\ UNCHANGED <<portoVars, cni, roots, ignored, kubeletVars, crashes>>

\* CNI ADD.  One that fails may have attached the pod to some networks.
RunSetup(h) ==
  /\ req[h].at = "setup"
  /\ \/ Works /\ Goto(h, "update") /\ cni' = cni \cup {req[h].pod}
     \/ Fails /\ Goto(h, "abort") /\ cni' \in {cni, cni \cup {req[h].pod}}
  /\ UNCHANGED <<portoVars, netns, roots, ignored, kubeletVars, crashes>>

\* The net property preparePodNetwork puts into the spec.
NetOption(mode) == IF mode = "NODE" THEN "inherited" ELSE NetMode

\* UpdateFromSpec sets network, command and environment and starts the pod.
RunUpdate(h) ==
  LET p == req[h].pod IN
  /\ req[h].at = "update"
  /\ \/ /\ Works
        /\ IF state[p] = "absent"
             THEN Goto(h, "abort") /\ UNCHANGED portoVars
             ELSE Goto(h, "reply") /\ SetPod(p, "running", NetOption(req[h].mode))
     \/ /\ Fails
        /\ Goto(h, "abort")
        /\ state[p] # "absent"
        /\ PartialUpdate(p, NetOption(req[h].mode))
  /\ UNCHANGED <<hostVars, kubeletVars, crashes>>

\* Mutant: the error paths also delete the directory, whether or not Destroy
\* worked.
RunAbortRemovesRoot(h) ==
  /\ req[h].at = "abort"
  /\ Return(h)
  /\ \/ Works /\ Destroy(req[h].pod)
     \/ Fails /\ UNCHANGED portoVars
  /\ roots' = roots \ {req[h].pod}
  /\ UNCHANGED <<netns, cni, ignored, kubeletVars, crashes>>

\* The error paths after CreateFromSpec destroy the pod, ignoring the outcome,
\* and report the first error.
RunAbort(h) ==
  /\ req[h].at = "abort"
  /\ Return(h)
  /\ \/ Works /\ Destroy(req[h].pod)
     \/ Fails /\ UNCHANGED portoVars
  /\ UNCHANGED <<hostVars, kubeletVars, crashes>>

\* The answer reaches the kubelet, or is lost: its deadline has passed, or the
\* connection is gone.
RunReply(h) ==
  /\ req[h].at = "reply"
  /\ Return(h)
  /\ \/ /\ Works
        /\ answered' = answered \cup {req[h].pod}
        /\ known' = known \cup {req[h].pod}
     \/ Fails /\ UNCHANGED <<answered, known>>
  /\ UNCHANGED <<portoVars, hostVars, used, doomed, crashes>>

-----------------------------------------------------------------------------
(* ListPodSandbox *)

\* The kubelet lists the sandboxes.  A pod carries the labels the list looks
\* for from CreateFromSpec on; one whose properties cannot be read is skipped.
ListPodSandbox ==
  /\ \E p \in Pods \ known :
       /\ state[p] # "absent"
       /\ known' = known \cup {p}
  /\ UNCHANGED <<req, portoVars, hostVars, used, answered, doomed, faults, crashes>>

\* The kubelet may act on p.
MayActOn(p) == p \in known /\ (KubeletWaits => ~Launching(p))

Begin(h, p, step) ==
  req' = [req EXCEPT ![h] = [at |-> step, pod |-> p, mode |-> "POD",
                             saw |-> "inherited"]]

-----------------------------------------------------------------------------
(* StopPodSandbox *)

StopPodSandbox(h) ==
  /\ req[h].at = "idle"
  /\ \E p \in Pods : MayActOn(p) /\ Begin(h, p, "getState")
  /\ UNCHANGED <<portoVars, hostVars, kubeletVars, faults, crashes>>

\* An error here is only logged: the call then succeeds without a signal.
StopGetState(h) ==
  /\ req[h].at = "getState"
  /\ \/ /\ Works
        /\ IF state[req[h].pod] = "running" THEN Goto(h, "kill") ELSE Return(h)
     \/ Fails /\ Return(h)
  /\ UNCHANGED <<portoVars, hostVars, kubeletVars, crashes>>

\* SIGTERM to the pause process, which ends at once, later (PodExits) or never.
\* porto refuses to signal a pod that no longer runs.
StopKill(h) ==
  /\ req[h].at = "kill"
  /\ Return(h)
  /\ \/ Works /\ UNCHANGED state
     \/ /\ Works
        /\ state[req[h].pod] = "running"
        /\ state' = [state EXCEPT ![req[h].pod] = "dead"]
     \/ Fails /\ UNCHANGED state
  /\ UNCHANGED <<net, hostVars, kubeletVars, crashes>>

-----------------------------------------------------------------------------
(* RemovePodSandbox *)

\* The kubelet asks for the removal of p, or asks again.
RemoveRequest(h, p) ==
  /\ req[h].at = "idle"
  /\ MayActOn(p)
  /\ Begin(h, p, "getNet")
  /\ doomed' = doomed \cup {p}
  /\ UNCHANGED <<portoVars, hostVars, used, answered, known, faults, crashes>>

RemovePodSandbox(h) == \E p \in Pods : RemoveRequest(h, p)

\* The call reports success.
RemoveSucceeds(h) ==
  /\ Return(h)
  /\ doomed' = doomed \ {req[h].pod}

\* parsePropertiesNetNS(net, "netns") finds a name in the property.
NamesNetNS(option) == option = "netns"

\* Mutant: every error of GetProperty is reported, ContainerDoesNotExist too.
RemoveGetNetStrict(h) ==
  LET p == req[h].pod IN
  /\ req[h].at = "getNet"
  /\ \/ /\ Works
        /\ state[p] # "absent"
        /\ req' = [req EXCEPT
              ![h].saw = net[p],
              ![h].at = IF NamesNetNS(net[p]) THEN "getLabels" ELSE "stopTimeout"]
     \/ Works /\ state[p] = "absent" /\ Return(h)
     \/ Fails /\ Return(h)
  /\ UNCHANGED <<portoVars, hostVars, kubeletVars, crashes>>

\* GetProperty net.  A pod that is absent counts as removed.
RemoveGetNet(h) ==
  LET p == req[h].pod IN
  /\ req[h].at = "getNet"
  /\ \/ /\ Works
        /\ IF state[p] = "absent"
             THEN RemoveSucceeds(h)
             ELSE /\ req' = [req EXCEPT
                       ![h].saw = net[p],
                       ![h].at = IF NamesNetNS(net[p]) THEN "getLabels"
                                                       ELSE "stopTimeout"]
                  /\ UNCHANGED doomed
     \/ Fails /\ Return(h) /\ UNCHANGED doomed
  /\ UNCHANGED <<portoVars, hostVars, used, answered, known, crashes>>

\* Mutant: the network is torn down before the pod is stopped.
RemoveGetLabelsThenDel(h) ==
  /\ req[h].at = "getLabels"
  /\ \/ /\ Works
        /\ IF state[req[h].pod] = "absent" THEN Return(h) ELSE Goto(h, "cniDel")
     \/ Fails /\ Return(h)
  /\ UNCHANGED <<portoVars, hostVars, kubeletVars, crashes>>

\* prepareSandboxConfig reads the labels DEL needs.
RemoveGetLabels(h) ==
  /\ req[h].at = "getLabels"
  /\ \/ /\ Works
        /\ IF state[req[h].pod] = "absent" THEN Return(h) ELSE Goto(h, "stopTimeout")
     \/ Fails /\ Return(h)
  /\ UNCHANGED <<portoVars, hostVars, kubeletVars, crashes>>

\* Mutant: the network is left to the plugins' garbage collection.
AfterStopSkipsDel(saw) == "destroy"

\* What follows StopTimeout.
AfterStop(saw) == IF NamesNetNS(saw) THEN "cniDel" ELSE "destroy"

\* StopTimeout(0) kills whatever runs in the pod.
RemoveStopTimeout(h) ==
  LET p == req[h].pod
      Stop == state' = [state EXCEPT ![p] = "stopped"]
  IN
  /\ req[h].at = "stopTimeout"
  /\ \/ /\ Works
        /\ IF state[p] = "absent"
             THEN Return(h) /\ UNCHANGED state
             ELSE Goto(h, AfterStop(req[h].saw)) /\ Stop
     \/ Fails /\ Return(h) /\ UNCHANGED state
     \/ Fails /\ Return(h) /\ state[p] # "absent" /\ Stop
  /\ UNCHANGED <<net, hostVars, kubeletVars, crashes>>

\* Mutant: every error of CNI DEL is logged and the removal goes on.
RemoveCniDelGoesOn(h) ==
  LET p == req[h].pod IN
  /\ req[h].at = "cniDel"
  /\ Goto(h, "netnsRemove")
  /\ \/ Works /\ cni' = cni \ {p}
     \/ Fails /\ cni' \in {cni, cni \ {p}}
  /\ UNCHANGED <<portoVars, netns, roots, ignored, kubeletVars, crashes>>

\* removeNetNS loads the configuration, looks whether the namespace is still
\* there, and issues CNI DEL, with an empty path if it is not.  DEL is
\* idempotent; one that fails may have detached the pod.  go-cni takes the error
\* of a plugin for success when its text has "not found", or "no such file" and
\* the path is empty: the removal then goes on, whatever DEL has done.
RemoveCniDel(h) ==
  LET p == req[h].pod
      Attempted == cni' \in {cni, cni \ {p}}
  IN
  /\ req[h].at = "cniDel"
  /\ \/ Works /\ Goto(h, "netnsRemove") /\ cni' = cni \ {p} /\ UNCHANGED ignored
     \/ Fails /\ Return(h) /\ Attempted /\ UNCHANGED ignored
     \/ /\ Fails
        /\ Goto(h, "netnsRemove")
        /\ Attempted
        /\ ignored' = ignored \cup {p}
  /\ UNCHANGED <<portoVars, netns, roots, kubeletVars, crashes>>

\* The namespace is unmounted and its file removed; a missing one is no error.
RemoveNetNS(h) ==
  LET p == req[h].pod IN
  /\ req[h].at = "netnsRemove"
  /\ \/ Works /\ Goto(h, "destroy") /\ netns' = netns \ {p}
     \/ Fails /\ Return(h) /\ netns' \in {netns, netns \ {p}}
  /\ UNCHANGED <<portoVars, cni, roots, ignored, kubeletVars, crashes>>

RemoveDestroy(h) ==
  LET p == req[h].pod IN
  /\ req[h].at = "destroy"
  /\ \/ Works /\ state[p] = "absent" /\ Return(h) /\ UNCHANGED portoVars
     \/ Works /\ state[p] # "absent" /\ Goto(h, "removeAll") /\ Destroy(p)
     \/ Fails /\ Return(h) /\ UNCHANGED portoVars
     \/ Fails /\ Return(h) /\ Destroy(p)
  /\ UNCHANGED <<hostVars, kubeletVars, crashes>>

\* os.RemoveAll of the directory.  If it fails, the next RemovePodSandbox finds
\* the pod absent and reports success.
RemoveRoot(h) ==
  /\ req[h].at = "removeAll"
  /\ \/ Works /\ RemoveSucceeds(h) /\ roots' = roots \ {req[h].pod}
     \/ Fails /\ Return(h) /\ UNCHANGED <<doomed, roots>>
  /\ UNCHANGED <<portoVars, netns, cni, ignored, used, answered, known, crashes>>

-----------------------------------------------------------------------------
(* The environment *)

\* The pause process ends: after SIGTERM, or killed by the node.
PodExits(p) ==
  /\ state[p] = "running"
  /\ state' = [state EXCEPT ![p] = "dead"]
  /\ UNCHANGED <<req, net, hostVars, kubeletVars, faults, crashes>>

\* portoshim dies and is started again: no request survives and nothing is
\* recovered.  portod, the node and the kubelet keep what they had.
Crash ==
  /\ crashes < MaxCrashes
  /\ crashes' = crashes + 1
  /\ req' = [h \in Handlers |-> Idle]
  /\ UNCHANGED <<portoVars, hostVars, kubeletVars, faults>>

-----------------------------------------------------------------------------
RunStep(h) ==
  \/ RunImage(h) \/ RunRoot(h) \/ RunCreate(h) \/ RunCommand(h)
  \/ RunNewNetNS(h) \/ RunSetup(h) \/ RunUpdate(h) \/ RunAbort(h) \/ RunReply(h)

StopStep(h) == StopGetState(h) \/ StopKill(h)

RemoveStep(h) ==
  \/ RemoveGetNet(h) \/ RemoveGetLabels(h) \/ RemoveStopTimeout(h)
  \/ RemoveCniDel(h) \/ RemoveNetNS(h) \/ RemoveDestroy(h) \/ RemoveRoot(h)

HandlerStep(h) == RunStep(h) \/ StopStep(h) \/ RemoveStep(h)

Next ==
  \/ \E h \in Handlers : RunPodSandbox(h) \/ StopPodSandbox(h) \/ RemovePodSandbox(h)
  \/ \E h \in Handlers : HandlerStep(h)
  \/ ListPodSandbox
  \/ \E p \in Pods : PodExits(p)
  \/ Crash

Spec == Init /\ [][Next]_vars

\* A goroutine that can make its next call makes it.  The kubelet asks again for
\* the removal of a pod as long as it is refused.
Fairness ==
  /\ \A h \in Handlers : WF_vars(Works /\ HandlerStep(h))
  /\ \A p \in Pods : SF_vars(p \in doomed /\ \E h \in Handlers : RemoveRequest(h, p))

LiveSpec == Spec /\ Fairness

-----------------------------------------------------------------------------
(* Properties *)

\* Once RunPodSandbox has answered, the CNI attachment of the pod is never
\* orphaned: as long as the plugins hold it, porto keeps the pod and the net
\* property that leads RemovePodSandbox to it, through crashes, retries and
\* duplicates of the calls and any failure portoshim gets to see (the comment at
\* runtime_mapper.go:1435).  The one failure it does not see is a DEL whose error
\* go-cni takes for success, which the test "ignored_not_found" accepts
\* (network_cleanup_test.go:179).
AnsweredKeepsNetwork ==
  \A p \in answered :
    p \in cni => p \in ignored \/ (state[p] # "absent" /\ net[p] = NetMode)

\* CNI DEL and the unmount of the namespace never hit a sandbox that runs:
\* a running pod whose net property names a namespace has both.
RunningHasNetwork ==
  \A p \in Pods :
    state[p] = "running" /\ net[p] = "netns" => p \in netns /\ p \in cni

\* porto never has a pod whose root directory is gone: RunPodSandbox makes it
\* before CreateFromSpec and RemovePodSandbox deletes it after Destroy, and no
\* late RemoveAll of a duplicate call hits a pod that is still there.
PodHasRoot == \A p \in Pods : state[p] # "absent" => p \in roots

\* RemovePodSandbox destroys a sandbox only when no CNI attachment is left of
\* it, or go-cni reported a failed DEL as success: "keep the sandbox and its
\* metadata until CNI DEL succeeds" (runtime_mapper.go:1435).
DestroyAfterDel ==
  [][\A h \in Handlers :
       LET p == req[h].pod IN
       req[h].at = "destroy" /\ req'[h] # req[h]
         /\ state[p] # "absent" /\ state'[p] = "absent"
         => p \notin cni \/ p \in ignored]_vars

\* A removal the kubelet keeps asking for ends with success, whatever calls
\* failed on the way and wherever portoshim crashed.
RemovalSucceeds == \A p \in Pods : p \in doomed ~> p \notin doomed

\* The sandbox as the kubelet sees it, after the answer.
LeaseStatus(p) ==
  IF p \notin answered THEN "unborn"
  ELSE IF state[p] = "running" THEN "up"
  ELSE IF state[p] = "absent" THEN "gone"
  ELSE "down"

Lease == INSTANCE SandboxLease WITH
  status <- [p \in Pods |-> LeaseStatus(p)],
  held <- cni \cap answered,
  waived <- ignored \cap answered

\* The calls implement the lease: an answered pod keeps its attachment until it
\* no longer runs, and is dropped only without it or after a DEL that go-cni
\* reported as done.
LeaseProperty == Lease!LeaseSpec
=============================================================================
