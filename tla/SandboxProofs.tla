---------------------------- MODULE SandboxProofs ----------------------------
(***************************************************************************)
(* Proofs about Sandbox, for any pods, any number of concurrent requests   *)
(* and any number of failing calls and crashes.                            *)
(***************************************************************************)
EXTENDS Sandbox, TLAPS

-----------------------------------------------------------------------------
(* Type correctness *)

\* The variables of the sandbox calls keep their types, and a handler is tied
\* to a pod exactly while it serves a request.
THEOREM TypeCorrect == Spec => []TypeOK
<1>1. Init => TypeOK
  BY NoPodAssumption, BoundAssumption
     DEF Init, TypeOK, Idle, Requests, Steps, NetOptions, PortoStates
<1>2. TypeOK /\ [Next]_vars => TypeOK'
  <2> SUFFICES ASSUME TypeOK, [Next]_vars PROVE TypeOK'
    OBVIOUS
  <2> USE NoPodAssumption, BoundAssumption, ModeAssumption
          DEF TypeOK, Requests, Steps, RunSteps, StopSteps, RemoveSteps,
              NetOptions, PortoStates, Idle, Goto, Return, Works, Fails,
              portoVars, hostVars, kubeletVars
  <2>1. ASSUME NEW h \in Handlers, RunPodSandbox(h) PROVE TypeOK'
    BY <2>1 DEF RunPodSandbox
  <2>2. ASSUME NEW h \in Handlers, RunImage(h) PROVE TypeOK'
    <3>1. /\ req' \in [Handlers -> Requests]
          /\ \A g \in Handlers : req'[g].pod = NoPod <=> req'[g].at = "idle"
      BY <2>2 DEF RunImage
    <3>2. state' \in [Pods -> PortoStates] /\ net' \in [Pods -> NetOptions]
      BY <2>2 DEF RunImage
    <3>3. /\ UNCHANGED <<hostVars, kubeletVars, crashes>>
          /\ faults' \in 0 .. MaxFaults
      BY <2>2 DEF RunImage
    <3>4. QED
      BY <3>1, <3>2, <3>3
  <2>3. ASSUME NEW h \in Handlers, RunRoot(h) PROVE TypeOK'
    BY <2>3, SMTT(30) DEF RunRoot
  <2>4. ASSUME NEW h \in Handlers, RunCreate(h) PROVE TypeOK'
    BY <2>4 DEF RunCreate, CreateFromSpec, SetPod
  <2>5. ASSUME NEW h \in Handlers, RunCommand(h) PROVE TypeOK'
    BY <2>5 DEF RunCommand
  <2>6. ASSUME NEW h \in Handlers, RunNewNetNS(h) PROVE TypeOK'
    BY <2>6 DEF RunNewNetNS
  <2>7. ASSUME NEW h \in Handlers, RunSetup(h) PROVE TypeOK'
    BY <2>7 DEF RunSetup
  <2>8. ASSUME NEW h \in Handlers, RunUpdate(h) PROVE TypeOK'
    BY <2>8 DEF RunUpdate, PartialUpdate, SetPod, NetOption
  <2>9. ASSUME NEW h \in Handlers, RunAbort(h) PROVE TypeOK'
    BY <2>9 DEF RunAbort, Destroy, SetPod
  <2>10. ASSUME NEW h \in Handlers, RunReply(h) PROVE TypeOK'
    BY <2>10 DEF RunReply
  <2>11. ASSUME NEW h \in Handlers, StopPodSandbox(h) PROVE TypeOK'
    BY <2>11 DEF StopPodSandbox, MayActOn, Begin, Launching
  <2>12. ASSUME NEW h \in Handlers, StopGetState(h) PROVE TypeOK'
    BY <2>12 DEF StopGetState
  <2>13. ASSUME NEW h \in Handlers, StopKill(h) PROVE TypeOK'
    BY <2>13 DEF StopKill
  <2>14. ASSUME NEW h \in Handlers, RemovePodSandbox(h) PROVE TypeOK'
    BY <2>14 DEF RemovePodSandbox, RemoveRequest, MayActOn, Begin, Launching
  <2>15. ASSUME NEW h \in Handlers, RemoveGetNet(h) PROVE TypeOK'
    BY <2>15 DEF RemoveGetNet, RemoveSucceeds, NamesNetNS
  <2>16. ASSUME NEW h \in Handlers, RemoveGetLabels(h) PROVE TypeOK'
    BY <2>16 DEF RemoveGetLabels
  <2>17. ASSUME NEW h \in Handlers, RemoveStopTimeout(h) PROVE TypeOK'
    <3>1. /\ req' \in [Handlers -> Requests]
          /\ \A g \in Handlers : req'[g].pod = NoPod <=> req'[g].at = "idle"
      BY <2>17 DEF RemoveStopTimeout, AfterStop, NamesNetNS
    <3>2. state' \in [Pods -> PortoStates] /\ net' \in [Pods -> NetOptions]
      BY <2>17 DEF RemoveStopTimeout, AfterStop, NamesNetNS
    <3>3. /\ UNCHANGED <<hostVars, kubeletVars, crashes>>
          /\ faults' \in 0 .. MaxFaults
      BY <2>17 DEF RemoveStopTimeout, AfterStop, NamesNetNS
    <3>4. QED
      BY <3>1, <3>2, <3>3
  <2>18. ASSUME NEW h \in Handlers, RemoveCniDel(h) PROVE TypeOK'
    BY <2>18, SMTT(30) DEF RemoveCniDel
  <2>19. ASSUME NEW h \in Handlers, RemoveNetNS(h) PROVE TypeOK'
    BY <2>19, SMTT(30) DEF RemoveNetNS
  <2>20. ASSUME NEW h \in Handlers, RemoveDestroy(h) PROVE TypeOK'
    <3>1. /\ req' \in [Handlers -> Requests]
          /\ \A g \in Handlers : req'[g].pod = NoPod <=> req'[g].at = "idle"
      BY <2>20 DEF RemoveDestroy, Destroy, SetPod
    <3>2. state' \in [Pods -> PortoStates] /\ net' \in [Pods -> NetOptions]
      BY <2>20 DEF RemoveDestroy, Destroy, SetPod
    <3>3. /\ UNCHANGED <<hostVars, kubeletVars, crashes>>
          /\ faults' \in 0 .. MaxFaults
      BY <2>20 DEF RemoveDestroy, Destroy, SetPod
    <3>4. QED
      BY <3>1, <3>2, <3>3
  <2>21. ASSUME NEW h \in Handlers, RemoveRoot(h) PROVE TypeOK'
    BY <2>21, SMTT(30) DEF RemoveRoot, RemoveSucceeds
  <2>22. CASE ListPodSandbox
    BY <2>22 DEF ListPodSandbox
  <2>23. ASSUME NEW p \in Pods, PodExits(p) PROVE TypeOK'
    BY <2>23 DEF PodExits
  <2>24. CASE Crash
    BY <2>24 DEF Crash
  <2>25. CASE UNCHANGED vars
    BY <2>25 DEF vars
  <2>26. QED
    BY <2>1, <2>2, <2>3, <2>4, <2>5, <2>6, <2>7, <2>8, <2>9, <2>10, <2>11, <2>12, <2>13, <2>14, <2>15, <2>16, <2>17, <2>18, <2>19, <2>20, <2>21, <2>22, <2>23, <2>24, <2>25
       DEF Next, HandlerStep, RunStep, StopStep, RemoveStep
<1>3. QED
  BY <1>1, <1>2, PTL DEF Spec
-----------------------------------------------------------------------------
(* The inductive invariant *)

\* A request is served for an id that was drawn; nothing exists of an id that
\* was not.
Drawn ==
  /\ \A h \in Handlers : req[h].at # "idle" => req[h].pod \in used
  /\ answered \subseteq used
  /\ known \subseteq used
  /\ \A p \in Pods \ used : state[p] = "absent" /\ p \notin cni

\* While RunPodSandbox is served for a pod, no other request is, and the kubelet
\* has no answer yet.
Alone ==
  \A h \in Handlers : req[h].at \in RunSteps =>
    /\ \A g \in Handlers \ {h} : req[g].pod # req[h].pod
    /\ req[h].pod \notin answered

\* What RunPodSandbox has achieved when it reaches a call.
RunProgress ==
  \A h \in Handlers :
    LET r == req[h] IN
    /\ r.at \in {"image", "root", "create", "command", "netns"} => r.pod \notin cni
    /\ r.at \in {"image", "root", "create"} => state[r.pod] = "absent"
    /\ r.at \in RunSteps \ {"image", "root"} => r.pod \in roots
    /\ r.at \in RunSteps /\ r.mode = "NODE" => r.pod \notin cni
    /\ r.at \in {"netns", "setup"} => r.mode = "POD"
    /\ r.at = "setup" /\ NetMode = "netns" => r.pod \in netns
    /\ r.at = "update" /\ r.mode = "POD" =>
         r.pod \in cni /\ (NetMode = "netns" => r.pod \in netns)
    /\ r.at = "reply" =>
         state[r.pod] # "absent" /\ net[r.pod] = NetOption(r.mode)

\* What RemovePodSandbox may rely on when it reaches a call: the pod is at rest
\* from StopTimeout on, the attachment of an answered pod is gone when Destroy
\* comes, or go-cni said so, and the directory goes after the pod.
RemoveProgress ==
  \A h \in Handlers :
    LET r == req[h] IN
    /\ r.at = "getLabels" => NamesNetNS(r.saw)
    /\ r.at \in {"cniDel", "netnsRemove", "destroy"} => state[r.pod] # "running"
    /\ r.at = "removeAll" => state[r.pod] = "absent"
    /\ NetMode = "netns" /\ r.pod \in answered \ ignored =>
         /\ r.at \in {"netnsRemove", "destroy"} => r.pod \notin cni
         /\ r.at = "stopTimeout" /\ ~NamesNetNS(r.saw) => r.pod \notin cni

\* In netns mode the attachment of an answered pod has a pod that names it,
\* unless a DEL of it failed unseen.
Kept == NetMode = "netns" => AnsweredKeepsNetwork

\* A DEL is issued only by a removal, and not before RunPodSandbox has returned.
NotIgnored ==
  /\ ignored \subseteq used
  /\ \A h \in Handlers : req[h].at \in RunSteps => req[h].pod \notin ignored

IInv ==
  /\ TypeOK
  /\ Drawn
  /\ Alone
  /\ RunProgress
  /\ RemoveProgress
  /\ PodHasRoot
  /\ RunningHasNetwork
  /\ Kept
  /\ NotIgnored

\* A step of h that returns or keeps its pod leaves h alone where it was.
LEMMA AloneKept ==
  ASSUME NEW h \in Handlers, TypeOK, TypeOK', Alone,
         \A g \in Handlers \ {h} : req'[g] = req[g],
         answered' = answered,
         req'[h].pod \in {req[h].pod, NoPod},
         req'[h].at \in RunSteps => req[h].at \in RunSteps
  PROVE  Alone'
<1>1. ASSUME NEW f \in Handlers, req'[f].at \in RunSteps
      PROVE  req'[f].pod = req[f].pod /\ req[f].at \in RunSteps
  <2>1. req'[f].pod # NoPod
    BY <1>1 DEF TypeOK, RunSteps
  <2>2. QED
    BY <1>1, <2>1
<1>2. ASSUME NEW f \in Handlers, req'[f].at \in RunSteps, NEW g \in Handlers \ {f}
      PROVE  req'[g].pod # req'[f].pod
  <2>1. req'[f].pod # NoPod
    BY <1>2 DEF TypeOK, RunSteps
  <2>2. QED
    BY <1>1, <1>2, <2>1 DEF Alone
<1>3. ASSUME NEW f \in Handlers, req'[f].at \in RunSteps
      PROVE  req'[f].pod \notin answered'
  BY <1>1, <1>3 DEF Alone
<1>4. QED
  BY <1>2, <1>3 DEF Alone

\* IInv holds initially.
LEMMA InitIInv == Init => IInv
BY NoPodAssumption, BoundAssumption
   DEF Init, IInv, TypeOK, Drawn, Alone, RunProgress, RemoveProgress,
       PodHasRoot, RunningHasNetwork, Kept, AnsweredKeepsNetwork, NotIgnored,
       Idle, Requests, Steps, RunSteps, NetOptions, PortoStates

\* Every step keeps IInv, if the kubelet waits.
LEMMA StepIInv == ASSUME KubeletWaits = TRUE, IInv, TypeOK', [Next]_vars PROVE IInv'
<1> USE NoPodAssumption, ModeAssumption
        DEF IInv, TypeOK, Requests, Steps, RunSteps, StopSteps, RemoveSteps, NetOptions, PortoStates,
            Drawn, Alone, RunProgress, RemoveProgress, PodHasRoot,
            RunningHasNetwork, Kept, AnsweredKeepsNetwork, NotIgnored, NetOption, NamesNetNS,
            Idle, Goto, Return, Works, Fails, portoVars, hostVars, kubeletVars
<1>1. ASSUME NEW h \in Handlers, RunPodSandbox(h) PROVE IInv'
  BY <1>1 DEF RunPodSandbox
<1>2. ASSUME NEW h \in Handlers, RunImage(h) PROVE IInv'
  <2>1. Drawn'
    BY <1>2 DEF RunImage
  <2>2. Alone'
    <3>1. \A g \in Handlers \ {h} : req'[g] = req[g]
      BY <1>2 DEF RunImage
    <3>2. answered' = answered
      BY <1>2 DEF RunImage
    <3>3. req'[h].pod \in {req[h].pod, NoPod}
      BY <1>2 DEF RunImage
    <3>4. req'[h].at \in RunSteps => req[h].at \in RunSteps
      BY <1>2 DEF RunImage
    <3>5. QED
      BY <3>1, <3>2, <3>3, <3>4, AloneKept
  <2>3. RunProgress'
    BY <1>2 DEF RunImage
  <2>4. RemoveProgress'
    BY <1>2 DEF RunImage
  <2>5. PodHasRoot'
    BY <1>2 DEF RunImage
  <2>6. RunningHasNetwork'
    BY <1>2 DEF RunImage
  <2>7. Kept'
    BY <1>2 DEF RunImage
  <2>8. NotIgnored'
    BY <1>2 DEF RunImage
  <2>9. QED
    BY <2>1, <2>2, <2>3, <2>4, <2>5, <2>6, <2>7, <2>8
<1>3. ASSUME NEW h \in Handlers, RunRoot(h) PROVE IInv'
  <2>1. Drawn'
    BY <1>3 DEF RunRoot
  <2>2. Alone'
    <3>1. \A g \in Handlers \ {h} : req'[g] = req[g]
      BY <1>3 DEF RunRoot
    <3>2. answered' = answered
      BY <1>3 DEF RunRoot
    <3>3. req'[h].pod \in {req[h].pod, NoPod}
      BY <1>3 DEF RunRoot
    <3>4. req'[h].at \in RunSteps => req[h].at \in RunSteps
      BY <1>3 DEF RunRoot
    <3>5. QED
      BY <3>1, <3>2, <3>3, <3>4, AloneKept
  <2>3. RunProgress'
    BY <1>3 DEF RunRoot
  <2>4. RemoveProgress'
    BY <1>3 DEF RunRoot
  <2>5. PodHasRoot'
    BY <1>3 DEF RunRoot
  <2>6. RunningHasNetwork'
    BY <1>3 DEF RunRoot
  <2>7. Kept'
    BY <1>3 DEF RunRoot
  <2>8. NotIgnored'
    BY <1>3 DEF RunRoot
  <2>9. QED
    BY <2>1, <2>2, <2>3, <2>4, <2>5, <2>6, <2>7, <2>8
<1>4. ASSUME NEW h \in Handlers, RunCreate(h) PROVE IInv'
  <2>1. Drawn'
    BY <1>4 DEF RunCreate, CreateFromSpec, SetPod
  <2>2. Alone'
    <3>1. \A g \in Handlers \ {h} : req'[g] = req[g]
      BY <1>4 DEF RunCreate, CreateFromSpec, SetPod
    <3>2. answered' = answered
      BY <1>4 DEF RunCreate, CreateFromSpec, SetPod
    <3>3. req'[h].pod \in {req[h].pod, NoPod}
      BY <1>4 DEF RunCreate, CreateFromSpec, SetPod
    <3>4. req'[h].at \in RunSteps => req[h].at \in RunSteps
      BY <1>4 DEF RunCreate, CreateFromSpec, SetPod
    <3>5. QED
      BY <3>1, <3>2, <3>3, <3>4, AloneKept
  <2>3. RunProgress'
    BY <1>4 DEF RunCreate, CreateFromSpec, SetPod
  <2>4. RemoveProgress'
    BY <1>4 DEF RunCreate, CreateFromSpec, SetPod
  <2>5. PodHasRoot'
    BY <1>4 DEF RunCreate, CreateFromSpec, SetPod
  <2>6. RunningHasNetwork'
    BY <1>4 DEF RunCreate, CreateFromSpec, SetPod
  <2>7. Kept'
    BY <1>4 DEF RunCreate, CreateFromSpec, SetPod
  <2>8. NotIgnored'
    BY <1>4 DEF RunCreate, CreateFromSpec, SetPod
  <2>9. QED
    BY <2>1, <2>2, <2>3, <2>4, <2>5, <2>6, <2>7, <2>8
<1>5. ASSUME NEW h \in Handlers, RunCommand(h) PROVE IInv'
  <2>1. Drawn'
    BY <1>5, SMTT(20) DEF RunCommand
  <2>2. Alone'
    <3>1. \A g \in Handlers \ {h} : req'[g] = req[g]
      BY <1>5 DEF RunCommand
    <3>2. answered' = answered
      BY <1>5 DEF RunCommand
    <3>3. req'[h].pod \in {req[h].pod, NoPod}
      BY <1>5 DEF RunCommand
    <3>4. req'[h].at \in RunSteps => req[h].at \in RunSteps
      BY <1>5 DEF RunCommand
    <3>5. QED
      BY <3>1, <3>2, <3>3, <3>4, AloneKept
  <2>3. RunProgress'
    BY <1>5 DEF RunCommand
  <2>4. RemoveProgress'
    BY <1>5 DEF RunCommand
  <2>5. PodHasRoot'
    BY <1>5 DEF RunCommand
  <2>6. RunningHasNetwork'
    BY <1>5 DEF RunCommand
  <2>7. Kept'
    BY <1>5 DEF RunCommand
  <2>8. NotIgnored'
    BY <1>5 DEF RunCommand
  <2>9. QED
    BY <2>1, <2>2, <2>3, <2>4, <2>5, <2>6, <2>7, <2>8
<1>6. ASSUME NEW h \in Handlers, RunNewNetNS(h) PROVE IInv'
  <2>1. Drawn'
    BY <1>6 DEF RunNewNetNS
  <2>2. Alone'
    <3>1. \A g \in Handlers \ {h} : req'[g] = req[g]
      BY <1>6 DEF RunNewNetNS
    <3>2. answered' = answered
      BY <1>6 DEF RunNewNetNS
    <3>3. req'[h].pod \in {req[h].pod, NoPod}
      BY <1>6 DEF RunNewNetNS
    <3>4. req'[h].at \in RunSteps => req[h].at \in RunSteps
      BY <1>6 DEF RunNewNetNS
    <3>5. QED
      BY <3>1, <3>2, <3>3, <3>4, AloneKept
  <2>3. RunProgress'
    BY <1>6 DEF RunNewNetNS
  <2>4. RemoveProgress'
    BY <1>6 DEF RunNewNetNS
  <2>5. PodHasRoot'
    BY <1>6 DEF RunNewNetNS
  <2>6. RunningHasNetwork'
    BY <1>6 DEF RunNewNetNS
  <2>7. Kept'
    BY <1>6 DEF RunNewNetNS
  <2>8. NotIgnored'
    BY <1>6 DEF RunNewNetNS
  <2>9. QED
    BY <2>1, <2>2, <2>3, <2>4, <2>5, <2>6, <2>7, <2>8
<1>7. ASSUME NEW h \in Handlers, RunSetup(h) PROVE IInv'
  <2>1. Drawn'
    BY <1>7 DEF RunSetup
  <2>2. Alone'
    <3>1. \A g \in Handlers \ {h} : req'[g] = req[g]
      BY <1>7 DEF RunSetup
    <3>2. answered' = answered
      BY <1>7 DEF RunSetup
    <3>3. req'[h].pod \in {req[h].pod, NoPod}
      BY <1>7 DEF RunSetup
    <3>4. req'[h].at \in RunSteps => req[h].at \in RunSteps
      BY <1>7 DEF RunSetup
    <3>5. QED
      BY <3>1, <3>2, <3>3, <3>4, AloneKept
  <2>3. RunProgress'
    BY <1>7 DEF RunSetup
  <2>4. RemoveProgress'
    BY <1>7 DEF RunSetup
  <2>5. PodHasRoot'
    BY <1>7 DEF RunSetup
  <2>6. RunningHasNetwork'
    BY <1>7 DEF RunSetup
  <2>7. Kept'
    BY <1>7 DEF RunSetup
  <2>8. NotIgnored'
    BY <1>7 DEF RunSetup
  <2>9. QED
    BY <2>1, <2>2, <2>3, <2>4, <2>5, <2>6, <2>7, <2>8
<1>8. ASSUME NEW h \in Handlers, RunUpdate(h) PROVE IInv'
  <2>1. Drawn'
    BY <1>8 DEF RunUpdate, PartialUpdate, SetPod, NetOption
  <2>2. Alone'
    <3>1. \A g \in Handlers \ {h} : req'[g] = req[g]
      BY <1>8 DEF RunUpdate, PartialUpdate, SetPod, NetOption
    <3>2. answered' = answered
      BY <1>8 DEF RunUpdate, PartialUpdate, SetPod, NetOption
    <3>3. req'[h].pod \in {req[h].pod, NoPod}
      BY <1>8 DEF RunUpdate, PartialUpdate, SetPod, NetOption
    <3>4. req'[h].at \in RunSteps => req[h].at \in RunSteps
      BY <1>8 DEF RunUpdate, PartialUpdate, SetPod, NetOption
    <3>5. QED
      BY <3>1, <3>2, <3>3, <3>4, AloneKept
  <2>3. RunProgress'
    BY <1>8, SMTT(20) DEF RunUpdate, PartialUpdate, SetPod, NetOption
  <2>4. RemoveProgress'
    BY <1>8 DEF RunUpdate, PartialUpdate, SetPod, NetOption
  <2>5. PodHasRoot'
    BY <1>8 DEF RunUpdate, PartialUpdate, SetPod, NetOption
  <2>6. RunningHasNetwork'
    BY <1>8 DEF RunUpdate, PartialUpdate, SetPod, NetOption
  <2>7. Kept'
    BY <1>8 DEF RunUpdate, PartialUpdate, SetPod, NetOption
  <2>8. NotIgnored'
    BY <1>8 DEF RunUpdate, PartialUpdate, SetPod, NetOption
  <2>9. QED
    BY <2>1, <2>2, <2>3, <2>4, <2>5, <2>6, <2>7, <2>8
<1>9. ASSUME NEW h \in Handlers, RunAbort(h) PROVE IInv'
  <2>1. Drawn'
    BY <1>9 DEF RunAbort, Destroy, SetPod
  <2>2. Alone'
    <3>1. \A g \in Handlers \ {h} : req'[g] = req[g]
      BY <1>9 DEF RunAbort, Destroy, SetPod
    <3>2. answered' = answered
      BY <1>9 DEF RunAbort, Destroy, SetPod
    <3>3. req'[h].pod \in {req[h].pod, NoPod}
      BY <1>9 DEF RunAbort, Destroy, SetPod
    <3>4. req'[h].at \in RunSteps => req[h].at \in RunSteps
      BY <1>9 DEF RunAbort, Destroy, SetPod
    <3>5. QED
      BY <3>1, <3>2, <3>3, <3>4, AloneKept
  <2>3. RunProgress'
    BY <1>9 DEF RunAbort, Destroy, SetPod
  <2>4. RemoveProgress'
    BY <1>9 DEF RunAbort, Destroy, SetPod
  <2>5. PodHasRoot'
    BY <1>9 DEF RunAbort, Destroy, SetPod
  <2>6. RunningHasNetwork'
    BY <1>9 DEF RunAbort, Destroy, SetPod
  <2>7. Kept'
    BY <1>9 DEF RunAbort, Destroy, SetPod
  <2>8. NotIgnored'
    BY <1>9 DEF RunAbort, Destroy, SetPod
  <2>9. QED
    BY <2>1, <2>2, <2>3, <2>4, <2>5, <2>6, <2>7, <2>8
<1>10. ASSUME NEW h \in Handlers, RunReply(h) PROVE IInv'
  BY <1>10 DEF RunReply
<1>11. ASSUME NEW h \in Handlers, StopPodSandbox(h) PROVE IInv'
  BY <1>11 DEF StopPodSandbox, MayActOn, Begin, Launching
<1>12. ASSUME NEW h \in Handlers, StopGetState(h) PROVE IInv'
  <2>1. Drawn'
    BY <1>12 DEF StopGetState
  <2>2. Alone'
    <3>1. \A g \in Handlers \ {h} : req'[g] = req[g]
      BY <1>12 DEF StopGetState
    <3>2. answered' = answered
      BY <1>12 DEF StopGetState
    <3>3. req'[h].pod \in {req[h].pod, NoPod}
      BY <1>12 DEF StopGetState
    <3>4. req'[h].at \in RunSteps => req[h].at \in RunSteps
      BY <1>12 DEF StopGetState
    <3>5. QED
      BY <3>1, <3>2, <3>3, <3>4, AloneKept
  <2>3. RunProgress'
    BY <1>12 DEF StopGetState
  <2>4. RemoveProgress'
    BY <1>12 DEF StopGetState
  <2>5. PodHasRoot'
    BY <1>12 DEF StopGetState
  <2>6. RunningHasNetwork'
    BY <1>12 DEF StopGetState
  <2>7. Kept'
    BY <1>12 DEF StopGetState
  <2>8. NotIgnored'
    BY <1>12 DEF StopGetState
  <2>9. QED
    BY <2>1, <2>2, <2>3, <2>4, <2>5, <2>6, <2>7, <2>8
<1>13. ASSUME NEW h \in Handlers, StopKill(h) PROVE IInv'
  <2>1. Drawn'
    BY <1>13 DEF StopKill
  <2>2. Alone'
    <3>1. \A g \in Handlers \ {h} : req'[g] = req[g]
      BY <1>13 DEF StopKill
    <3>2. answered' = answered
      BY <1>13 DEF StopKill
    <3>3. req'[h].pod \in {req[h].pod, NoPod}
      BY <1>13 DEF StopKill
    <3>4. req'[h].at \in RunSteps => req[h].at \in RunSteps
      BY <1>13 DEF StopKill
    <3>5. QED
      BY <3>1, <3>2, <3>3, <3>4, AloneKept
  <2>3. RunProgress'
    BY <1>13 DEF StopKill
  <2>4. RemoveProgress'
    BY <1>13 DEF StopKill
  <2>5. PodHasRoot'
    BY <1>13 DEF StopKill
  <2>6. RunningHasNetwork'
    BY <1>13 DEF StopKill
  <2>7. Kept'
    BY <1>13 DEF StopKill
  <2>8. NotIgnored'
    BY <1>13 DEF StopKill
  <2>9. QED
    BY <2>1, <2>2, <2>3, <2>4, <2>5, <2>6, <2>7, <2>8
<1>14. ASSUME NEW h \in Handlers, RemovePodSandbox(h) PROVE IInv'
  BY <1>14 DEF RemovePodSandbox, RemoveRequest, MayActOn, Begin, Launching
<1>15. ASSUME NEW h \in Handlers, RemoveGetNet(h) PROVE IInv'
  <2>1. Drawn'
    BY <1>15 DEF RemoveGetNet, RemoveSucceeds, NamesNetNS
  <2>2. Alone'
    <3>1. \A g \in Handlers \ {h} : req'[g] = req[g]
      BY <1>15 DEF RemoveGetNet, RemoveSucceeds, NamesNetNS
    <3>2. answered' = answered
      BY <1>15 DEF RemoveGetNet, RemoveSucceeds, NamesNetNS
    <3>3. req'[h].pod \in {req[h].pod, NoPod}
      BY <1>15 DEF RemoveGetNet, RemoveSucceeds, NamesNetNS
    <3>4. req'[h].at \in RunSteps => req[h].at \in RunSteps
      BY <1>15 DEF RemoveGetNet, RemoveSucceeds, NamesNetNS
    <3>5. QED
      BY <3>1, <3>2, <3>3, <3>4, AloneKept
  <2>3. RunProgress'
    BY <1>15 DEF RemoveGetNet, RemoveSucceeds, NamesNetNS
  <2>4. RemoveProgress'
    BY <1>15 DEF RemoveGetNet, RemoveSucceeds, NamesNetNS
  <2>5. PodHasRoot'
    BY <1>15 DEF RemoveGetNet, RemoveSucceeds, NamesNetNS
  <2>6. RunningHasNetwork'
    BY <1>15 DEF RemoveGetNet, RemoveSucceeds, NamesNetNS
  <2>7. Kept'
    BY <1>15 DEF RemoveGetNet, RemoveSucceeds, NamesNetNS
  <2>8. NotIgnored'
    BY <1>15 DEF RemoveGetNet, RemoveSucceeds, NamesNetNS
  <2>9. QED
    BY <2>1, <2>2, <2>3, <2>4, <2>5, <2>6, <2>7, <2>8
<1>16. ASSUME NEW h \in Handlers, RemoveGetLabels(h) PROVE IInv'
  <2>1. Drawn'
    BY <1>16 DEF RemoveGetLabels
  <2>2. Alone'
    <3>1. \A g \in Handlers \ {h} : req'[g] = req[g]
      BY <1>16 DEF RemoveGetLabels
    <3>2. answered' = answered
      BY <1>16 DEF RemoveGetLabels
    <3>3. req'[h].pod \in {req[h].pod, NoPod}
      BY <1>16 DEF RemoveGetLabels
    <3>4. req'[h].at \in RunSteps => req[h].at \in RunSteps
      BY <1>16 DEF RemoveGetLabels
    <3>5. QED
      BY <3>1, <3>2, <3>3, <3>4, AloneKept
  <2>3. RunProgress'
    BY <1>16 DEF RemoveGetLabels
  <2>4. RemoveProgress'
    <3>1. \A g \in Handlers \ {h} : req'[g] = req[g]
      BY <1>16 DEF RemoveGetLabels
    <3>2. UNCHANGED <<answered, cni, ignored, state>>
      BY <1>16 DEF RemoveGetLabels
    <3>3. req'[h].at \in {"idle", "stopTimeout"}
      BY <1>16 DEF RemoveGetLabels
    <3>4. req'[h].pod = req[h].pod \/ req'[h] = Idle
      BY <1>16 DEF RemoveGetLabels
    <3>5. req'[h].saw = req[h].saw \/ req'[h] = Idle
      BY <1>16 DEF RemoveGetLabels
    <3>6. req[h].at = "getLabels"
      BY <1>16 DEF RemoveGetLabels
    <3>7. QED
      BY <3>1, <3>2, <3>3, <3>4, <3>5, <3>6
  <2>5. PodHasRoot'
    BY <1>16 DEF RemoveGetLabels
  <2>6. RunningHasNetwork'
    BY <1>16 DEF RemoveGetLabels
  <2>7. Kept'
    BY <1>16 DEF RemoveGetLabels
  <2>8. NotIgnored'
    BY <1>16 DEF RemoveGetLabels
  <2>9. QED
    BY <2>1, <2>2, <2>3, <2>4, <2>5, <2>6, <2>7, <2>8
<1>17. ASSUME NEW h \in Handlers, RemoveStopTimeout(h) PROVE IInv'
  <2>1. Drawn'
    BY <1>17 DEF RemoveStopTimeout, AfterStop, NamesNetNS
  <2>2. Alone'
    <3>1. \A g \in Handlers \ {h} : req'[g] = req[g]
      BY <1>17 DEF RemoveStopTimeout, AfterStop, NamesNetNS
    <3>2. answered' = answered
      BY <1>17 DEF RemoveStopTimeout, AfterStop, NamesNetNS
    <3>3. req'[h].pod \in {req[h].pod, NoPod}
      BY <1>17 DEF RemoveStopTimeout, AfterStop, NamesNetNS
    <3>4. req'[h].at \in RunSteps => req[h].at \in RunSteps
      BY <1>17 DEF RemoveStopTimeout, AfterStop, NamesNetNS
    <3>5. QED
      BY <3>1, <3>2, <3>3, <3>4, AloneKept
  <2>3. RunProgress'
    BY <1>17 DEF RemoveStopTimeout, AfterStop, NamesNetNS
  <2>4. RemoveProgress'
    BY <1>17 DEF RemoveStopTimeout, AfterStop, NamesNetNS
  <2>5. PodHasRoot'
    BY <1>17 DEF RemoveStopTimeout, AfterStop, NamesNetNS
  <2>6. RunningHasNetwork'
    BY <1>17 DEF RemoveStopTimeout, AfterStop, NamesNetNS
  <2>7. Kept'
    BY <1>17 DEF RemoveStopTimeout, AfterStop, NamesNetNS
  <2>8. NotIgnored'
    BY <1>17 DEF RemoveStopTimeout, AfterStop, NamesNetNS
  <2>9. QED
    BY <2>1, <2>2, <2>3, <2>4, <2>5, <2>6, <2>7, <2>8
<1>18. ASSUME NEW h \in Handlers, RemoveCniDel(h) PROVE IInv'
  <2>1. Drawn'
    BY <1>18 DEF RemoveCniDel
  <2>2. Alone'
    <3>1. \A g \in Handlers \ {h} : req'[g] = req[g]
      BY <1>18 DEF RemoveCniDel
    <3>2. answered' = answered
      BY <1>18 DEF RemoveCniDel
    <3>3. req'[h].pod \in {req[h].pod, NoPod}
      BY <1>18 DEF RemoveCniDel
    <3>4. req'[h].at \in RunSteps => req[h].at \in RunSteps
      BY <1>18 DEF RemoveCniDel
    <3>5. QED
      BY <3>1, <3>2, <3>3, <3>4, AloneKept
  <2>3. RunProgress'
    BY <1>18 DEF RemoveCniDel
  <2>4. RemoveProgress'
    BY <1>18 DEF RemoveCniDel
  <2>5. PodHasRoot'
    BY <1>18 DEF RemoveCniDel
  <2>6. RunningHasNetwork'
    BY <1>18 DEF RemoveCniDel
  <2>7. Kept'
    BY <1>18 DEF RemoveCniDel
  <2>8. NotIgnored'
    BY <1>18 DEF RemoveCniDel
  <2>9. QED
    BY <2>1, <2>2, <2>3, <2>4, <2>5, <2>6, <2>7, <2>8
<1>19. ASSUME NEW h \in Handlers, RemoveNetNS(h) PROVE IInv'
  <2>1. Drawn'
    BY <1>19 DEF RemoveNetNS
  <2>2. Alone'
    <3>1. \A g \in Handlers \ {h} : req'[g] = req[g]
      BY <1>19 DEF RemoveNetNS
    <3>2. answered' = answered
      BY <1>19 DEF RemoveNetNS
    <3>3. req'[h].pod \in {req[h].pod, NoPod}
      BY <1>19 DEF RemoveNetNS
    <3>4. req'[h].at \in RunSteps => req[h].at \in RunSteps
      BY <1>19 DEF RemoveNetNS
    <3>5. QED
      BY <3>1, <3>2, <3>3, <3>4, AloneKept
  <2>3. RunProgress'
    BY <1>19 DEF RemoveNetNS
  <2>4. RemoveProgress'
    BY <1>19 DEF RemoveNetNS
  <2>5. PodHasRoot'
    BY <1>19 DEF RemoveNetNS
  <2>6. RunningHasNetwork'
    BY <1>19 DEF RemoveNetNS
  <2>7. Kept'
    BY <1>19 DEF RemoveNetNS
  <2>8. NotIgnored'
    BY <1>19, SMTT(30) DEF RemoveNetNS
  <2>9. QED
    BY <2>1, <2>2, <2>3, <2>4, <2>5, <2>6, <2>7, <2>8
<1>20. ASSUME NEW h \in Handlers, RemoveDestroy(h) PROVE IInv'
  <2>1. Drawn'
    BY <1>20, SMTT(20) DEF RemoveDestroy, Destroy, SetPod
  <2>2. Alone'
    <3>1. \A g \in Handlers \ {h} : req'[g] = req[g]
      BY <1>20 DEF RemoveDestroy, Destroy, SetPod
    <3>2. answered' = answered
      BY <1>20 DEF RemoveDestroy, Destroy, SetPod
    <3>3. req'[h].pod \in {req[h].pod, NoPod}
      BY <1>20 DEF RemoveDestroy, Destroy, SetPod
    <3>4. req'[h].at \in RunSteps => req[h].at \in RunSteps
      BY <1>20 DEF RemoveDestroy, Destroy, SetPod
    <3>5. QED
      BY <3>1, <3>2, <3>3, <3>4, AloneKept
  <2>3. RunProgress'
    BY <1>20 DEF RemoveDestroy, Destroy, SetPod
  <2>4. RemoveProgress'
    BY <1>20 DEF RemoveDestroy, Destroy, SetPod
  <2>5. PodHasRoot'
    BY <1>20 DEF RemoveDestroy, Destroy, SetPod
  <2>6. RunningHasNetwork'
    BY <1>20 DEF RemoveDestroy, Destroy, SetPod
  <2>7. Kept'
    BY <1>20 DEF RemoveDestroy, Destroy, SetPod
  <2>8. NotIgnored'
    BY <1>20 DEF RemoveDestroy, Destroy, SetPod
  <2>9. QED
    BY <2>1, <2>2, <2>3, <2>4, <2>5, <2>6, <2>7, <2>8
<1>21. ASSUME NEW h \in Handlers, RemoveRoot(h) PROVE IInv'
  <2>1. Drawn'
    BY <1>21 DEF RemoveRoot, RemoveSucceeds
  <2>2. Alone'
    <3>1. \A g \in Handlers \ {h} : req'[g] = req[g]
      BY <1>21 DEF RemoveRoot, RemoveSucceeds
    <3>2. answered' = answered
      BY <1>21 DEF RemoveRoot, RemoveSucceeds
    <3>3. req'[h].pod \in {req[h].pod, NoPod}
      BY <1>21 DEF RemoveRoot, RemoveSucceeds
    <3>4. req'[h].at \in RunSteps => req[h].at \in RunSteps
      BY <1>21 DEF RemoveRoot, RemoveSucceeds
    <3>5. QED
      BY <3>1, <3>2, <3>3, <3>4, AloneKept
  <2>3. RunProgress'
    BY <1>21 DEF RemoveRoot, RemoveSucceeds
  <2>4. RemoveProgress'
    BY <1>21 DEF RemoveRoot, RemoveSucceeds
  <2>5. PodHasRoot'
    BY <1>21 DEF RemoveRoot, RemoveSucceeds
  <2>6. RunningHasNetwork'
    BY <1>21 DEF RemoveRoot, RemoveSucceeds
  <2>7. Kept'
    BY <1>21 DEF RemoveRoot, RemoveSucceeds
  <2>8. NotIgnored'
    BY <1>21 DEF RemoveRoot, RemoveSucceeds
  <2>9. QED
    BY <2>1, <2>2, <2>3, <2>4, <2>5, <2>6, <2>7, <2>8
<1>22. CASE ListPodSandbox
  BY <1>22 DEF ListPodSandbox
<1>23. ASSUME NEW p \in Pods, PodExits(p) PROVE IInv'
  BY <1>23 DEF PodExits
<1>24. CASE Crash
  BY <1>24 DEF Crash
<1>25. CASE UNCHANGED vars
  BY <1>25 DEF vars
<1>26. QED
  BY <1>1, <1>2, <1>3, <1>4, <1>5, <1>6, <1>7, <1>8, <1>9, <1>10, <1>11, <1>12, <1>13, <1>14, <1>15, <1>16, <1>17, <1>18, <1>19, <1>20, <1>21, <1>22, <1>23, <1>24, <1>25
     DEF Next, HandlerStep, RunStep, StopStep, RemoveStep
\* IInv is an invariant, if the kubelet waits.
THEOREM IInvHolds == ASSUME KubeletWaits = TRUE PROVE Spec => []IInv
<1>1. Init => IInv
  BY InitIInv
<1>2. IInv /\ TypeOK' /\ [Next]_vars => IInv'
  BY StepIInv
<1>3. QED
  BY <1>1, <1>2, TypeCorrect, PTL DEF Spec

\* In netns mode the attachment of a pod that RunPodSandbox answered for is never
\* orphaned, but for a DEL whose error go-cni takes for success.
THEOREM NetworkKept ==
  ASSUME KubeletWaits = TRUE, NetMode = "netns"
  PROVE  Spec => []AnsweredKeepsNetwork
<1>1. IInv => AnsweredKeepsNetwork
  BY DEF IInv, Kept
<1>2. QED
  BY <1>1, IInvHolds, PTL

\* A running pod has the namespace its net property names, and the attachment.
THEOREM NetworkWhileRunning ==
  ASSUME KubeletWaits = TRUE PROVE Spec => []RunningHasNetwork
<1>1. IInv => RunningHasNetwork
  BY DEF IInv
<1>2. QED
  BY <1>1, IInvHolds, PTL

\* A pod that porto has keeps its root directory.
THEOREM RootWhilePod == ASSUME KubeletWaits = TRUE PROVE Spec => []PodHasRoot
<1>1. IInv => PodHasRoot
  BY DEF IInv
<1>2. QED
  BY <1>1, IInvHolds, PTL

-----------------------------------------------------------------------------
(* Refinement of SandboxLease *)

\* A step that leaves the pods, the attachments and the answers alone is a
\* stutter of the lease.
LEMMA LeaseStutter ==
  ASSUME UNCHANGED <<state, cni, ignored, answered>>
  PROVE  UNCHANGED Lease!leaseVars
BY DEF Lease!leaseVars, LeaseStatus

\* A step that changes only pods the kubelet has no answer for is one, too.
LEMMA LeaseUnanswered ==
  ASSUME NEW p \in Pods, p \notin answered, answered' = answered,
         \A q \in Pods \ {p} : state'[q] = state[q],
         cni' \ {p} = cni \ {p}, ignored' = ignored, TypeOK, TypeOK'
  PROVE  UNCHANGED Lease!leaseVars
<1>1. \A q \in Pods : LeaseStatus(q)' = LeaseStatus(q)
  BY DEF LeaseStatus
<1>2. UNCHANGED <<cni \cap answered, ignored \cap answered>>
  OBVIOUS
<1>3. QED
  BY <1>1, <1>2 DEF Lease!leaseVars
\* A pod that comes to rest falls, as far as the lease is concerned.
LEMMA LeaseFalls ==
  ASSUME NEW p \in Pods, NEW s \in {"stopped", "dead"}, TypeOK,
         state' = [state EXCEPT ![p] = s], state[p] # "absent",
         UNCHANGED <<cni, ignored, answered>>
  PROVE  [Lease!LeaseNext]_(Lease!leaseVars)
<1>1. CASE p \in answered /\ state[p] = "running"
  <2>1. [q \in Pods |-> LeaseStatus(q)]'
          = [[q \in Pods |-> LeaseStatus(q)] EXCEPT ![p] = "down"]
    BY <1>1 DEF LeaseStatus, TypeOK
  <2>2. LeaseStatus(p) = "up"
    BY <1>1 DEF LeaseStatus
  <2>3. Lease!Fall(p)
    BY <2>1, <2>2 DEF Lease!Fall
  <2>4. QED
    BY <2>3 DEF Lease!LeaseNext
<1>2. CASE ~(p \in answered /\ state[p] = "running")
  <2>1. \A q \in Pods : LeaseStatus(q)' = LeaseStatus(q)
    BY <1>2 DEF LeaseStatus, TypeOK, PortoStates
  <2>2. QED
    BY <2>1 DEF Lease!leaseVars
<1>3. QED
  BY <1>1, <1>2

\* Every step is a step of the lease or leaves it alone.
LEMMA LeaseStep ==
  ASSUME KubeletWaits = TRUE, NetMode = "netns", IInv, IInv', [Next]_vars
  PROVE  [Lease!LeaseNext]_(Lease!leaseVars)
<1> DEFINE Goal == [Lease!LeaseNext]_(Lease!leaseVars)
<1> USE DEF portoVars, hostVars, kubeletVars
<1>1. ASSUME NEW h \in Handlers,
             \/ RunPodSandbox(h) \/ RunImage(h) \/ RunRoot(h) \/ RunCommand(h)
             \/ RunNewNetNS(h) \/ StopPodSandbox(h) \/ StopGetState(h)
             \/ RemovePodSandbox(h) \/ RemoveGetNet(h) \/ RemoveGetLabels(h)
             \/ RemoveNetNS(h) \/ RemoveRoot(h)
      PROVE  Goal
  <2>1. UNCHANGED <<state, cni, ignored, answered>>
    BY <1>1 DEF RunPodSandbox, RunImage, RunRoot, RunCommand, RunNewNetNS,
                StopPodSandbox, StopGetState, RemovePodSandbox, RemoveRequest,
                RemoveGetNet, RemoveGetLabels, RemoveNetNS, RemoveRoot
  <2>2. QED
    BY <2>1, LeaseStutter
<1>2. ASSUME NEW h \in Handlers,
             RunCreate(h) \/ RunSetup(h) \/ RunUpdate(h) \/ RunAbort(h)
      PROVE  Goal
  <2>1. req[h].pod \in Pods /\ req[h].pod \notin answered
    BY <1>2 DEF IInv, TypeOK, Requests, Alone, RunSteps,
                RunCreate, RunSetup, RunUpdate, RunAbort
  <2>2. answered' = answered
    BY <1>2 DEF RunCreate, RunSetup, RunUpdate, RunAbort
  <2>3. /\ \A q \in Pods \ {req[h].pod} : state'[q] = state[q]
        /\ cni' \ {req[h].pod} = cni \ {req[h].pod}
        /\ ignored' = ignored
    BY <1>2, <2>1 DEF IInv, TypeOK, RunCreate, RunSetup, RunUpdate, RunAbort,
                      CreateFromSpec, PartialUpdate, Destroy, SetPod
  <2>4. QED
    BY <2>1, <2>2, <2>3, LeaseUnanswered DEF IInv
<1>3. ASSUME NEW h \in Handlers, RunReply(h), answered' # answered PROVE Goal
  <2>0. PICK p \in Pods : p = req[h].pod
    BY <1>3 DEF IInv, TypeOK, Requests, RunReply
  <2>1. p \notin answered /\ state[p] # "absent" /\ p \notin ignored
    BY <1>3, <2>0 DEF IInv, Alone, RunSteps, RunProgress, NotIgnored, RunReply
  <2>2. UNCHANGED <<state, cni, ignored>> /\ answered' = answered \cup {p}
    BY <1>3, <2>0 DEF RunReply
  <2>3. PICK s \in {"up", "down"} : s = LeaseStatus(p)'
    BY <2>1, <2>2 DEF LeaseStatus
  <2>4. [q \in Pods |-> LeaseStatus(q)]'
          = [[q \in Pods |-> LeaseStatus(q)] EXCEPT ![p] = s]
    BY <2>1, <2>2, <2>3 DEF LeaseStatus
  <2>5. LeaseStatus(p) = "unborn"
    BY <2>1 DEF LeaseStatus
  <2>6. (cni \cap answered)' \in {cni \cap answered, (cni \cap answered) \cup {p}}
    BY <2>2
  <2>9. (ignored \cap answered)' = ignored \cap answered
    BY <2>1, <2>2
  <2>7. Lease!Grant(p)
    BY <2>1, <2>3, <2>4, <2>5, <2>6, <2>9 DEF Lease!Grant
  <2>8. QED
    BY <2>1, <2>7 DEF Lease!LeaseNext
<1>4. ASSUME NEW h \in Handlers, StopKill(h) \/ RemoveStopTimeout(h) PROVE Goal
  <2>1. req[h].pod \in Pods /\ UNCHANGED <<cni, ignored, answered>>
    BY <1>4 DEF IInv, TypeOK, Requests, StopKill, RemoveStopTimeout
  <2>2. \/ UNCHANGED state
        \/ /\ state[req[h].pod] # "absent"
           /\ \E s \in {"stopped", "dead"} :
                state' = [state EXCEPT ![req[h].pod] = s]
    BY <1>4 DEF StopKill, RemoveStopTimeout
  <2>3. QED
    BY <2>1, <2>2, LeaseStutter, LeaseFalls DEF IInv
<1>5. ASSUME NEW h \in Handlers, RemoveCniDel(h) PROVE Goal
  <2> DEFINE p == req[h].pod
  <2>1. p \in Pods /\ state[p] # "running" /\ UNCHANGED <<state, answered>>
    BY <1>5 DEF IInv, TypeOK, Requests, RemoveProgress, RemoveCniDel
  <2>2. /\ cni' = cni \/ cni' = cni \ {p}
        /\ ignored' = ignored \/ ignored' = ignored \cup {p}
    BY <1>5 DEF RemoveCniDel
  <2>3. [q \in Pods |-> LeaseStatus(q)]' = [q \in Pods |-> LeaseStatus(q)]
    BY <2>1 DEF LeaseStatus
  <2>4. CASE p \in answered
    <3>1. LeaseStatus(p) \in {"down", "gone"}
      BY <2>1, <2>4 DEF LeaseStatus
    <3>2. (cni \cap answered)' \in {cni \cap answered, (cni \cap answered) \ {p}}
      BY <2>1, <2>2
    <3>3. CASE ignored' = ignored \cup {p}
      <4>1. (ignored \cap answered)' = (ignored \cap answered) \cup {p}
        BY <2>1, <2>4, <3>3
      <4>2. Lease!Waive(p)
        BY <2>1, <2>3, <3>1, <3>2, <4>1 DEF Lease!Waive
      <4>3. QED
        BY <2>1, <4>2 DEF Lease!LeaseNext
    <3>4. CASE ignored' = ignored /\ p \in cni /\ cni' = cni \ {p}
      <4>1. /\ (ignored \cap answered)' = ignored \cap answered
            /\ (cni \cap answered)' = (cni \cap answered) \ {p}
            /\ p \in cni \cap answered
        BY <2>1, <2>4, <3>4
      <4>2. Lease!Release(p)
        BY <2>1, <2>3, <3>1, <4>1 DEF Lease!Release
      <4>3. QED
        BY <2>1, <4>2 DEF Lease!LeaseNext
    <3>5. CASE ignored' = ignored /\ cni' = cni
      BY <2>1, <3>5, LeaseStutter
    <3>6. QED
      BY <2>2, <3>3, <3>4, <3>5
  <2>5. CASE p \notin answered
    <3>1. UNCHANGED <<cni \cap answered, ignored \cap answered>>
      BY <2>1, <2>2, <2>5
    <3>2. QED
      BY <2>3, <3>1 DEF Lease!leaseVars
  <2>6. QED
    BY <2>4, <2>5
<1>6. ASSUME NEW h \in Handlers, RemoveDestroy(h) PROVE Goal
  <2> DEFINE p == req[h].pod
  <2>1. p \in Pods /\ state[p] # "running" /\ UNCHANGED <<cni, ignored, answered>>
    BY <1>6 DEF IInv, TypeOK, Requests, RemoveProgress, RemoveDestroy
  <2>2. UNCHANGED state \/ state' = [state EXCEPT ![p] = "absent"]
    BY <1>6 DEF RemoveDestroy, Destroy, SetPod
  <2>3. p \in answered => p \notin cni \/ p \in ignored
    BY <1>6 DEF IInv, RemoveProgress, RemoveDestroy
  <2>4. CASE /\ state' = [state EXCEPT ![p] = "absent"]
             /\ p \in answered /\ state[p] # "absent"
    <3>1. LeaseStatus(p) = "down"
      BY <2>1, <2>4 DEF LeaseStatus
    <3>2. [q \in Pods |-> LeaseStatus(q)]'
            = [[q \in Pods |-> LeaseStatus(q)] EXCEPT ![p] = "gone"]
      BY <2>1, <2>4 DEF LeaseStatus, IInv, TypeOK
    <3>3. /\ UNCHANGED <<cni \cap answered, ignored \cap answered>>
          /\ p \notin cni \cap answered \/ p \in ignored \cap answered
      BY <2>1, <2>3, <2>4
    <3>4. Lease!Drop(p)
      BY <2>1, <3>1, <3>2, <3>3 DEF Lease!Drop
    <3>5. QED
      BY <2>1, <3>4 DEF Lease!LeaseNext
  <2>5. CASE p \notin answered
    BY <2>1, <2>2, <2>5, LeaseUnanswered DEF IInv, TypeOK
  <2>6. CASE UNCHANGED state \/ state[p] = "absent"
    <3>1. UNCHANGED state
      BY <2>2, <2>6 DEF IInv, TypeOK
    <3>2. QED
      BY <2>1, <3>1, LeaseStutter
  <2>7. QED
    BY <2>2, <2>4, <2>5, <2>6
<1>7. ASSUME NEW p \in Pods, PodExits(p) PROVE Goal
  <2>1. /\ state[p] # "absent" /\ UNCHANGED <<cni, ignored, answered>>
        /\ state' = [state EXCEPT ![p] = "dead"]
    BY <1>7 DEF PodExits
  <2>2. QED
    BY <2>1, LeaseFalls DEF IInv
<1>8. ASSUME \/ ListPodSandbox \/ Crash \/ UNCHANGED vars
             \/ \E h \in Handlers : RunReply(h) /\ answered' = answered
      PROVE  Goal
  <2>1. UNCHANGED <<state, cni, ignored, answered>>
    BY <1>8 DEF ListPodSandbox, Crash, RunReply, vars
  <2>2. QED
    BY <2>1, LeaseStutter
<1>9. QED
  BY <1>1, <1>2, <1>3, <1>4, <1>5, <1>6, <1>7, <1>8
     DEF Next, HandlerStep, RunStep, StopStep, RemoveStep

\* In netns mode, if the kubelet waits, the sandbox calls implement the lease.
THEOREM LeaseRefinement ==
  ASSUME KubeletWaits = TRUE, NetMode = "netns" PROVE Spec => LeaseProperty
<1>1. Init => Lease!LeaseInit
  BY DEF Init, Lease!LeaseInit, LeaseStatus
<1>2. IInv /\ IInv' /\ [Next]_vars => [Lease!LeaseNext]_(Lease!leaseVars)
  BY LeaseStep
<1>3. QED
  BY <1>1, <1>2, IInvHolds, PTL DEF Spec, LeaseProperty, Lease!LeaseSpec
=============================================================================
