--------------------------- MODULE ContainersProofs ---------------------------
(***************************************************************************)
(* Proofs about Containers, for any containers, any number of concurrent   *)
(* requests and any number of failing calls and crashes.                   *)
(***************************************************************************)
EXTENDS Containers, TLAPS

-----------------------------------------------------------------------------
(* Type correctness *)

\* The variables of the container calls keep their types, and a handler is tied
\* to a container exactly while it serves a request.
THEOREM TypeCorrect == Spec => []TypeOK
<1>1. Init => TypeOK
  BY NoCntAssumption, BoundAssumption
     DEF Init, TypeOK, Idle, Requests, Steps, Names, PortoStates
<1>2. TypeOK /\ [Next]_vars => TypeOK'
  <2> SUFFICES ASSUME TypeOK, [Next]_vars PROVE TypeOK'
    OBVIOUS
  <2> USE NoCntAssumption, BoundAssumption
          DEF TypeOK, Requests, Steps, CreateSteps, StartSteps, StopSteps,
              StatusSteps, RemoveSteps, PortoStates, Names, Idle, Goto, Return,
              Works, Fails, portoVars, kubeletVars, historyVars
  <2>1. ASSUME NEW h \in Handlers, CreateContainer(h) PROVE TypeOK'
    BY <2>1 DEF CreateContainer
  <2>2. ASSUME NEW h \in Handlers, CreateMkdir(h) PROVE TypeOK'
    BY <2>2 DEF CreateMkdir
  <2>3. ASSUME NEW h \in Handlers, CreateSandboxDevices(h) PROVE TypeOK'
    BY <2>3 DEF CreateSandboxDevices
  <2>4. ASSUME NEW h \in Handlers, CreateFromSpec(h) PROVE TypeOK'
    BY <2>4 DEF CreateFromSpec, Make, SetState
  <2>5. ASSUME NEW h \in Handlers, CreatePrepare(h) PROVE TypeOK'
    BY <2>5 DEF CreatePrepare
  <2>6. ASSUME NEW h \in Handlers, CreateUpdate(h) PROVE TypeOK'
    <3>1. /\ req' \in [Handlers -> Requests]
          /\ \A g \in Handlers : req'[g].cnt = NoCnt <=> req'[g].at = "idle"
      BY <2>6 DEF CreateUpdate
    <3>2. /\ outer' \in [Cnts -> PortoStates] /\ child' \in [Cnts -> PortoStates]
          /\ labels' \subseteq Cnts
      BY <2>6 DEF CreateUpdate
    <3>3. faults' \in 0 .. MaxFaults
      BY <2>6 DEF CreateUpdate
    <3>4. UNCHANGED <<pod, env, dirs, kubeletVars, historyVars, crashes>>
      BY <2>6 DEF CreateUpdate
    <3>5. QED
      BY <3>1, <3>2, <3>3, <3>4
  <2>7. ASSUME NEW h \in Handlers, CreateAbort(h) PROVE TypeOK'
    BY <2>7 DEF CreateAbort, DestroyOuter
  <2>8. ASSUME NEW h \in Handlers, CreateReply(h) PROVE TypeOK'
    BY <2>8 DEF CreateReply
  <2>9. ASSUME NEW h \in Handlers, StartContainer(h) PROVE TypeOK'
    BY <2>9 DEF StartContainer, Begin
  <2>10. ASSUME NEW h \in Handlers, StartName(h) PROVE TypeOK'
    BY <2>10 DEF StartName, Resolve
  <2>11. ASSUME NEW h \in Handlers, StartStart(h) PROVE TypeOK'
    <3>1. /\ req' \in [Handlers -> Requests]
          /\ \A g \in Handlers : req'[g].cnt = NoCnt <=> req'[g].at = "idle"
      BY <2>11 DEF StartStart, CanStart, StateOf, SetState, startRest
    <3>2. /\ outer' \in [Cnts -> PortoStates] /\ child' \in [Cnts -> PortoStates]
          /\ labels' \subseteq Cnts
      BY <2>11 DEF StartStart, CanStart, StateOf, SetState, startRest
    <3>3. faults' \in 0 .. MaxFaults
      BY <2>11 DEF StartStart, CanStart, StateOf, SetState, startRest
    <3>4. UNCHANGED <<pod, env, dirs, kubeletVars, historyVars, crashes>>
      BY <2>11 DEF StartStart, CanStart, StateOf, SetState, startRest
    <3>5. QED
      BY <3>1, <3>2, <3>3, <3>4
  <2>12. ASSUME NEW h \in Handlers, StartGetLabels(h) PROVE TypeOK'
    BY <2>12 DEF StartGetLabels, StartSucceeds, AnswerLost, startRest
  <2>13. ASSUME NEW h \in Handlers, PrivState(h) PROVE TypeOK'
    BY <2>13 DEF PrivState, StartSucceeds, AnswerLost, startRest
  <2>14. ASSUME NEW h \in Handlers, PrivCreate(h) PROVE TypeOK'
    BY <2>14 DEF PrivCreate, SetState, startRest
  <2>15. ASSUME NEW h \in Handlers, PrivEnv(h) PROVE TypeOK'
    BY <2>15 DEF PrivEnv, startRest
  <2>16. ASSUME NEW h \in Handlers, PrivStart(h) PROVE TypeOK'
    BY <2>16 DEF PrivStart, CanStart, StateOf, SetState, StartSucceeds, AnswerLost, startRest
  <2>17. ASSUME NEW h \in Handlers, StopContainer(h) PROVE TypeOK'
    BY <2>17 DEF StopContainer, Begin
  <2>18. ASSUME NEW h \in Handlers, StopName(h) PROVE TypeOK'
    BY <2>18 DEF StopName, Resolve
  <2>19. ASSUME NEW h \in Handlers, StopGetState(h) PROVE TypeOK'
    BY <2>19 DEF StopGetState
  <2>20. ASSUME NEW h \in Handlers, StopKill(h) PROVE TypeOK'
    BY <2>20 DEF StopKill, Ends, StateOf
  <2>21. ASSUME NEW h \in Handlers, ContainerStatus(h) PROVE TypeOK'
    BY <2>21 DEF ContainerStatus, Begin
  <2>22. ASSUME NEW h \in Handlers, StatusName(h) PROVE TypeOK'
    BY <2>22 DEF StatusName, Resolve
  <2>23. ASSUME NEW h \in Handlers, StatusGetProps(h) PROVE TypeOK'
    BY <2>23 DEF StatusGetProps, StateOf, IsOver
  <2>24. ASSUME NEW h \in Handlers, StatusParentLabels(h) PROVE TypeOK'
    BY <2>24 DEF StatusParentLabels, IsOver
  <2>25. ASSUME NEW h \in Handlers, StatusReap(h) PROVE TypeOK'
    BY <2>25 DEF StatusReap, DestroyOuter
  <2>26. ASSUME NEW h \in Handlers, StatusReply(h) PROVE TypeOK'
    BY <2>26 DEF StatusReply
  <2>27. ASSUME NEW h \in Handlers, RemoveContainer(h) PROVE TypeOK'
    BY <2>27 DEF RemoveContainer, Begin
  <2>28. ASSUME NEW h \in Handlers, RemoveDestroy(h) PROVE TypeOK'
    BY <2>28 DEF RemoveDestroy, DestroyOuter
  <2>29. ASSUME NEW h \in Handlers, RemoveDir(h) PROVE TypeOK'
    BY <2>29 DEF RemoveDir
  <2>30. ASSUME NEW c \in Cnts, ProcessExits(c) PROVE TypeOK'
    BY <2>30 DEF ProcessExits, Ends, StateOf, Names
  <2>31. CASE ListContainers
    BY <2>31 DEF ListContainers, Listed
  <2>32. CASE PodDestroyed
    BY <2>32 DEF PodDestroyed
  <2>33. CASE PodDirRemoved
    BY <2>33 DEF PodDirRemoved
  <2>34. CASE Crash
    BY <2>34 DEF Crash
  <2>35. CASE UNCHANGED vars
    BY <2>35 DEF vars
  <2>36. ASSUME NEW h \in Handlers, PrivGetEnv(h) PROVE TypeOK'
    BY <2>36 DEF PrivGetEnv, startRest
  <2>37. CASE PodStopped
    BY <2>37 DEF PodStopped, PodExists
  <2>38. QED
    BY <2>1, <2>2, <2>3, <2>4, <2>5, <2>6, <2>7, <2>8, <2>9, <2>10, <2>11, <2>12,
       <2>13, <2>14, <2>15, <2>16, <2>17, <2>18, <2>19, <2>20, <2>21, <2>22, <2>23, <2>24,
       <2>25, <2>26, <2>27, <2>28, <2>29, <2>30, <2>31, <2>32, <2>33, <2>34, <2>35, <2>36,
       <2>37
       DEF Next, Request, CreateStep, StartStep, StopStep, StatusStep, RemoveStep
<1>3. QED
  BY <1>1, <1>2, PTL DEF Spec

-----------------------------------------------------------------------------
(* The inductive invariant *)

Making == CreateSteps \ {"created", "abort"}

\* A container in the making is known to no one: it has no labels to be listed
\* by, and no other request is served for it.
MakingAlone ==
  \A h \in Handlers : req[h].at \in Making =>
    /\ req[h].cnt \notin known
    /\ req[h].cnt \notin labels
    /\ \A g \in Handlers \ {h} : req[g].cnt # req[h].cnt

\* Requests are served for ids that were drawn, and all but CreateContainer for
\* containers the kubelet knows.
Drawn ==
  /\ known \subseteq used
  /\ labels \subseteq used
  /\ removed \subseteq known
  /\ \A h \in Handlers :
       /\ req[h].at # "idle" => req[h].cnt \in used
       /\ req[h].at \notin CreateSteps \cup {"idle"} => req[h].cnt \in known

\* What porto has hangs together: a child is in its parent, a container in its
\* pod.
Nested ==
  \A c \in Cnts :
    /\ child[c] # "absent" => outer[c] # "absent"
    /\ outer[c] # "absent" => PodExists

\* The directory is there when CreateFromSpec comes, unless the pod was destroyed,
\* and goes after the container.
DirProgress ==
  \A h \in Handlers :
    /\ req[h].at \in {"sandbox", "create"} /\ PodExists => req[h].cnt \in dirs
    /\ req[h].at = "removeAll" => outer[req[h].cnt] = "absent"

IInv ==
  /\ TypeOK
  /\ MakingAlone
  /\ Drawn
  /\ Nested
  /\ DirProgress
  /\ ContainerHasDir
  /\ RemovedIsGone

\* IInv holds initially.
LEMMA InitIInv == Init => IInv
BY NoCntAssumption, BoundAssumption
   DEF Init, IInv, TypeOK, MakingAlone, Making, Drawn, Nested, DirProgress,
       ContainerHasDir, RemovedIsGone, PodExists, Idle, Requests, Steps,
       CreateSteps, Names, PortoStates

\* A request that ends, or goes on without going back into the making of its
\* container, disturbs neither MakingAlone nor Drawn.
LEMMA RequestKept ==
  ASSUME IInv, TypeOK', NEW h \in Handlers,
         known' = known, used' = used, removed' = removed, labels' \subseteq labels,
         \A g \in Handlers \ {h} : req'[g] = req[g],
         \/ req'[h] = Idle
         \/ /\ req[h].at # "idle"
            /\ req'[h].cnt = req[h].cnt
            /\ req'[h].at \in Making => req[h].at \in Making
            /\ req[h].at \in CreateSteps => req'[h].at \in CreateSteps
  PROVE  MakingAlone' /\ Drawn'
<1> USE NoCntAssumption
        DEF IInv, TypeOK, Requests, Making, CreateSteps, Idle
<1>1. \A g \in Handlers : req'[g].cnt = req[g].cnt \/ req'[g].cnt = NoCnt
  OBVIOUS
<1>2. \A g \in Handlers : req'[g].at \in Making =>
        req[g].at \in Making /\ req'[g].cnt = req[g].cnt /\ req[g].cnt # NoCnt
  OBVIOUS
<1>3. MakingAlone'
  BY <1>1, <1>2 DEF MakingAlone
<1>4. Drawn'
  BY DEF Drawn
<1>5. QED
  BY <1>3, <1>4

\* Every step keeps IInv.
LEMMA StepIInv == ASSUME IInv, TypeOK', [Next]_vars PROVE IInv'
<1> USE NoCntAssumption
        DEF IInv, TypeOK, Requests, Steps, CreateSteps, StartSteps, StopSteps,
            StatusSteps, RemoveSteps, PortoStates, Names, Making, MakingAlone,
            Drawn, Nested, DirProgress, ContainerHasDir, RemovedIsGone,
            PodExists, Idle, Goto, Return, Works, Fails, portoVars, kubeletVars,
            historyVars
<1>1. ASSUME NEW h \in Handlers, CreateContainer(h) PROVE IInv'
  BY <1>1 DEF CreateContainer
<1>2. ASSUME NEW h \in Handlers, CreateMkdir(h) PROVE IInv'
  BY <1>2, SMTT(20) DEF CreateMkdir
<1>3. ASSUME NEW h \in Handlers, CreateSandboxDevices(h) PROVE IInv'
  <2>1. \A g \in Handlers \ {h} : req'[g] = req[g]
    BY <1>3 DEF CreateSandboxDevices
  <2>2. \/ req'[h] = Idle
        \/ /\ req[h].at # "idle"
           /\ req'[h].cnt = req[h].cnt
           /\ req'[h].at \in Making => req[h].at \in Making
           /\ req[h].at \in CreateSteps => req'[h].at \in CreateSteps
    BY <1>3 DEF CreateSandboxDevices
  <2>3. known' = known /\ used' = used /\ removed' = removed /\ labels' \subseteq labels
    BY <1>3 DEF CreateSandboxDevices
  <2>4. MakingAlone' /\ Drawn'
    BY <2>1, <2>2, <2>3, RequestKept
  <2>5. Nested'
    BY <1>3 DEF CreateSandboxDevices
  <2>6. DirProgress'
    BY <1>3 DEF CreateSandboxDevices
  <2>7. ContainerHasDir'
    BY <1>3 DEF CreateSandboxDevices
  <2>8. RemovedIsGone'
    BY <1>3 DEF CreateSandboxDevices
  <2>9. QED
    BY <2>4, <2>5, <2>6, <2>7, <2>8
<1>4. ASSUME NEW h \in Handlers, CreateFromSpec(h) PROVE IInv'
  <2>1. \A g \in Handlers \ {h} : req'[g] = req[g]
    BY <1>4 DEF CreateFromSpec, Make, SetState
  <2>2. \/ req'[h] = Idle
        \/ /\ req[h].at # "idle"
           /\ req'[h].cnt = req[h].cnt
           /\ req'[h].at \in Making => req[h].at \in Making
           /\ req[h].at \in CreateSteps => req'[h].at \in CreateSteps
    BY <1>4 DEF CreateFromSpec, Make, SetState
  <2>3. known' = known /\ used' = used /\ removed' = removed /\ labels' \subseteq labels
    BY <1>4 DEF CreateFromSpec, Make, SetState
  <2>4. MakingAlone' /\ Drawn'
    BY <2>1, <2>2, <2>3, RequestKept
  <2>5. Nested'
    BY <1>4 DEF CreateFromSpec, Make, SetState
  <2>6. DirProgress'
    BY <1>4 DEF CreateFromSpec, Make, SetState
  <2>7. ContainerHasDir'
    BY <1>4 DEF CreateFromSpec, Make, SetState
  <2>8. RemovedIsGone'
    BY <1>4 DEF CreateFromSpec, Make, SetState
  <2>9. QED
    BY <2>4, <2>5, <2>6, <2>7, <2>8
<1>5. ASSUME NEW h \in Handlers, CreatePrepare(h) PROVE IInv'
  <2>1. \A g \in Handlers \ {h} : req'[g] = req[g]
    BY <1>5 DEF CreatePrepare
  <2>2. \/ req'[h] = Idle
        \/ /\ req[h].at # "idle"
           /\ req'[h].cnt = req[h].cnt
           /\ req'[h].at \in Making => req[h].at \in Making
           /\ req[h].at \in CreateSteps => req'[h].at \in CreateSteps
    BY <1>5 DEF CreatePrepare
  <2>3. known' = known /\ used' = used /\ removed' = removed /\ labels' \subseteq labels
    BY <1>5 DEF CreatePrepare
  <2>4. MakingAlone' /\ Drawn'
    BY <2>1, <2>2, <2>3, RequestKept
  <2>5. Nested'
    BY <1>5 DEF CreatePrepare
  <2>6. DirProgress'
    BY <1>5 DEF CreatePrepare
  <2>7. ContainerHasDir'
    BY <1>5 DEF CreatePrepare
  <2>8. RemovedIsGone'
    BY <1>5 DEF CreatePrepare
  <2>9. QED
    BY <2>4, <2>5, <2>6, <2>7, <2>8
<1>6. ASSUME NEW h \in Handlers, CreateUpdate(h) PROVE IInv'
  <2>1. MakingAlone'
    <3>1. /\ \A g \in Handlers \ {h} : req'[g] = req[g]
          /\ req[h].at \in Making /\ req'[h].at \notin Making
          /\ req'[h].cnt \in {req[h].cnt, NoCnt}
          /\ known' = known /\ labels' \subseteq labels \cup {req[h].cnt}
      BY <1>6 DEF CreateUpdate
    <3>2. \A g \in Handlers : req[g].at \in Making => req[g].cnt # NoCnt
      OBVIOUS
    <3>3. \A g \in Handlers \ {h} : req[g].at \in Making => req[g].cnt # req[h].cnt
      BY <3>1
    <3>4. \A g \in Handlers \ {h} :
            req[g].at \in Making => req[g].cnt \notin known' /\ req[g].cnt \notin labels'
      BY <3>1, <3>3
    <3>5. \A g \in Handlers \ {h} : req[g].at \in Making => req'[h].cnt # req[g].cnt
      BY <3>1, <3>2, <3>3
    <3>6. ASSUME NEW g \in Handlers, req'[g].at \in Making
          PROVE  /\ g # h
                 /\ req'[g].cnt \notin known' /\ req'[g].cnt \notin labels'
                 /\ \A f \in Handlers \ {g} : req'[f].cnt # req'[g].cnt
      <4>1. g # h /\ req'[g] = req[g] /\ req[g].at \in Making
        BY <3>1, <3>6
      <4>2. \A f \in Handlers \ {g, h} : req'[f].cnt # req'[g].cnt
        BY <3>1, <4>1
      <4>3. QED
        BY <3>4, <3>5, <4>1, <4>2
    <3>7. QED
      BY <3>6
  <2>2. Drawn'
    BY <1>6 DEF CreateUpdate
  <2>3. Nested'
    BY <1>6 DEF CreateUpdate
  <2>4. DirProgress'
    BY <1>6 DEF CreateUpdate
  <2>5. ContainerHasDir'
    BY <1>6 DEF CreateUpdate
  <2>6. RemovedIsGone'
    BY <1>6 DEF CreateUpdate
  <2>7. QED
    BY <2>1, <2>2, <2>3, <2>4, <2>5, <2>6
<1>7. ASSUME NEW h \in Handlers, CreateAbort(h) PROVE IInv'
  BY <1>7 DEF CreateAbort, DestroyOuter
<1>8. ASSUME NEW h \in Handlers, CreateReply(h) PROVE IInv'
  BY <1>8 DEF CreateReply
<1>9. ASSUME NEW h \in Handlers, StartContainer(h) PROVE IInv'
  BY <1>9 DEF StartContainer, Begin
<1>10. ASSUME NEW h \in Handlers, StartName(h) PROVE IInv'
  BY <1>10 DEF StartName, Resolve
<1>11. ASSUME NEW h \in Handlers, StartStart(h) PROVE IInv'
  <2>1. \A g \in Handlers \ {h} : req'[g] = req[g]
    BY <1>11 DEF StartStart, CanStart, StateOf, SetState, startRest
  <2>2. \/ req'[h] = Idle
        \/ /\ req[h].at # "idle"
           /\ req'[h].cnt = req[h].cnt
           /\ req'[h].at \in Making => req[h].at \in Making
           /\ req[h].at \in CreateSteps => req'[h].at \in CreateSteps
    BY <1>11 DEF StartStart, CanStart, StateOf, SetState, startRest
  <2>3. known' = known /\ used' = used /\ removed' = removed /\ labels' \subseteq labels
    BY <1>11 DEF StartStart, CanStart, StateOf, SetState, startRest
  <2>4. MakingAlone' /\ Drawn'
    BY <2>1, <2>2, <2>3, RequestKept
  <2>5. Nested'
    BY <1>11 DEF StartStart, CanStart, StateOf, SetState, startRest
  <2>6. DirProgress'
    BY <1>11 DEF StartStart, CanStart, StateOf, SetState, startRest
  <2>7. ContainerHasDir'
    BY <1>11 DEF StartStart, CanStart, StateOf, SetState, startRest
  <2>8. RemovedIsGone'
    BY <1>11 DEF StartStart, CanStart, StateOf, SetState, startRest
  <2>9. QED
    BY <2>4, <2>5, <2>6, <2>7, <2>8
<1>12. ASSUME NEW h \in Handlers, StartGetLabels(h) PROVE IInv'
  BY <1>12 DEF StartGetLabels, StartSucceeds, AnswerLost, startRest
<1>13. ASSUME NEW h \in Handlers, PrivState(h) PROVE IInv'
  <2>1. \A g \in Handlers \ {h} : req'[g] = req[g]
    BY <1>13 DEF PrivState, StartSucceeds, AnswerLost, startRest
  <2>2. \/ req'[h] = Idle
        \/ /\ req[h].at # "idle"
           /\ req'[h].cnt = req[h].cnt
           /\ req'[h].at \in Making => req[h].at \in Making
           /\ req[h].at \in CreateSteps => req'[h].at \in CreateSteps
    BY <1>13 DEF PrivState, StartSucceeds, AnswerLost, startRest
  <2>3. known' = known /\ used' = used /\ removed' = removed /\ labels' \subseteq labels
    BY <1>13 DEF PrivState, StartSucceeds, AnswerLost, startRest
  <2>4. MakingAlone' /\ Drawn'
    BY <2>1, <2>2, <2>3, RequestKept
  <2>5. Nested'
    BY <1>13 DEF PrivState, StartSucceeds, AnswerLost, startRest
  <2>6. DirProgress'
    BY <1>13 DEF PrivState, StartSucceeds, AnswerLost, startRest
  <2>7. ContainerHasDir'
    BY <1>13 DEF PrivState, StartSucceeds, AnswerLost, startRest
  <2>8. RemovedIsGone'
    BY <1>13 DEF PrivState, StartSucceeds, AnswerLost, startRest
  <2>9. QED
    BY <2>4, <2>5, <2>6, <2>7, <2>8
<1>14. ASSUME NEW h \in Handlers, PrivCreate(h) PROVE IInv'
  <2>1. \A g \in Handlers \ {h} : req'[g] = req[g]
    BY <1>14 DEF PrivCreate, SetState, startRest
  <2>2. \/ req'[h] = Idle
        \/ /\ req[h].at # "idle"
           /\ req'[h].cnt = req[h].cnt
           /\ req'[h].at \in Making => req[h].at \in Making
           /\ req[h].at \in CreateSteps => req'[h].at \in CreateSteps
    BY <1>14 DEF PrivCreate, SetState, startRest
  <2>3. known' = known /\ used' = used /\ removed' = removed /\ labels' \subseteq labels
    BY <1>14 DEF PrivCreate, SetState, startRest
  <2>4. MakingAlone' /\ Drawn'
    BY <2>1, <2>2, <2>3, RequestKept
  <2>5. Nested'
    BY <1>14 DEF PrivCreate, SetState, startRest
  <2>6. DirProgress'
    BY <1>14 DEF PrivCreate, SetState, startRest
  <2>7. ContainerHasDir'
    BY <1>14 DEF PrivCreate, SetState, startRest
  <2>8. RemovedIsGone'
    BY <1>14 DEF PrivCreate, SetState, startRest
  <2>9. QED
    BY <2>4, <2>5, <2>6, <2>7, <2>8
<1>15. ASSUME NEW h \in Handlers, PrivEnv(h) PROVE IInv'
  BY <1>15 DEF PrivEnv, startRest
<1>16. ASSUME NEW h \in Handlers, PrivStart(h) PROVE IInv'
  <2>1. \A g \in Handlers \ {h} : req'[g] = req[g]
    BY <1>16 DEF PrivStart, CanStart, StateOf, SetState, StartSucceeds, AnswerLost,
                startRest
  <2>2. \/ req'[h] = Idle
        \/ /\ req[h].at # "idle"
           /\ req'[h].cnt = req[h].cnt
           /\ req'[h].at \in Making => req[h].at \in Making
           /\ req[h].at \in CreateSteps => req'[h].at \in CreateSteps
    BY <1>16 DEF PrivStart, CanStart, StateOf, SetState, StartSucceeds, AnswerLost,
                startRest
  <2>3. known' = known /\ used' = used /\ removed' = removed /\ labels' \subseteq labels
    BY <1>16 DEF PrivStart, CanStart, StateOf, SetState, StartSucceeds, AnswerLost,
                startRest
  <2>4. MakingAlone' /\ Drawn'
    BY <2>1, <2>2, <2>3, RequestKept
  <2>5. Nested'
    BY <1>16 DEF PrivStart, CanStart, StateOf, SetState, StartSucceeds, AnswerLost,
                startRest
  <2>6. DirProgress'
    BY <1>16 DEF PrivStart, CanStart, StateOf, SetState, StartSucceeds, AnswerLost,
                startRest
  <2>7. ContainerHasDir'
    BY <1>16 DEF PrivStart, CanStart, StateOf, SetState, StartSucceeds, AnswerLost,
                startRest
  <2>8. RemovedIsGone'
    BY <1>16 DEF PrivStart, CanStart, StateOf, SetState, StartSucceeds, AnswerLost,
                startRest
  <2>9. QED
    BY <2>4, <2>5, <2>6, <2>7, <2>8
<1>17. ASSUME NEW h \in Handlers, StopContainer(h) PROVE IInv'
  BY <1>17 DEF StopContainer, Begin
<1>18. ASSUME NEW h \in Handlers, StopName(h) PROVE IInv'
  <2>1. \A g \in Handlers \ {h} : req'[g] = req[g]
    BY <1>18 DEF StopName, Resolve
  <2>2. \/ req'[h] = Idle
        \/ /\ req[h].at # "idle"
           /\ req'[h].cnt = req[h].cnt
           /\ req'[h].at \in Making => req[h].at \in Making
           /\ req[h].at \in CreateSteps => req'[h].at \in CreateSteps
    BY <1>18 DEF StopName, Resolve
  <2>3. known' = known /\ used' = used /\ removed' = removed /\ labels' \subseteq labels
    BY <1>18 DEF StopName, Resolve
  <2>4. MakingAlone' /\ Drawn'
    BY <2>1, <2>2, <2>3, RequestKept
  <2>5. Nested'
    BY <1>18 DEF StopName, Resolve
  <2>6. DirProgress'
    BY <1>18 DEF StopName, Resolve
  <2>7. ContainerHasDir'
    BY <1>18 DEF StopName, Resolve
  <2>8. RemovedIsGone'
    BY <1>18 DEF StopName, Resolve
  <2>9. QED
    BY <2>4, <2>5, <2>6, <2>7, <2>8
<1>19. ASSUME NEW h \in Handlers, StopGetState(h) PROVE IInv'
  BY <1>19 DEF StopGetState
<1>20. ASSUME NEW h \in Handlers, StopKill(h) PROVE IInv'
  BY <1>20 DEF StopKill, Ends, StateOf
<1>21. ASSUME NEW h \in Handlers, ContainerStatus(h) PROVE IInv'
  BY <1>21 DEF ContainerStatus, Begin
<1>22. ASSUME NEW h \in Handlers, StatusName(h) PROVE IInv'
  <2>1. \A g \in Handlers \ {h} : req'[g] = req[g]
    BY <1>22 DEF StatusName, Resolve
  <2>2. \/ req'[h] = Idle
        \/ /\ req[h].at # "idle"
           /\ req'[h].cnt = req[h].cnt
           /\ req'[h].at \in Making => req[h].at \in Making
           /\ req[h].at \in CreateSteps => req'[h].at \in CreateSteps
    BY <1>22 DEF StatusName, Resolve
  <2>3. known' = known /\ used' = used /\ removed' = removed /\ labels' \subseteq labels
    BY <1>22 DEF StatusName, Resolve
  <2>4. MakingAlone' /\ Drawn'
    BY <2>1, <2>2, <2>3, RequestKept
  <2>5. Nested'
    BY <1>22 DEF StatusName, Resolve
  <2>6. DirProgress'
    BY <1>22 DEF StatusName, Resolve
  <2>7. ContainerHasDir'
    BY <1>22 DEF StatusName, Resolve
  <2>8. RemovedIsGone'
    BY <1>22 DEF StatusName, Resolve
  <2>9. QED
    BY <2>4, <2>5, <2>6, <2>7, <2>8
<1>23. ASSUME NEW h \in Handlers, StatusGetProps(h) PROVE IInv'
  <2>1. \A g \in Handlers \ {h} : req'[g] = req[g]
    BY <1>23 DEF StatusGetProps, StateOf, IsOver
  <2>2. \/ req'[h] = Idle
        \/ /\ req[h].at # "idle"
           /\ req'[h].cnt = req[h].cnt
           /\ req'[h].at \in Making => req[h].at \in Making
           /\ req[h].at \in CreateSteps => req'[h].at \in CreateSteps
    BY <1>23 DEF StatusGetProps, StateOf, IsOver
  <2>3. known' = known /\ used' = used /\ removed' = removed /\ labels' \subseteq labels
    BY <1>23 DEF StatusGetProps, StateOf, IsOver
  <2>4. MakingAlone' /\ Drawn'
    BY <2>1, <2>2, <2>3, RequestKept
  <2>5. Nested'
    BY <1>23 DEF StatusGetProps, StateOf, IsOver
  <2>6. DirProgress'
    BY <1>23 DEF StatusGetProps, StateOf, IsOver
  <2>7. ContainerHasDir'
    BY <1>23 DEF StatusGetProps, StateOf, IsOver
  <2>8. RemovedIsGone'
    BY <1>23 DEF StatusGetProps, StateOf, IsOver
  <2>9. QED
    BY <2>4, <2>5, <2>6, <2>7, <2>8
<1>24. ASSUME NEW h \in Handlers, StatusParentLabels(h) PROVE IInv'
  <2>1. \A g \in Handlers \ {h} : req'[g] = req[g]
    BY <1>24 DEF StatusParentLabels, IsOver
  <2>2. \/ req'[h] = Idle
        \/ /\ req[h].at # "idle"
           /\ req'[h].cnt = req[h].cnt
           /\ req'[h].at \in Making => req[h].at \in Making
           /\ req[h].at \in CreateSteps => req'[h].at \in CreateSteps
    BY <1>24 DEF StatusParentLabels, IsOver
  <2>3. known' = known /\ used' = used /\ removed' = removed /\ labels' \subseteq labels
    BY <1>24 DEF StatusParentLabels, IsOver
  <2>4. MakingAlone' /\ Drawn'
    BY <2>1, <2>2, <2>3, RequestKept
  <2>5. Nested'
    BY <1>24 DEF StatusParentLabels, IsOver
  <2>6. DirProgress'
    BY <1>24 DEF StatusParentLabels, IsOver
  <2>7. ContainerHasDir'
    BY <1>24 DEF StatusParentLabels, IsOver
  <2>8. RemovedIsGone'
    BY <1>24 DEF StatusParentLabels, IsOver
  <2>9. QED
    BY <2>4, <2>5, <2>6, <2>7, <2>8
<1>25. ASSUME NEW h \in Handlers, StatusReap(h) PROVE IInv'
  <2>1. \A g \in Handlers \ {h} : req'[g] = req[g]
    BY <1>25 DEF StatusReap, DestroyOuter
  <2>2. \/ req'[h] = Idle
        \/ /\ req[h].at # "idle"
           /\ req'[h].cnt = req[h].cnt
           /\ req'[h].at \in Making => req[h].at \in Making
           /\ req[h].at \in CreateSteps => req'[h].at \in CreateSteps
    BY <1>25 DEF StatusReap, DestroyOuter
  <2>3. known' = known /\ used' = used /\ removed' = removed /\ labels' \subseteq labels
    BY <1>25 DEF StatusReap, DestroyOuter
  <2>4. MakingAlone' /\ Drawn'
    BY <2>1, <2>2, <2>3, RequestKept
  <2>5. Nested'
    BY <1>25 DEF StatusReap, DestroyOuter
  <2>6. DirProgress'
    BY <1>25 DEF StatusReap, DestroyOuter
  <2>7. ContainerHasDir'
    BY <1>25 DEF StatusReap, DestroyOuter
  <2>8. RemovedIsGone'
    BY <1>25 DEF StatusReap, DestroyOuter
  <2>9. QED
    BY <2>4, <2>5, <2>6, <2>7, <2>8
<1>26. ASSUME NEW h \in Handlers, StatusReply(h) PROVE IInv'
  BY <1>26 DEF StatusReply
<1>27. ASSUME NEW h \in Handlers, RemoveContainer(h) PROVE IInv'
  BY <1>27 DEF RemoveContainer, Begin
<1>28. ASSUME NEW h \in Handlers, RemoveDestroy(h) PROVE IInv'
  BY <1>28, SMTT(20) DEF RemoveDestroy, DestroyOuter
<1>29. ASSUME NEW h \in Handlers, RemoveDir(h) PROVE IInv'
  BY <1>29 DEF RemoveDir
<1>30. ASSUME NEW c \in Cnts, ProcessExits(c) PROVE IInv'
  BY <1>30 DEF ProcessExits, Ends, StateOf, Names
<1>31. CASE ListContainers
  BY <1>31 DEF ListContainers, Listed
<1>32. CASE PodDestroyed
  BY <1>32 DEF PodDestroyed
<1>33. CASE PodDirRemoved
  BY <1>33 DEF PodDirRemoved
<1>34. CASE Crash
  BY <1>34 DEF Crash
<1>35. CASE UNCHANGED vars
  BY <1>35 DEF vars
<1>36. ASSUME NEW h \in Handlers, PrivGetEnv(h) PROVE IInv'
  BY <1>36 DEF PrivGetEnv, startRest
<1>37. CASE PodStopped
  BY <1>37 DEF PodStopped
<1>38. QED
  BY <1>1, <1>2, <1>3, <1>4, <1>5, <1>6, <1>7, <1>8, <1>9, <1>10, <1>11, <1>12,
     <1>13, <1>14, <1>15, <1>16, <1>17, <1>18, <1>19, <1>20, <1>21, <1>22, <1>23, <1>24,
     <1>25, <1>26, <1>27, <1>28, <1>29, <1>30, <1>31, <1>32, <1>33, <1>34, <1>35, <1>36,
     <1>37
     DEF Next, Request, CreateStep, StartStep, StopStep, StatusStep, RemoveStep

\* The invariant of the directories and names holds in every reachable state.
THEOREM IInvHolds == Spec => []IInv
<1>1. IInv /\ TypeOK' /\ [Next]_vars => IInv'
  BY StepIInv
<1>2. QED
  BY <1>1, InitIInv, TypeCorrect, PTL DEF Spec

\* The kubelet never knows of a container in the making.
THEOREM KnownComplete == Spec => []KnownIsComplete
<1>1. IInv => KnownIsComplete
  BY DEF IInv, MakingAlone, Making, KnownIsComplete
<1>2. QED
  BY <1>1, IInvHolds, PTL

\* Nothing is left, and nothing comes back, of a container RemoveContainer
\* reported success for.
THEOREM RemovedForGood == Spec => []RemovedIsGone
<1>1. IInv => RemovedIsGone
  BY DEF IInv
<1>2. QED
  BY <1>1, IInvHolds, PTL

\* A container porto has keeps its directory.
THEOREM DirWhileContainer == Spec => []ContainerHasDir
<1>1. IInv => ContainerHasDir
  BY DEF IInv
<1>2. QED
  BY <1>1, IInvHolds, PTL

-----------------------------------------------------------------------------
(* The life of a container *)

\* The handlers that have started pod/c for StartContainer and are about to ask
\* whether it is privileged, or are making its child.
MakingChild == {"privState", "privCreate", "privGetEnv", "privEnv", "privStart"}

PastStart(h) ==
  \/ req[h].at \in MakingChild
  \/ req[h].at = "getLabels" /\ req[h].name = "outer"

\* A child belongs to a privileged container and runs in a running parent; what the
\* kubelet can ask for has its labels.  Until the pod is stopped, a container with a
\* child has been started.
LifeOf(c) ==
  /\ outer[c] # "absent" => c \in used
  /\ child[c] # "absent" => c \in priv
  /\ child[c] = "running" => outer[c] = "running"
  /\ outer[c] = "stopped" => child[c] \in {"absent", "stopped"}
  /\ c \in known /\ outer[c] # "absent" => c \in labels
  /\ pod = "up" /\ outer[c] = "stopped" => child[c] = "absent"

\* What a handler may rely on in its container: until the pod is stopped, what it read
\* is still so, or the container is gone.
MakerSees(h) ==
  LET c == req[h].cnt IN
  /\ req[h].at \in {"mkdir", "sandbox", "create"} => outer[c] = "absent"
  /\ req[h].at = "created" => outer[c] = "absent" \/ c \in labels

StarterSees(h) ==
  LET c == req[h].cnt IN
  /\ req[h].at \in MakingChild => c \in priv
  /\ pod = "up" =>
       /\ PastStart(h) => outer[c] # "stopped"
       /\ PastStart(h) /\ req[h].at \notin {"privGetEnv", "privEnv", "privStart"} =>
            child[c] = "absent"
       /\ req[h].at = "getLabels" /\ req[h].name = "child" =>
            outer[c] = "absent" \/ child[c] \in {"running", "dead"}

StatusSees(h) ==
  LET r == req[h] IN
  /\ r.at = "parentLabels" => r.name = "child"
  /\ r.at = "reap" => r.saw = "dead"
  /\ pod = "up" /\ r.at \in {"parentLabels", "reap"} /\ r.saw = "dead" =>
       outer[r.cnt] = "absent" \/ StateOf(r.name, r.cnt) = "dead"

Sees(h) == MakerSees(h) /\ StarterSees(h) /\ StatusSees(h)

\* pod/c is started once: two requests never make its child.
OneStarts ==
  pod = "up" => \A g, h \in Handlers :
    g # h /\ PastStart(g) /\ PastStart(h) => req[g].cnt # req[h].cnt

\* A container StartContainer has answered for.
HasRun(c) ==
  outer[c] # "absent" =>
    /\ StateOf(IF c \in priv THEN "child" ELSE "outer", c) \in {"running", "dead"}
    /\ Listed(c)

LifeInv ==
  /\ started \subseteq known
  /\ \A c \in Cnts : LifeOf(c)
  /\ \A h \in Handlers : Sees(h)
  /\ OneStarts
  /\ pod = "up" => \A c \in started \ (unread \cap priv) : HasRun(c)

\* What one step may do to pod/c and its child.
PortoStep(c) ==
  \/ outer'[c] = outer[c] /\ child'[c] = child[c]
  \/ outer'[c] = "absent" /\ child'[c] = "absent"
  \/ /\ outer[c] = "absent" /\ outer'[c] = "stopped" /\ child'[c] = child[c]
     /\ \E h \in Handlers : req[h].at = "create" /\ req'[h].at # "create" /\ req[h].cnt = c
  \/ outer[c] = "stopped" /\ outer'[c] = "running" /\ child'[c] = child[c]
  \/ /\ outer[c] = "running" /\ outer'[c] = "dead"
     /\ child'[c] = IF child[c] = "running" THEN "dead" ELSE child[c]
  \/ outer'[c] = outer[c] /\ child[c] = "running" /\ child'[c] = "dead"
  \/ /\ outer'[c] = outer[c] /\ outer[c] # "absent"
     /\ child[c] = "absent" /\ child'[c] = "stopped"
     /\ \E h \in Handlers :
          req[h].at = "privCreate" /\ req'[h].at # "privCreate" /\ req[h].cnt = c
  \/ /\ outer'[c] = outer[c] /\ outer[c] = "running"
     /\ child[c] = "stopped" /\ child'[c] = "running"

\* Ids are drawn fresh, and what is known of a container is not forgotten; a pod that
\* was stopped does not come up again.
IdsKept ==
  /\ priv \subseteq priv' /\ (priv' \ priv) \cap used = {}
  /\ used \subseteq used' /\ known \subseteq known' /\ unread \subseteq unread'
  /\ pod' = "up" => pod = "up"

\* Labels go with the container, and the kubelet learns of no container without them.
Frame ==
  /\ \A c \in Cnts : PortoStep(c)
  /\ \A c \in labels : outer'[c] = "absent" \/ c \in labels'
  /\ \A c \in known' \ known : outer'[c] = "absent" \/ c \in labels'
  /\ IdsKept

\* What a handler's step does for itself.
Advances(h) ==
  /\ \A g \in Handlers \ {h} : req'[g] = req[g]
  /\ Sees(h)'
  /\ pod = "up" /\ PastStart(h)' => \/ outer[req'[h].cnt] = "stopped"
                                    \/ PastStart(h) /\ req'[h].cnt = req[h].cnt
  /\ \A c \in started' \ started :
       c \in known' /\ (pod = "up" /\ c \notin unread' \cap priv' => HasRun(c)')

\* A step that leaves porto and what the kubelet knows of alone.
LEMMA QuietFrame ==
  ASSUME UNCHANGED <<portoVars, used, priv, known>>, unread \subseteq unread'
  PROVE  Frame
<1>1. outer' = outer /\ child' = child /\ labels' = labels /\ pod' = pod
  BY DEF portoVars
<1>2. QED
  BY <1>1 DEF Frame, PortoStep, IdsKept

\* The life of a container goes on as it should.
LEMMA LifeKept ==
  ASSUME IInv, LifeInv, TypeOK', Frame, NEW c \in Cnts
  PROVE  LifeOf(c)'
<1>1. LifeOf(c) /\ PortoStep(c) /\ IdsKept
  BY DEF LifeInv, Frame
<1>2. /\ outer'[c] = "absent" \/ (c \in labels => c \in labels')
      /\ c \in known' => c \in known \/ outer'[c] = "absent" \/ c \in labels'
  BY DEF Frame
<1>3. ASSUME NEW h \in Handlers, req[h].at = "create", req[h].cnt = c
      PROVE  c \in used /\ c \notin known
  BY <1>3 DEF IInv, MakingAlone, Making, CreateSteps, Drawn
<1>4. ASSUME NEW h \in Handlers, req[h].at = "privCreate", req[h].cnt = c
      PROVE  c \in priv /\ (pod = "up" => outer[c] # "stopped")
  BY <1>4 DEF LifeInv, Sees, StarterSees, PastStart, MakingChild
<1>5. outer'[c] # "absent" => c \in used'
  BY <1>1, <1>3 DEF LifeOf, PortoStep, IdsKept
<1>6. child'[c] # "absent" => c \in priv'
  BY <1>1, <1>4 DEF LifeOf, PortoStep, IdsKept
<1>7. child'[c] = "running" => outer'[c] = "running"
  BY <1>1 DEF LifeOf, PortoStep
<1>8. /\ outer'[c] = "stopped" => child'[c] \in {"absent", "stopped"}
      /\ pod' = "up" /\ outer'[c] = "stopped" => child'[c] = "absent"
  BY <1>1, <1>4 DEF LifeOf, PortoStep, IdsKept, IInv, Nested
<1>9. c \in known' /\ outer'[c] # "absent" => c \in labels'
  BY <1>1, <1>2, <1>3 DEF LifeOf, PortoStep
<1>10. QED
  BY <1>5, <1>6, <1>7, <1>8, <1>9 DEF LifeOf

\* What a handler relies on does not change behind its back.
LEMMA SeesKept ==
  ASSUME IInv, LifeInv, Frame, NEW g \in Handlers, req'[g] = req[g]
  PROVE  Sees(g)'
<1>1. CASE req[g].at = "idle"
  BY <1>1 DEF Sees, MakerSees, StarterSees, StatusSees, PastStart, MakingChild
<1>2. CASE req[g].at # "idle"
  <2> DEFINE c == req[g].cnt
  <2>1. c \in Cnts
    BY <1>2 DEF IInv, TypeOK, Requests
  <2>2. /\ PortoStep(c) /\ LifeOf(c) /\ Sees(g) /\ (c \in priv => c \in priv')
        /\ pod' = "up" => pod = "up"
    BY <2>1 DEF LifeInv, Frame, IdsKept
  <2>3. outer'[c] = "absent" \/ (c \in labels => c \in labels')
    BY DEF Frame
  <2>4. ASSUME NEW h \in Handlers, req[h].at = "create", req'[h].at # "create", req[h].cnt = c
        PROVE  req[g].at \in {"idle"}
    BY <2>4 DEF IInv, MakingAlone, Making, CreateSteps
  <2>5. ASSUME NEW h \in Handlers, req[h].at = "privCreate", req'[h].at # "privCreate",
               req[h].cnt = c
        PROVE  ~PastStart(g) \/ pod # "up"
    BY <2>5 DEF LifeInv, OneStarts, PastStart, MakingChild
  <2>6. PastStart(g)' <=> PastStart(g)
    BY DEF PastStart
  <2>7. MakerSees(g)'
    BY <1>2, <2>2, <2>3, <2>4 DEF Sees, MakerSees, PortoStep
  <2>8. StarterSees(g)'
    BY <1>2, <2>2, <2>4, <2>5, <2>6 DEF Sees, StarterSees, PortoStep, LifeOf
  <2>9. StatusSees(g)'
    BY <1>2, <2>2, <2>4 DEF Sees, StatusSees, PortoStep, LifeOf, StateOf
  <2>10. QED
    BY <2>7, <2>8, <2>9 DEF Sees
<1>3. QED
  BY <1>1, <1>2

\* A container that has been started stays so until it is gone.
LEMMA HasRunKept ==
  ASSUME IInv, LifeInv, Frame, NEW c \in started, HasRun(c)
  PROVE  HasRun(c)'
<1>1. c \in Cnts /\ c \in known /\ c \in used
  BY DEF IInv, TypeOK, LifeInv, Drawn
<1>2. PortoStep(c) /\ LifeOf(c)
  BY <1>1 DEF LifeInv, Frame
<1>3. (c \in priv' <=> c \in priv) /\ (outer'[c] = "absent" \/ (c \in labels => c \in labels'))
  BY <1>1 DEF Frame, IdsKept
<1>4. ~\E h \in Handlers : req[h].at = "create" /\ req[h].cnt = c
  BY <1>1 DEF IInv, MakingAlone, Making, CreateSteps
<1>5. QED
  BY <1>2, <1>3, <1>4 DEF HasRun, Listed, StateOf, PortoStep, LifeOf

\* A step of the environment: it changes no request, or ends them all.
LEMMA EnvironmentKeeps ==
  ASSUME IInv, TypeOK', LifeInv, Frame, started' = started,
         \A h \in Handlers : req'[h] = req[h] \/ req'[h] = Idle
  PROVE  LifeInv'
<1>1. started' \subseteq known'
  BY DEF LifeInv, Frame, IdsKept
<1>2. \A c \in Cnts : LifeOf(c)'
  BY LifeKept
<1>3. ASSUME NEW h \in Handlers
      PROVE  Sees(h)' /\ (PastStart(h)' => req'[h] = req[h] /\ PastStart(h))
  <2>1. CASE req'[h] = req[h]
    BY <2>1, SeesKept DEF PastStart
  <2>2. CASE req'[h] = Idle
    BY <2>2 DEF Idle, Sees, MakerSees, StarterSees, StatusSees, PastStart, MakingChild
  <2>3. QED
    BY <2>1, <2>2
<1>4. OneStarts'
  BY <1>3 DEF OneStarts, LifeInv, Frame, IdsKept
<1>5. pod' = "up" => \A c \in started' \ (unread' \cap priv') : HasRun(c)'
  BY HasRunKept DEF LifeInv, Frame, IdsKept
<1>6. QED
  BY <1>1, <1>2, <1>3, <1>4, <1>5 DEF LifeInv

\* A step of one handler.
LEMMA HandlerKeeps ==
  ASSUME IInv, TypeOK', LifeInv, Frame, NEW h \in Handlers, Advances(h)
  PROVE  LifeInv'
<1>1. started' \subseteq known'
  BY DEF LifeInv, Frame, IdsKept, Advances
<1>2. \A c \in Cnts : LifeOf(c)'
  BY LifeKept
<1>3. \A g \in Handlers : Sees(g)'
  BY SeesKept DEF Advances
<1>4. OneStarts'
  <2> SUFFICES ASSUME pod' = "up" PROVE OneStarts'
    BY DEF OneStarts
  <2>0. pod = "up"
    BY DEF Frame, IdsKept
  <2>1. ASSUME NEW g \in Handlers \ {h}, PastStart(g)', PastStart(h)'
        PROVE  req'[g].cnt # req'[h].cnt
    <3>1. PastStart(g) /\ req'[g].cnt = req[g].cnt
      BY <2>1 DEF Advances, PastStart
    <3>2. outer[req[g].cnt] # "stopped"
      BY <2>0, <3>1 DEF LifeInv, Sees, StarterSees
    <3>3. PastStart(h) => req[g].cnt # req[h].cnt
      BY <2>0, <3>1 DEF LifeInv, OneStarts
    <3>4. QED
      BY <2>0, <2>1, <3>1, <3>2, <3>3 DEF Advances
  <2>2. ASSUME NEW f \in Handlers \ {h}, NEW g \in Handlers \ {h}, f # g,
               PastStart(f)', PastStart(g)'
        PROVE  req'[f].cnt # req'[g].cnt
    BY <2>0, <2>2 DEF LifeInv, OneStarts, Advances, PastStart
  <2>3. QED
    BY <2>1, <2>2 DEF OneStarts
<1>5. pod' = "up" => \A c \in started' \ (unread' \cap priv') : HasRun(c)'
  <2>1. ASSUME pod' = "up", NEW c \in started' \ (unread' \cap priv') PROVE HasRun(c)'
    <3>1. CASE c \in started
      BY <2>1, <3>1, HasRunKept DEF LifeInv, Frame, IdsKept
    <3>2. CASE c \notin started
      BY <2>1, <3>2 DEF Advances, Frame, IdsKept
    <3>3. QED
      BY <3>1, <3>2
  <2>2. QED
    BY <2>1
<1>6. QED
  BY <1>1, <1>2, <1>3, <1>4, <1>5 DEF LifeInv

\* A handler that has nothing to do relies on nothing.
LEMMA IdleSees ==
  ASSUME NEW h \in Handlers, req'[h] = Idle
  PROVE  Sees(h)' /\ ~PastStart(h)'
BY DEF Idle, Sees, MakerSees, StarterSees, StatusSees, PastStart, MakingChild

\* Every step keeps LifeInv.
LEMMA StepLife == ASSUME IInv, TypeOK', LifeInv, [Next]_vars PROVE LifeInv'
<1> USE NoCntAssumption, BoundAssumption DEF Goto, Return, Idle
<1>0. /\ req \in [Handlers -> Requests] /\ outer \in [Cnts -> PortoStates]
      /\ child \in [Cnts -> PortoStates]
      /\ \A h \in Handlers : req[h].at # "idle" => req[h].cnt \in Cnts
      /\ faults \in Nat
  BY DEF IInv, TypeOK, Requests
<1>a. labels \subseteq Cnts /\ known \subseteq Cnts
  BY DEF IInv, TypeOK
<1>1. ASSUME NEW h \in Handlers, CreateContainer(h) PROVE LifeInv'
  <2>1. Frame
    BY <1>0, <1>1
       DEF CreateContainer, Frame, PortoStep, IdsKept, portoVars, kubeletVars,
           historyVars, LifeInv, LifeOf, Sees, MakerSees, StarterSees, StatusSees, PastStart,
           MakingChild
  <2>2. Advances(h)
    BY <1>0, <1>1
       DEF CreateContainer, Advances, LifeInv, LifeOf, Sees, MakerSees, StarterSees,
           StatusSees, PastStart, MakingChild, StateOf, portoVars, kubeletVars, Requests
  <2>3. QED
    BY <2>1, <2>2, HandlerKeeps
<1>2. ASSUME NEW h \in Handlers, CreateMkdir(h) PROVE LifeInv'
  <2>1. Frame
    BY <1>2, QuietFrame DEF CreateMkdir, portoVars, kubeletVars, historyVars
  <2>2. \A g \in Handlers \ {h} : req'[g] = req[g]
    BY <1>0, <1>2 DEF CreateMkdir
  <2>3. started' = started /\ outer' = outer
    BY <1>2 DEF CreateMkdir, kubeletVars, portoVars
  <2>4. Sees(h)' /\ ~PastStart(h)'
    <3>1. CASE req'[h] = Idle
      BY <3>1, IdleSees
    <3>2. CASE req'[h] = [req[h] EXCEPT !.at = "sandbox"]
      <4>1. req'[h].at = "sandbox" /\ req'[h].cnt = req[h].cnt
        BY <1>0, <3>2 DEF Requests
      <4>2. outer[req[h].cnt] = "absent"
        BY <1>2 DEF CreateMkdir, LifeInv, Sees, MakerSees
      <4>3. QED
        BY <2>3, <4>1, <4>2
           DEF Sees, MakerSees, StarterSees, StatusSees, PastStart, MakingChild
    <3>3. QED
      BY <1>0, <1>2, <3>1, <3>2 DEF CreateMkdir
  <2>5. QED
    BY <2>1, <2>2, <2>3, <2>4, HandlerKeeps DEF Advances
<1>3. ASSUME NEW h \in Handlers, CreateSandboxDevices(h) PROVE LifeInv'
  <2>1. Frame
    BY <1>3, QuietFrame DEF CreateSandboxDevices, portoVars, kubeletVars, historyVars
  <2>2. \A g \in Handlers \ {h} : req'[g] = req[g]
    BY <1>0, <1>3 DEF CreateSandboxDevices
  <2>3. started' = started /\ outer' = outer
    BY <1>3 DEF CreateSandboxDevices, kubeletVars, portoVars
  <2>4. Sees(h)' /\ ~PastStart(h)'
    <3>1. CASE req'[h] = Idle
      BY <3>1, IdleSees
    <3>2. CASE req'[h] = [req[h] EXCEPT !.at = "create"]
      <4>1. req'[h].at = "create" /\ req'[h].cnt = req[h].cnt
        BY <1>0, <3>2 DEF Requests
      <4>2. outer[req[h].cnt] = "absent"
        BY <1>3 DEF CreateSandboxDevices, LifeInv, Sees, MakerSees
      <4>3. QED
        BY <2>3, <4>1, <4>2
           DEF Sees, MakerSees, StarterSees, StatusSees, PastStart, MakingChild
    <3>3. QED
      BY <1>0, <1>3, <3>1, <3>2 DEF CreateSandboxDevices
  <2>5. QED
    BY <2>1, <2>2, <2>3, <2>4, HandlerKeeps DEF Advances
<1>4. ASSUME NEW h \in Handlers, CreateFromSpec(h) PROVE LifeInv'
  <2> DEFINE c == req[h].cnt
  <2>1. req[h].at = "create" /\ c \in Cnts /\ outer[c] = "absent"
    BY <1>0, <1>4 DEF CreateFromSpec, LifeInv, Sees, MakerSees
  <2>2. /\ child' = child /\ labels' = labels
        /\ UNCHANGED <<kubeletVars, historyVars, pod>>
        /\ \A g \in Handlers \ {h} : req'[g] = req[g]
        /\ outer' = outer \/ outer' = [outer EXCEPT ![c] = "stopped"]
        /\ req'[h] = Idle \/ req'[h] = [req[h] EXCEPT !.at = "prepare"]
    BY <1>0, <1>4 DEF CreateFromSpec, Make, SetState, portoVars
  <2>3. req'[h] = Idle \/ (req'[h].at = "prepare" /\ req'[h].cnt = c)
    BY <1>0, <2>2 DEF Requests
  <2>4. \A d \in Cnts : PortoStep(d)
    <3>1. ASSUME NEW d \in Cnts, d # c PROVE PortoStep(d)
      BY <1>0, <2>1, <2>2, <3>1 DEF PortoStep
    <3>2. PortoStep(c)
      BY <1>0, <2>1, <2>2, <2>3 DEF PortoStep
    <3>3. QED
      BY <3>1, <3>2
  <2>5. Frame
    BY <1>0, <2>2, <2>4 DEF Frame, IdsKept, kubeletVars, historyVars
  <2>6. Sees(h)' /\ ~PastStart(h)'
    BY <2>3, IdleSees DEF Sees, MakerSees, StarterSees, StatusSees, PastStart, MakingChild
  <2>7. QED
    BY <2>2, <2>5, <2>6, HandlerKeeps DEF Advances, kubeletVars
<1>5. ASSUME NEW h \in Handlers, CreatePrepare(h) PROVE LifeInv'
  <2>1. Frame
    BY <1>5, QuietFrame DEF CreatePrepare, portoVars, kubeletVars, historyVars
  <2>2. Advances(h)
    BY <1>0, <1>5
       DEF CreatePrepare, Advances, LifeInv, Sees, MakerSees, StarterSees, StatusSees,
           PastStart, MakingChild, StateOf, portoVars, kubeletVars,
           Requests
  <2>3. QED
    BY <2>1, <2>2, HandlerKeeps
<1>6. ASSUME NEW h \in Handlers, CreateUpdate(h) PROVE LifeInv'
  <2>1. Frame
    BY <1>0, <1>6
       DEF CreateUpdate, Frame, PortoStep, IdsKept, portoVars, kubeletVars, historyVars,
           LifeInv, LifeOf, Sees, MakerSees, StarterSees, StatusSees, PastStart,
           MakingChild
  <2>2. Advances(h)
    BY <1>0, <1>6
       DEF CreateUpdate, Advances, LifeInv, LifeOf, Sees, MakerSees, StarterSees,
           StatusSees, PastStart, MakingChild, StateOf, portoVars, kubeletVars, Requests
  <2>3. QED
    BY <2>1, <2>2, HandlerKeeps
<1>7. ASSUME NEW h \in Handlers, CreateAbort(h) PROVE LifeInv'
  <2>1. Frame
    BY <1>0, <1>7
       DEF CreateAbort, DestroyOuter, Frame, PortoStep, IdsKept, portoVars, kubeletVars,
           historyVars, LifeInv, LifeOf, Sees, MakerSees, StarterSees, StatusSees,
           PastStart, MakingChild
  <2>2. Advances(h)
    BY <1>0, <1>7
       DEF CreateAbort, DestroyOuter, Advances, LifeInv, LifeOf, Sees, MakerSees,
           StarterSees, StatusSees, PastStart, MakingChild, StateOf, portoVars,
           kubeletVars, Requests
  <2>3. QED
    BY <2>1, <2>2, HandlerKeeps
<1>8. ASSUME NEW h \in Handlers, CreateReply(h) PROVE LifeInv'
  <2>1. Frame
    BY <1>0, <1>8
       DEF CreateReply, Frame, PortoStep, IdsKept, portoVars, kubeletVars, historyVars,
           LifeInv, LifeOf, Sees, MakerSees, StarterSees, StatusSees, PastStart,
           MakingChild
  <2>2. Advances(h)
    BY <1>0, <1>8
       DEF CreateReply, Advances, LifeInv, LifeOf, Sees, MakerSees, StarterSees,
           StatusSees, PastStart, MakingChild, StateOf, portoVars, kubeletVars, Requests
  <2>3. QED
    BY <2>1, <2>2, HandlerKeeps
<1>9. ASSUME NEW h \in Handlers, StartContainer(h) PROVE LifeInv'
  <2>1. Frame
    BY <1>9, QuietFrame DEF StartContainer, Begin, portoVars, kubeletVars, historyVars
  <2>2. Advances(h)
    BY <1>0, <1>9
       DEF StartContainer, Begin, Advances, LifeInv, Sees, MakerSees, StarterSees,
           StatusSees, PastStart, MakingChild, StateOf, portoVars, kubeletVars,
           Requests
  <2>3. QED
    BY <2>1, <2>2, HandlerKeeps
<1>10. ASSUME NEW h \in Handlers, StartName(h) PROVE LifeInv'
  <2>1. Frame
    BY <1>10, QuietFrame DEF StartName, Resolve, portoVars, kubeletVars, historyVars
  <2>2. Advances(h)
    BY <1>0, <1>10
       DEF StartName, Resolve, Advances, LifeInv, Sees, MakerSees, StarterSees,
           StatusSees, PastStart, MakingChild, StateOf, portoVars, kubeletVars,
           Requests
  <2>3. QED
    BY <2>1, <2>2, HandlerKeeps
<1>11. ASSUME NEW h \in Handlers, StartStart(h) PROVE LifeInv'
  <2>1. Frame
    BY <1>0, <1>11
       DEF StartStart, CanStart, StateOf, SetState, startRest, Frame, PortoStep, IdsKept,
           portoVars, kubeletVars, historyVars, LifeInv, LifeOf, Sees, MakerSees,
           StarterSees, StatusSees, PastStart, MakingChild
  <2>2. Advances(h)
    BY <1>0, <1>11
       DEF StartStart, CanStart, StateOf, SetState, startRest, Advances, LifeInv, LifeOf,
           Sees, MakerSees, StarterSees, StatusSees, PastStart, MakingChild, portoVars,
           kubeletVars, Requests
  <2>3. QED
    BY <2>1, <2>2, HandlerKeeps
<1>12. ASSUME NEW h \in Handlers, StartGetLabels(h) PROVE LifeInv'
  <2>1. Frame
    BY <1>12, QuietFrame
       DEF StartGetLabels, StartSucceeds, AnswerLost, startRest, portoVars
  <2>2. \A g \in Handlers \ {h} : req'[g] = req[g]
    BY <1>0, <1>12 DEF StartGetLabels, StartSucceeds, AnswerLost, startRest
  <2> DEFINE c == req[h].cnt
  <2>3. c \in Cnts /\ req[h].at = "getLabels"
    BY <1>0, <1>12 DEF StartGetLabels
  <2>4. UNCHANGED <<pod, outer, child, labels, priv, known>>
    BY <1>12 DEF StartGetLabels, startRest, portoVars
  <2>5. \/ req'[h] = Idle
        \/ /\ req'[h].at = "privState" /\ req'[h].cnt = c
           /\ PastStart(h) /\ c \in priv
    BY <1>0, <1>12 DEF StartGetLabels, StartSucceeds, AnswerLost, PastStart, Requests
  <2>6. Sees(h)' /\ (PastStart(h)' => PastStart(h) /\ req'[h].cnt = c)
    <3>1. StarterSees(h)
      BY DEF LifeInv, Sees
    <3>2. CASE req'[h] = Idle
      BY <3>2, IdleSees
    <3>3. CASE req'[h] # Idle
      BY <2>3, <2>4, <2>5, <3>1, <3>3
         DEF Sees, MakerSees, StarterSees, StatusSees, PastStart, MakingChild
    <3>4. QED
      BY <3>2, <3>3
  <2>7. ASSUME NEW d \in started' \ started
        PROVE  d \in known' /\ (pod = "up" /\ d \notin unread' \cap priv' => HasRun(d)')
    <3>1. /\ d = c
          /\ c \in unread' \/ req[h].name = "child" \/ c \notin labels \cap priv
      BY <1>0, <1>12, <2>7
         DEF StartGetLabels, StartSucceeds, AnswerLost, Requests, Names
    <3>2. c \in known
      BY <2>3 DEF IInv, Drawn, CreateSteps
    <3>3. SUFFICES ASSUME pod = "up", c \notin unread' \cap priv PROVE HasRun(c)
      BY <2>4, <3>1, <3>2 DEF HasRun, Listed, StateOf
    <3>4. CASE req[h].name = "child"
      <4>1. outer[c] = "absent" \/ child[c] \in {"running", "dead"}
        BY <2>3, <3>3, <3>4 DEF LifeInv, Sees, StarterSees
      <4>2. QED
        BY <2>3, <3>2, <4>1 DEF LifeInv, LifeOf, HasRun, Listed, StateOf
    <3>5. CASE req[h].name # "child"
      <4>1. PastStart(h)
        BY <1>0, <2>3, <3>5 DEF PastStart, Requests, Names
      <4>2. outer[c] # "stopped"
        BY <3>3, <4>1 DEF LifeInv, Sees, StarterSees
      <4>3. outer[c] # "absent" => c \in labels /\ c \notin priv
        BY <2>3, <3>1, <3>2, <3>3, <3>5 DEF LifeInv, LifeOf
      <4>4. QED
        BY <1>0, <2>3, <4>2, <4>3 DEF HasRun, Listed, StateOf, PortoStates
    <3>6. QED
      BY <3>4, <3>5
  <2>8. QED
    BY <2>1, <2>2, <2>6, <2>7, HandlerKeeps DEF Advances
<1>13. ASSUME NEW h \in Handlers, PrivState(h) PROVE LifeInv'
  <2>1. Frame
    BY <1>13, QuietFrame
       DEF PrivState, StartSucceeds, AnswerLost, startRest, portoVars
  <2> DEFINE c == req[h].cnt
  <2>2. /\ req[h].at = "privState" /\ c \in Cnts /\ c \in known /\ PastStart(h) /\ Sees(h)
        /\ c \in priv
    BY <1>0, <1>13
       DEF PrivState, PastStart, MakingChild, LifeInv, IInv, Drawn, CreateSteps, Sees,
           StarterSees
  <2>3. pod = "up" => child[c] = "absent" /\ outer[c] # "stopped"
    BY <2>2 DEF Sees, StarterSees
  <2>4. /\ UNCHANGED <<portoVars, priv, known, unread>>
        /\ \A g \in Handlers \ {h} : req'[g] = req[g]
        /\ \/ req'[h] = Idle
           \/ req'[h].at = "privCreate" /\ req'[h].cnt = c
        /\ \/ started' = started
           \/ child[c] # "absent" /\ started' = started \cup {c}
    BY <1>0, <1>13 DEF PrivState, StartSucceeds, AnswerLost, startRest, Requests
  <2>5. Sees(h)' /\ (PastStart(h)' => req'[h].cnt = c)
    <3>1. CASE req'[h] = Idle
      BY <3>1, IdleSees
    <3>2. CASE req'[h].at = "privCreate" /\ req'[h].cnt = c
      BY <2>2, <2>3, <2>4, <3>2
         DEF portoVars, Sees, MakerSees, StarterSees, StatusSees, PastStart, MakingChild
    <3>3. QED
      BY <2>4, <3>1, <3>2
  <2>6. QED
    BY <2>1, <2>2, <2>3, <2>4, <2>5, HandlerKeeps DEF Advances, portoVars
<1>14. ASSUME NEW h \in Handlers, PrivCreate(h) PROVE LifeInv'
  <2> DEFINE c == req[h].cnt
  <2>1. req[h].at = "privCreate" /\ c \in Cnts /\ PastStart(h) /\ Sees(h)
    BY <1>0, <1>14 DEF PrivCreate, LifeInv, PastStart, MakingChild
  <2>2. /\ outer' = outer /\ labels' = labels /\ UNCHANGED <<pod, started, priv, used, known, unread>>
        /\ \A g \in Handlers \ {h} : req'[g] = req[g]
        /\ \/ child' = child
           \/ /\ outer[c] # "absent" /\ child[c] = "absent"
              /\ child' = [child EXCEPT ![c] = "stopped"]
        /\ req'[h] = Idle \/ req'[h] = [req[h] EXCEPT !.at = "privGetEnv"]
    BY <1>0, <1>14 DEF PrivCreate, SetState, startRest, portoVars
  <2>3. req'[h] = Idle \/ (req'[h].at = "privGetEnv" /\ req'[h].cnt = c)
    BY <1>0, <2>2 DEF Requests
  <2>4. \A d \in Cnts : PortoStep(d)
    <3>1. ASSUME NEW d \in Cnts, d # c PROVE PortoStep(d)
      BY <1>0, <2>1, <2>2, <3>1 DEF PortoStep
    <3>2. PortoStep(c)
      BY <1>0, <2>1, <2>2, <2>3 DEF PortoStep
    <3>3. QED
      BY <3>1, <3>2
  <2>5. Frame
    BY <1>0, <2>2, <2>4 DEF Frame, IdsKept
  <2>6. Sees(h)' /\ (PastStart(h)' => req'[h].cnt = c)
    <3>1. CASE req'[h] = Idle
      BY <3>1, IdleSees
    <3>2. CASE req'[h] # Idle
      BY <2>1, <2>2, <2>3, <3>2
         DEF Sees, MakerSees, StarterSees, StatusSees, PastStart, MakingChild
    <3>3. QED
      BY <3>1, <3>2
  <2>7. QED
    BY <2>1, <2>2, <2>5, <2>6, HandlerKeeps DEF Advances
<1>15. ASSUME NEW h \in Handlers, PrivEnv(h) PROVE LifeInv'
  <2>1. Frame
    BY <1>0, <1>15
       DEF PrivEnv, startRest, Frame, PortoStep, IdsKept, portoVars, kubeletVars,
           historyVars, LifeInv, LifeOf, Sees, MakerSees, StarterSees, StatusSees, PastStart,
           MakingChild
  <2>2. Advances(h)
    BY <1>0, <1>15
       DEF PrivEnv, startRest, Advances, LifeInv, LifeOf, Sees, MakerSees, StarterSees,
           StatusSees, PastStart, MakingChild, StateOf, portoVars, kubeletVars, Requests
  <2>3. QED
    BY <2>1, <2>2, HandlerKeeps
<1>16. ASSUME NEW h \in Handlers, PrivStart(h) PROVE LifeInv'
  <2> DEFINE c == req[h].cnt
  <2>1. req[h].at = "privStart" /\ c \in Cnts /\ Sees(h)
    BY <1>0, <1>16 DEF PrivStart, LifeInv
  <2>2. /\ outer' = outer /\ labels' = labels /\ UNCHANGED <<pod, priv, used, known, unread>>
        /\ \A g \in Handlers \ {h} : req'[g] = req[g]
        /\ req'[h] = Idle
        /\ \/ child' = child /\ started' = started
           \/ /\ outer[c] = "running" /\ child[c] = "stopped"
              /\ child' = [child EXCEPT ![c] = "running"]
              /\ started' \subseteq started \cup {c}
    BY <1>0, <1>16
       DEF PrivStart, CanStart, StateOf, SetState, StartSucceeds, AnswerLost, startRest,
           portoVars
  <2>3. \A d \in Cnts : PortoStep(d)
    BY <1>0, <2>1, <2>2 DEF PortoStep
  <2>4. Frame
    BY <1>0, <2>2, <2>3 DEF Frame, IdsKept
  <2>5. ASSUME NEW d \in started' \ started
        PROVE  d \in known' /\ HasRun(d)'
    <3>1. d = c /\ child'[c] = "running"
      BY <1>0, <2>1, <2>2, <2>5
    <3>2. c \in known /\ c \in priv
      BY <2>1 DEF IInv, Drawn, CreateSteps, Sees, StarterSees, MakingChild
    <3>3. outer[c] # "absent" => c \in labels
      BY <2>1, <3>2 DEF LifeInv, LifeOf
    <3>4. QED
      BY <2>2, <3>1, <3>2, <3>3 DEF HasRun, Listed, StateOf
  <2>6. QED
    BY <2>2, <2>4, <2>5, IdleSees, HandlerKeeps DEF Advances
<1>17. ASSUME NEW h \in Handlers, StopContainer(h) PROVE LifeInv'
  <2>1. Frame
    BY <1>17, QuietFrame DEF StopContainer, Begin, portoVars, kubeletVars, historyVars
  <2>2. Advances(h)
    BY <1>0, <1>17
       DEF StopContainer, Begin, Advances, LifeInv, Sees, MakerSees, StarterSees,
           StatusSees, PastStart, MakingChild, StateOf, portoVars, kubeletVars,
           Requests
  <2>3. QED
    BY <2>1, <2>2, HandlerKeeps
<1>18. ASSUME NEW h \in Handlers, StopName(h) PROVE LifeInv'
  <2>1. Frame
    BY <1>18, QuietFrame DEF StopName, Resolve, portoVars, kubeletVars, historyVars
  <2>2. Advances(h)
    BY <1>0, <1>18
       DEF StopName, Resolve, Advances, LifeInv, Sees, MakerSees, StarterSees,
           StatusSees, PastStart, MakingChild, StateOf, portoVars, kubeletVars,
           Requests
  <2>3. QED
    BY <2>1, <2>2, HandlerKeeps
<1>19. ASSUME NEW h \in Handlers, StopGetState(h) PROVE LifeInv'
  <2>1. Frame
    BY <1>19, QuietFrame DEF StopGetState, portoVars, kubeletVars, historyVars
  <2>2. Advances(h)
    BY <1>0, <1>19
       DEF StopGetState, Advances, LifeInv, Sees, MakerSees, StarterSees, StatusSees,
           PastStart, MakingChild, StateOf, portoVars, kubeletVars,
           Requests
  <2>3. QED
    BY <2>1, <2>2, HandlerKeeps
<1>20. ASSUME NEW h \in Handlers, StopKill(h) PROVE LifeInv'
  <2>1. Frame
    BY <1>0, <1>20
       DEF StopKill, Ends, StateOf, Frame, PortoStep, IdsKept, portoVars, kubeletVars,
           historyVars, LifeInv, LifeOf, Sees, MakerSees, StarterSees, StatusSees,
           PastStart, MakingChild
  <2>2. Advances(h)
    BY <1>0, <1>20
       DEF StopKill, Ends, StateOf, Advances, LifeInv, LifeOf, Sees, MakerSees,
           StarterSees, StatusSees, PastStart, MakingChild, portoVars, kubeletVars,
           Requests
  <2>3. QED
    BY <2>1, <2>2, HandlerKeeps
<1>21. ASSUME NEW h \in Handlers, ContainerStatus(h) PROVE LifeInv'
  <2>1. Frame
    BY <1>21, QuietFrame DEF ContainerStatus, Begin, portoVars, kubeletVars, historyVars
  <2>2. Advances(h)
    BY <1>0, <1>21
       DEF ContainerStatus, Begin, Advances, LifeInv, Sees, MakerSees, StarterSees,
           StatusSees, PastStart, MakingChild, StateOf, portoVars, kubeletVars,
           Requests
  <2>3. QED
    BY <2>1, <2>2, HandlerKeeps
<1>22. ASSUME NEW h \in Handlers, StatusName(h) PROVE LifeInv'
  <2>1. Frame
    BY <1>22, QuietFrame DEF StatusName, Resolve, portoVars, kubeletVars, historyVars
  <2>2. Advances(h)
    BY <1>0, <1>22
       DEF StatusName, Resolve, Advances, LifeInv, Sees, MakerSees, StarterSees,
           StatusSees, PastStart, MakingChild, StateOf, portoVars, kubeletVars,
           Requests
  <2>3. QED
    BY <2>1, <2>2, HandlerKeeps
<1>23. ASSUME NEW h \in Handlers, StatusGetProps(h) PROVE LifeInv'
  <2>1. Frame
    BY <1>23, QuietFrame
       DEF StatusGetProps, StateOf, IsOver, portoVars, kubeletVars, historyVars
  <2>2. \A g \in Handlers \ {h} : req'[g] = req[g]
    BY <1>0, <1>23 DEF StatusGetProps, StateOf, IsOver
  <2> DEFINE c == req[h].cnt
  <2>3. UNCHANGED <<outer, child, labels, priv, started>>
    BY <1>23 DEF StatusGetProps, portoVars, kubeletVars
  <2>4. \/ req'[h] = Idle
        \/ /\ req'[h].cnt = c /\ req'[h].name = req[h].name
           /\ req'[h].saw = StateOf(req[h].name, c)
           /\ \/ req'[h].at = "parentLabels" /\ req[h].name = "child"
              \/ req'[h].at = "reap" /\ req'[h].saw = "dead"
              \/ req'[h].at = "status"
    BY <1>0, <1>23 DEF StatusGetProps, IsOver, Requests
  <2>5. Sees(h)' /\ ~PastStart(h)'
    <3>1. CASE req'[h] = Idle
      BY <3>1, IdleSees
    <3>2. CASE req'[h] # Idle
      <4>1. MakerSees(h)' /\ StarterSees(h)' /\ ~PastStart(h)'
        BY <2>4, <3>2 DEF MakerSees, StarterSees, PastStart, MakingChild
      <4>2. StatusSees(h)'
        BY <2>3, <2>4, <3>2 DEF StatusSees, StateOf
      <4>3. QED
        BY <4>1, <4>2 DEF Sees
    <3>3. QED
      BY <3>1, <3>2
  <2>6. QED
    BY <2>1, <2>2, <2>3, <2>5, HandlerKeeps DEF Advances
<1>24. ASSUME NEW h \in Handlers, StatusParentLabels(h) PROVE LifeInv'
  <2>1. Frame
    BY <1>24, QuietFrame DEF StatusParentLabels, IsOver, portoVars, kubeletVars, historyVars
  <2>2. Advances(h)
    BY <1>0, <1>24
       DEF StatusParentLabels, IsOver, Advances, LifeInv, Sees, MakerSees, StarterSees,
           StatusSees, PastStart, MakingChild, StateOf, portoVars, kubeletVars, Requests
  <2>3. QED
    BY <2>1, <2>2, HandlerKeeps
<1>25. ASSUME NEW h \in Handlers, StatusReap(h) PROVE LifeInv'
  <2>1. Frame
    BY <1>0, <1>25
       DEF StatusReap, DestroyOuter, Frame, PortoStep, IdsKept, portoVars, kubeletVars,
           historyVars, LifeInv, LifeOf, Sees, MakerSees, StarterSees, StatusSees,
           PastStart, MakingChild
  <2>2. Advances(h)
    BY <1>0, <1>25
       DEF StatusReap, DestroyOuter, Advances, LifeInv, LifeOf, Sees, MakerSees,
           StarterSees, StatusSees, PastStart, MakingChild, StateOf, portoVars,
           kubeletVars, Requests
  <2>3. QED
    BY <2>1, <2>2, HandlerKeeps
<1>26. ASSUME NEW h \in Handlers, StatusReply(h) PROVE LifeInv'
  <2>1. Frame
    BY <1>26, QuietFrame DEF StatusReply, portoVars, kubeletVars, historyVars
  <2>2. Advances(h)
    BY <1>0, <1>26
       DEF StatusReply, Advances, LifeInv, Sees, MakerSees, StarterSees, StatusSees,
           PastStart, MakingChild, StateOf, portoVars, kubeletVars,
           Requests
  <2>3. QED
    BY <2>1, <2>2, HandlerKeeps
<1>27. ASSUME NEW h \in Handlers, RemoveContainer(h) PROVE LifeInv'
  <2>1. Frame
    BY <1>27, QuietFrame DEF RemoveContainer, Begin, portoVars, kubeletVars, historyVars
  <2>2. Advances(h)
    BY <1>0, <1>27
       DEF RemoveContainer, Begin, Advances, LifeInv, Sees, MakerSees, StarterSees,
           StatusSees, PastStart, MakingChild, StateOf, portoVars, kubeletVars,
           Requests
  <2>3. QED
    BY <2>1, <2>2, HandlerKeeps
<1>28. ASSUME NEW h \in Handlers, RemoveDestroy(h) PROVE LifeInv'
  <2>1. Frame
    BY <1>0, <1>28
       DEF RemoveDestroy, DestroyOuter, Frame, PortoStep, IdsKept, portoVars,
           kubeletVars, historyVars, LifeInv, LifeOf, Sees, MakerSees, StarterSees,
           StatusSees, PastStart, MakingChild
  <2>2. Advances(h)
    BY <1>0, <1>28
       DEF RemoveDestroy, DestroyOuter, Advances, LifeInv, LifeOf, Sees, MakerSees,
           StarterSees, StatusSees, PastStart, MakingChild, StateOf, portoVars,
           kubeletVars, Requests
  <2>3. QED
    BY <2>1, <2>2, HandlerKeeps
<1>29. ASSUME NEW h \in Handlers, RemoveDir(h) PROVE LifeInv'
  <2>1. Frame
    BY <1>29, QuietFrame DEF RemoveDir, portoVars, kubeletVars, historyVars
  <2>2. Advances(h)
    BY <1>0, <1>29
       DEF RemoveDir, Advances, LifeInv, Sees, MakerSees, StarterSees, StatusSees,
           PastStart, MakingChild, StateOf, portoVars, kubeletVars,
           Requests
  <2>3. QED
    BY <2>1, <2>2, HandlerKeeps
<1>30. ASSUME NEW c \in Cnts, ProcessExits(c) PROVE LifeInv'
  <2>1. Frame
    BY <1>0, <1>30
       DEF ProcessExits, Ends, StateOf, Names, Frame, PortoStep, IdsKept, portoVars,
           kubeletVars, historyVars, LifeInv, LifeOf
  <2>2. started' = started /\ \A h \in Handlers : req'[h] = req[h] \/ req'[h] = Idle
    BY <1>30 DEF ProcessExits, Ends, StateOf, Names, kubeletVars
  <2>3. QED
    BY <2>1, <2>2, EnvironmentKeeps
<1>31. CASE ListContainers
  <2>1. Frame
    BY <1>0, <1>31
       DEF ListContainers, Listed, Frame, PortoStep, IdsKept, portoVars, kubeletVars,
           historyVars, LifeInv, LifeOf
  <2>2. started' = started /\ \A h \in Handlers : req'[h] = req[h] \/ req'[h] = Idle
    BY <1>31 DEF ListContainers, Listed, kubeletVars
  <2>3. QED
    BY <2>1, <2>2, EnvironmentKeeps
<1>32. CASE PodDestroyed
  <2>1. Frame
    BY <1>0, <1>a, <1>32
       DEF PodDestroyed, Frame, PortoStep, IdsKept, portoVars, kubeletVars, historyVars, LifeInv,
           LifeOf
  <2>2. started' = started /\ \A h \in Handlers : req'[h] = req[h] \/ req'[h] = Idle
    BY <1>32 DEF PodDestroyed, kubeletVars
  <2>3. QED
    BY <2>1, <2>2, EnvironmentKeeps
<1>33. CASE PodDirRemoved
  <2>1. Frame
    BY <1>0, <1>33
       DEF PodDirRemoved, Frame, PortoStep, IdsKept, portoVars, kubeletVars, historyVars, LifeInv,
           LifeOf
  <2>2. started' = started /\ \A h \in Handlers : req'[h] = req[h] \/ req'[h] = Idle
    BY <1>33 DEF PodDirRemoved, kubeletVars
  <2>3. QED
    BY <2>1, <2>2, EnvironmentKeeps
<1>34. CASE Crash
  <2>1. Frame
    BY <1>34, QuietFrame DEF Crash, portoVars, kubeletVars, historyVars
  <2>2. started' = started /\ \A h \in Handlers : req'[h] = req[h] \/ req'[h] = Idle
    BY <1>34 DEF Crash, kubeletVars
  <2>3. QED
    BY <2>1, <2>2, EnvironmentKeeps
<1>35. CASE UNCHANGED vars
  <2>1. UNCHANGED <<portoVars, kubeletVars, historyVars, req>>
    BY <1>35 DEF vars, portoVars, kubeletVars, historyVars
  <2>2. Frame
    BY <2>1, QuietFrame DEF kubeletVars, historyVars
  <2>3. QED
    BY <2>1, <2>2, EnvironmentKeeps DEF kubeletVars
<1>36. ASSUME NEW h \in Handlers, PrivGetEnv(h) PROVE LifeInv'
  <2>1. Frame
    BY <1>36, QuietFrame DEF PrivGetEnv, portoVars, startRest
  <2>2. Advances(h)
    BY <1>0, <1>36
       DEF PrivGetEnv, startRest, Advances, LifeInv, Sees, MakerSees, StarterSees, StatusSees,
           PastStart, MakingChild, portoVars, Requests
  <2>3. QED
    BY <2>1, <2>2, HandlerKeeps
<1>37. CASE PodStopped
  <2>1. /\ pod' # "up" /\ UNCHANGED <<req, labels, used, priv, known, started>>
        /\ \A c \in Cnts :
             /\ outer'[c] = IF outer[c] = "absent" THEN "absent" ELSE "stopped"
             /\ child'[c] = IF child[c] = "absent" THEN "absent" ELSE "stopped"
    BY <1>37 DEF PodStopped, kubeletVars
  <2>2. ASSUME NEW c \in Cnts PROVE LifeOf(c)'
    BY <2>1 DEF LifeInv, LifeOf
  <2>3. ASSUME NEW h \in Handlers PROVE Sees(h)'
    <3>1. Sees(h)
      BY DEF LifeInv
    <3>2. MakerSees(h)'
      BY <1>0, <2>1, <3>1 DEF Sees, MakerSees
    <3>3. StarterSees(h)' /\ StatusSees(h)'
      BY <2>1, <3>1 DEF Sees, StarterSees, StatusSees
    <3>4. QED
      BY <3>2, <3>3 DEF Sees
  <2>4. QED
    BY <2>1, <2>2, <2>3 DEF LifeInv, OneStarts
<1>38. QED
  BY <1>1, <1>2, <1>3, <1>4, <1>5, <1>6, <1>7, <1>8, <1>9, <1>10, <1>11, <1>12, <1>13,
     <1>14, <1>15, <1>16, <1>17, <1>18, <1>19, <1>20, <1>21, <1>22, <1>23, <1>24, <1>25,
     <1>26, <1>27, <1>28, <1>29, <1>30, <1>31, <1>32, <1>33, <1>34, <1>35, <1>36, <1>37
     DEF Next, Request, CreateStep, StartStep, StopStep, StatusStep, RemoveStep

\* Before the first request there is nothing to rely on.
LEMMA InitLife == Init => LifeInv
BY NoCntAssumption
   DEF Init, LifeInv, LifeOf, Sees, MakerSees, StarterSees, StatusSees, PastStart, MakingChild,
       OneStarts, Idle

\* What requests rely on while others run is so in every reachable state, for any
\* number of containers and handlers: of the states it reads of porto, until
\* RemovePodSandbox stops the pod, of labels, parents and children also after that.
THEOREM LifeInvHolds == Spec => []LifeInv
<1>1. IInv /\ TypeOK' /\ LifeInv /\ [Next]_vars => LifeInv'
  BY StepLife
<1>2. QED
  BY <1>1, InitLife, IInvHolds, TypeCorrect, PTL DEF Spec

\* Until its pod is stopped, a container StartContainer answered for has had its process
\* started, whatever calls failed, unless it is privileged and its labels were not read.
THEOREM StartsHaveRun == Spec => []StartedHasRun
<1>1. LifeInv => StartedHasRun
  BY DEF LifeInv, HasRun, StartedHasRun
<1>2. QED
  BY <1>1, LifeInvHolds, PTL

\* createPrivCnt looks for a child that is there already and takes it for its own: until
\* RemovePodSandbox stops the pod it never finds one, whatever fails, restarts or runs
\* concurrently for the container.
THEOREM ChildIsNew ==
  Spec => [](pod = "up" =>
               \A h \in Handlers : req[h].at = "privState" => child[req[h].cnt] = "absent")
<1>1. LifeInv => (pod = "up" =>
        \A h \in Handlers : req[h].at = "privState" => child[req[h].cnt] = "absent")
  BY DEF LifeInv, Sees, StarterSees, PastStart, MakingChild
<1>2. QED
  BY <1>1, LifeInvHolds, PTL

\* Until the pod is stopped, ContainerStatus destroys only what has run to its end,
\* however many requests for the container are under way.
THEOREM ReapsExited == Spec => ReapsOnlyExited
<1> DEFINE Exited(h) == LET c == req[h].cnt IN
             pod = "up" /\ c \in reaped' \ reaped =>
               /\ outer[c] = "dead" \/ child[c] = "dead"
               /\ c \notin priv => outer[c] = "dead"
               /\ child[c] # "running"
<1>1. ASSUME IInv, LifeInv, [Next]_vars, NEW h \in Handlers PROVE Exited(h)
  <2> SUFFICES ASSUME pod = "up", req[h].cnt \in reaped' \ reaped PROVE Exited(h)
    OBVIOUS
  <2>1. PICK g \in Handlers : StatusReap(g) /\ req[g].cnt = req[h].cnt
    <3>1. \E g \in Handlers : StatusReap(g)
      <4> SUFFICES ASSUME \A g \in Handlers : ~StatusReap(g) PROVE UNCHANGED reaped
        OBVIOUS
      <4> USE DEF kubeletVars, historyVars
      <4>1. ASSUME NEW g \in Handlers, Request(g) PROVE UNCHANGED reaped
        BY <4>1 DEF Request, CreateContainer, ListContainers, StartContainer, StopContainer,
                    ContainerStatus, RemoveContainer, Begin, Resolve
      <4>2. ASSUME NEW g \in Handlers, CreateStep(g) PROVE UNCHANGED reaped
        BY <4>2 DEF CreateStep, CreateMkdir, CreateSandboxDevices, CreateFromSpec, CreatePrepare,
                    CreateUpdate, CreateAbort, CreateReply
      <4>3. ASSUME NEW g \in Handlers, StartStep(g) PROVE UNCHANGED reaped
        BY <4>3 DEF StartStep, StartName, StartStart, StartGetLabels, PrivState, PrivCreate,
                    PrivGetEnv, PrivEnv, PrivStart, Resolve, StartSucceeds, AnswerLost, startRest
      <4>4. ASSUME NEW g \in Handlers, StopStep(g) PROVE UNCHANGED reaped
        BY <4>4 DEF StopStep, StopName, StopGetState, StopKill, Resolve
      <4>5. ASSUME NEW g \in Handlers, StatusStep(g) PROVE UNCHANGED reaped
        BY <4>5 DEF StatusStep, StatusName, StatusGetProps, StatusParentLabels, StatusReply,
                    Resolve
      <4>6. ASSUME NEW g \in Handlers, RemoveStep(g) PROVE UNCHANGED reaped
        BY <4>6 DEF RemoveStep, RemoveDestroy, RemoveDir
      <4>7. ASSUME NEW x \in Cnts, ProcessExits(x) PROVE UNCHANGED reaped
        BY <4>7 DEF ProcessExits
      <4>8. CASE \/ ListContainers \/ PodStopped \/ PodDestroyed \/ PodDirRemoved \/ Crash
                 \/ UNCHANGED vars
        BY <4>8 DEF ListContainers, PodStopped, PodDestroyed, PodDirRemoved, Crash, vars
      <4>9. QED
        BY <1>1, <4>1, <4>2, <4>3, <4>4, <4>5, <4>6, <4>7, <4>8 DEF Next
    <3>2. QED
      BY <3>1 DEF StatusReap, historyVars
  <2> DEFINE c == req[g].cnt
  <2>2. req[g].at = "reap" /\ outer[c] # "absent"
    BY <2>1 DEF StatusReap, historyVars
  <2>3. c \in Cnts /\ req[g].name \in Names
    BY <1>1, <2>2 DEF IInv, TypeOK, Requests
  <2>4. LifeOf(c) /\ StateOf(req[g].name, c) = "dead"
    BY <1>1, <2>2, <2>3 DEF LifeInv, Sees, StatusSees
  <2>5. QED
    BY <2>1, <2>2, <2>3, <2>4 DEF LifeOf, StateOf, Names
<1>2. IInv /\ LifeInv /\ [Next]_vars => [\A h \in Handlers : Exited(h)]_vars
  BY <1>1
<1>3. QED
  BY <1>2, IInvHolds, LifeInvHolds, PTL DEF Spec, ReapsOnlyExited

-----------------------------------------------------------------------------
(* Refinement of ContainerLife *)

\* Only what the kubelet knows has been started.
Unstarted == \A c \in Cnts \ known : outer[c] \in {"absent", "stopped"}

\* The exit is told after the container was destroyed.
ExitIsPast ==
  \A h \in Handlers :
    req[h].at = "status" /\ req[h].saw = "dead" => outer[req[h].cnt] = "absent"

FateInv == Unstarted /\ ExitIsPast

\* A handler that leaves porto alone and does not come to answer a status, unless of a
\* container that has not ended.
LEMMA FateQuiet ==
  ASSUME IInv, FateInv, outer' = outer, known \subseteq known',
         \A h \in Handlers : \/ req'[h] = req[h]
                             \/ req'[h].at # "status"
                             \/ req'[h].saw # "dead"
  PROVE  FateInv'
BY DEF FateInv, Unstarted, ExitIsPast

\* A step that makes, starts, ends or destroys pod/c.
LEMMA FatePorto ==
  ASSUME IInv, FateInv, known' = known, NEW c \in Cnts,
         \A d \in Cnts \ {c} : outer'[d] = outer[d],
         \A h \in Handlers : \/ req'[h] = req[h]
                             \/ req'[h].at # "status"
                             \/ req'[h].cnt = c /\ outer'[c] = "absent",
         \/ outer'[c] = "absent"
         \/ outer[c] = "absent" /\ outer'[c] = "stopped" /\ c \notin known
         \/ outer[c] # "absent" /\ (c \in known \/ outer'[c] = outer[c])
  PROVE  FateInv'
<1>1. Unstarted'
  BY DEF FateInv, Unstarted
<1>2. ASSUME NEW h \in Handlers, req'[h].at = "status", req'[h].saw = "dead"
      PROVE  outer'[req'[h].cnt] = "absent"
  <2>1. CASE req'[h] = req[h]
    <3>1. req[h].cnt \in known /\ req[h].cnt \in Cnts /\ outer[req[h].cnt] = "absent"
      BY <1>2, <2>1 DEF FateInv, ExitIsPast, IInv, Drawn, TypeOK, CreateSteps
    <3>2. QED
      BY <2>1, <3>1
  <2>2. CASE req'[h] # req[h]
    BY <1>2, <2>2
  <2>3. QED
    BY <2>1, <2>2
<1>3. QED
  BY <1>1, <1>2 DEF FateInv, ExitIsPast

\* Every step keeps FateInv.
LEMMA StepFate ==
  ASSUME IInv, LifeInv, FateInv, TypeOK', [Next]_vars PROVE FateInv'
<1> USE DEF Goto, Return, Works, Fails, kubeletVars, portoVars
<1>0. TypeOK /\ \A h \in Handlers : req[h] \in Requests /\ Idle.at # "status"
  BY DEF IInv, TypeOK, Idle
<1>1. ASSUME NEW h \in Handlers, Request(h) PROVE FateInv'
  BY <1>0, <1>1, FateQuiet
     DEF Request, CreateContainer, StartContainer, StopContainer, ContainerStatus,
         RemoveContainer, Begin, Requests, TypeOK
<1>2. ASSUME NEW h \in Handlers,
             CreateMkdir(h) \/ CreateSandboxDevices(h) \/ CreatePrepare(h)
               \/ CreateUpdate(h) \/ CreateReply(h)
      PROVE  FateInv'
  BY <1>0, <1>2, FateQuiet
     DEF CreateMkdir, CreateSandboxDevices, CreatePrepare, CreateUpdate, CreateReply,
         Requests, TypeOK
<1>3. ASSUME NEW h \in Handlers, CreateFromSpec(h) PROVE FateInv'
  <2> DEFINE c == req[h].cnt
  <2>1. c \in Cnts /\ c \notin known /\ outer[c] = "absent" /\ req[h].at = "create"
    BY <1>0, <1>3 DEF CreateFromSpec, IInv, MakingAlone, Making, CreateSteps, TypeOK,
                      Requests, LifeInv, Sees, MakerSees
  <2>2. /\ outer' = outer \/ outer' = [outer EXCEPT ![c] = "stopped"]
        /\ known' = known
        /\ \A g \in Handlers : req'[g] = req[g] \/ req'[g].at # "status"
    BY <1>0, <1>3 DEF CreateFromSpec, Make, SetState, Requests, TypeOK
  <2>3. QED
    BY <1>0, <2>1, <2>2, FateQuiet, FatePorto DEF TypeOK
<1>4. ASSUME NEW h \in Handlers, CreateAbort(h) PROVE FateInv'
  <2> DEFINE c == req[h].cnt
  <2>1. c \in Cnts
    BY <1>0, <1>4 DEF CreateAbort, TypeOK, Requests
  <2>2. /\ outer' = outer \/ outer' = [outer EXCEPT ![c] = "absent"]
        /\ known' = known
        /\ \A g \in Handlers : req'[g] = req[g] \/ req'[g].at # "status"
    BY <1>0, <1>4 DEF CreateAbort, DestroyOuter, Requests, TypeOK
  <2>3. QED
    BY <1>0, <2>1, <2>2, FateQuiet, FatePorto DEF TypeOK
<1>5. ASSUME NEW h \in Handlers,
             StartName(h) \/ StartGetLabels(h) \/ PrivState(h) \/ PrivGetEnv(h)
               \/ PrivEnv(h)
      PROVE  FateInv'
  BY <1>0, <1>5, FateQuiet
     DEF StartName, StartGetLabels, PrivState, PrivGetEnv, PrivEnv, Resolve, StartSucceeds,
         AnswerLost, startRest, Requests, TypeOK
<1>6. ASSUME NEW h \in Handlers, PrivCreate(h) \/ PrivStart(h) PROVE FateInv'
  BY <1>0, <1>6, FateQuiet
     DEF PrivCreate, PrivStart, SetState, StartSucceeds, AnswerLost, startRest, Requests,
         TypeOK
<1>7. ASSUME NEW h \in Handlers, StartStart(h) PROVE FateInv'
  <2> DEFINE c == req[h].cnt
  <2>1. c \in Cnts /\ c \in known
    BY <1>0, <1>7 DEF StartStart, TypeOK, Requests, IInv, Drawn, CreateSteps
  <2>2. /\ outer' = outer \/ (outer' = [outer EXCEPT ![c] = "running"] /\ outer[c] = "stopped")
        /\ known' = known
        /\ \A g \in Handlers : req'[g] = req[g] \/ req'[g].at # "status"
    BY <1>0, <1>7 DEF StartStart, CanStart, StateOf, SetState, startRest, Requests, TypeOK
  <2>3. QED
    BY <1>0, <2>1, <2>2, FateQuiet, FatePorto DEF TypeOK
<1>8. ASSUME NEW h \in Handlers, StopName(h) \/ StopGetState(h) PROVE FateInv'
  BY <1>0, <1>8, FateQuiet DEF StopName, StopGetState, Resolve, Requests, TypeOK
<1>9. ASSUME NEW h \in Handlers, StopKill(h) PROVE FateInv'
  <2> DEFINE c == req[h].cnt
  <2>1. c \in Cnts /\ c \in known
    BY <1>0, <1>9 DEF StopKill, TypeOK, Requests, IInv, Drawn, CreateSteps
  <2>2. /\ outer' = outer \/ (outer' = [outer EXCEPT ![c] = "dead"] /\ outer[c] = "running")
        /\ known' = known
        /\ \A g \in Handlers : req'[g] = req[g] \/ req'[g].at # "status"
    BY <1>0, <1>9 DEF StopKill, Ends, StateOf, Requests, TypeOK
  <2>3. QED
    BY <1>0, <2>1, <2>2, FateQuiet, FatePorto DEF TypeOK
<1>10. ASSUME NEW h \in Handlers,
              StatusName(h) \/ StatusGetProps(h) \/ StatusParentLabels(h) \/ StatusReply(h)
       PROVE  FateInv'
  BY <1>0, <1>10, FateQuiet
     DEF StatusName, StatusGetProps, StatusParentLabels, StatusReply, Resolve, IsOver,
         Requests, TypeOK
<1>11. ASSUME NEW h \in Handlers, StatusReap(h) PROVE FateInv'
  <2> DEFINE c == req[h].cnt
  <2>1. c \in Cnts
    BY <1>0, <1>11 DEF StatusReap, TypeOK, Requests
  <2>2. /\ known' = known
        /\ \/ outer' = outer /\ \A g \in Handlers : req'[g] = req[g] \/ req'[g].at # "status"
           \/ /\ outer' = [outer EXCEPT ![c] = "absent"]
              /\ \A g \in Handlers :
                   req'[g] = req[g] \/ req'[g].at # "status" \/ req'[g].cnt = c
    BY <1>0, <1>11 DEF StatusReap, DestroyOuter, Requests, TypeOK
  <2>3. QED
    BY <1>0, <2>1, <2>2, FateQuiet, FatePorto DEF TypeOK
<1>12. ASSUME NEW h \in Handlers, RemoveDestroy(h) PROVE FateInv'
  <2> DEFINE c == req[h].cnt
  <2>1. c \in Cnts
    BY <1>0, <1>12 DEF RemoveDestroy, TypeOK, Requests
  <2>2. /\ outer' = outer \/ outer' = [outer EXCEPT ![c] = "absent"]
        /\ known' = known
        /\ \A g \in Handlers : req'[g] = req[g] \/ req'[g].at # "status"
    BY <1>0, <1>12 DEF RemoveDestroy, DestroyOuter, Requests, TypeOK
  <2>3. QED
    BY <1>0, <2>1, <2>2, FateQuiet, FatePorto DEF TypeOK
<1>13. ASSUME NEW h \in Handlers, RemoveDir(h) PROVE FateInv'
  BY <1>0, <1>13, FateQuiet DEF RemoveDir, Requests, TypeOK
<1>14. CASE ListContainers \/ PodDirRemoved \/ Crash \/ UNCHANGED vars
  BY <1>0, <1>14, FateQuiet DEF ListContainers, PodDirRemoved, Crash, vars
<1>15. ASSUME NEW c \in Cnts, ProcessExits(c) PROVE FateInv'
  <2>1. outer[c] = "running" => c \in known
    BY DEF FateInv, Unstarted
  <2>2. /\ outer' = outer \/ (outer' = [outer EXCEPT ![c] = "dead"] /\ outer[c] = "running")
        /\ known' = known /\ req' = req
    BY <1>15 DEF ProcessExits, Ends, StateOf, Names
  <2>3. QED
    BY <1>0, <2>1, <2>2, FateQuiet, FatePorto DEF TypeOK
<1>16. CASE PodDestroyed
  BY <1>0, <1>16 DEF PodDestroyed, FateInv, Unstarted, ExitIsPast, IInv, Drawn, TypeOK, Requests,
                     CreateSteps
<1>17. CASE PodStopped
  BY <1>0, <1>17 DEF PodStopped, FateInv, Unstarted, ExitIsPast, IInv, Drawn, TypeOK, Requests,
                     CreateSteps
<1>18. QED
  BY <1>1, <1>2, <1>3, <1>4, <1>5, <1>6, <1>7, <1>8, <1>9, <1>10, <1>11, <1>12, <1>13,
     <1>14, <1>15, <1>16, <1>17
     DEF Next, CreateStep, StartStep, StopStep, StatusStep, RemoveStep

\* FateInv holds in every reachable state.
THEOREM FateInvHolds == Spec => []FateInv
<1>1. Init => FateInv
  BY DEF Init, Idle, FateInv, Unstarted, ExitIsPast
<1>2. QED
  BY <1>1, StepFate, IInvHolds, LifeInvHolds, TypeCorrect, PTL DEF Spec

\* Steps that concern no process, and none that the kubelet is told of.
LEMMA LifeStutter ==
  ASSUME UNCHANGED <<outer, child, known, reported, removed, pod # "up">>,
         \A c \in known : c \in priv' <=> c \in priv
  PROVE  UNCHANGED Life!lifeVars
<1>1. \A c \in Cnts : LifeStatus(c)' = LifeStatus(c)
  BY DEF LifeStatus
<1>2. QED
  BY <1>1 DEF Life!lifeVars

\* The stages that may follow one another.
Follows(c, stage) ==
  \/ stage = LifeStatus(c)
  \/ LifeStatus(c) = "unborn" /\ stage \in {"created", "gone"}
  \/ LifeStatus(c) = "created" /\ stage \in {"starting", "running"}
  \/ LifeStatus(c) = "starting" /\ stage = "running"
  \/ LifeStatus(c) \in {"starting", "running"} /\ stage = "exited"
  \/ LifeStatus(c) # "unborn" /\ stage = "gone"

\* A step of one container.
LEMMA LifeMoves ==
  ASSUME NEW c \in Cnts, UNCHANGED <<reported, removed, pod>>,
         \A d \in Cnts \ {c} : LifeStatus(d)' = LifeStatus(d),
         Follows(c, LifeStatus(c)')
  PROVE  [Life!LifeNext]_(Life!lifeVars)
<1> DEFINE status == [d \in Cnts |-> LifeStatus(d)]
           stage == LifeStatus(c)'
<1>1. status' = [status EXCEPT ![c] = stage]
  OBVIOUS
<1>2. CASE stage = LifeStatus(c)
  <2>1. status' = status
    BY <1>1, <1>2
  <2>2. QED
    BY <2>1 DEF Life!lifeVars
<1>3. CASE stage # LifeStatus(c)
  <2> HIDE DEF stage
  <2>1. Life!Moves(c, stage)
    BY <1>1 DEF Life!Moves
  <2>2. status[c] = LifeStatus(c)
    OBVIOUS
  <2>3. Life!Appear(c) \/ Life!Start(c) \/ Life!StartProcess(c) \/ Life!End(c) \/ Life!Vanish(c)
    BY <1>3, <2>1, <2>2
       DEF Follows, Life!Appear, Life!Start, Life!StartProcess, Life!End, Life!Vanish, stage
  <2>4. QED
    BY <2>3 DEF Life!LifeNext
<1>4. QED
  BY <1>2, <1>3

\* A step of porto on one container.
LEMMA LifePorto ==
  ASSUME NEW c \in Cnts, UNCHANGED <<known, priv, reported, removed, pod>>,
         \A d \in Cnts \ {c} : outer'[d] = outer[d] /\ child'[d] = child[d],
         Follows(c, LifeStatus(c)')
  PROVE  [Life!LifeNext]_(Life!lifeVars)
<1>1. \A d \in Cnts \ {c} : LifeStatus(d)' = LifeStatus(d)
  BY DEF LifeStatus
<1>2. QED
  BY <1>1, LifeMoves

\* Destroy, which leaves the pod alone.
LEMMA LifeVanishes ==
  ASSUME TypeOK, NEW c \in Cnts, DestroyOuter(c), UNCHANGED <<known, priv, reported, removed>>
  PROVE  [Life!LifeNext]_(Life!lifeVars)
<1>1. /\ \A d \in Cnts \ {c} : outer'[d] = outer[d] /\ child'[d] = child[d]
      /\ outer'[c] = "absent" /\ pod' = pod
  BY DEF DestroyOuter, TypeOK
<1>2. Follows(c, LifeStatus(c)')
  BY <1>1 DEF Follows, LifeStatus
<1>3. QED
  BY <1>1, <1>2, LifePorto

\* The end of a process.
LEMMA LifeEnds ==
  ASSUME TypeOK, LifeInv, NEW c \in Cnts, NEW name \in Names, Ends(name, c),
         UNCHANGED <<known, priv, reported, removed>>
  PROVE  [Life!LifeNext]_(Life!lifeVars)
<1>1. /\ \A d \in Cnts \ {c} : outer'[d] = outer[d] /\ child'[d] = child[d]
      /\ outer'[c] = IF name = "outer" THEN "dead" ELSE outer[c]
      /\ child'[c] = IF child[c] = "running" THEN "dead" ELSE child[c]
      /\ IF name = "child" THEN child[c] = "running" ELSE outer[c] = "running"
      /\ pod' = pod
  BY DEF Ends, StateOf, TypeOK
<1>2. child[c] = "running" => outer[c] = "running"
  BY DEF LifeInv, LifeOf
<1>3. Follows(c, LifeStatus(c)')
  BY <1>1, <1>2 DEF Follows, LifeStatus, Names
<1>4. QED
  BY <1>1, <1>3, LifePorto

\* The kubelet learns of a container.
LEMMA LifeAppears ==
  ASSUME IInv, LifeInv, FateInv, NEW c \in Cnts, known' = known \cup {c},
         UNCHANGED <<pod, outer, child, priv, reported, removed>>
  PROVE  [Life!LifeNext]_(Life!lifeVars)
<1>1. \A d \in Cnts \ {c} : LifeStatus(d)' = LifeStatus(d)
  BY DEF LifeStatus
<1>2. Follows(c, LifeStatus(c)')
  <2>1. CASE c \in known
    BY <2>1 DEF Follows, LifeStatus
  <2>2. CASE c \notin known
    <3>1. outer[c] \in {"absent", "stopped"} /\ (outer[c] = "stopped" => child[c] # "dead")
      BY <2>2 DEF FateInv, Unstarted, LifeInv, LifeOf
    <3>2. QED
      BY <2>2, <3>1 DEF Follows, LifeStatus
  <2>3. QED
    BY <2>1, <2>2
<1>3. QED
  BY <1>1, <1>2, LifeMoves

\* Every step is one in the life of a container, or concerns none.
LEMMA LifeStep ==
  ASSUME IInv, LifeInv, FateInv, [Next]_vars PROVE [Life!LifeNext]_(Life!lifeVars)
<1> DEFINE Goal == [Life!LifeNext]_(Life!lifeVars)
<1> USE DEF Goto, Return, Works, Fails, kubeletVars, portoVars
<1>0. TypeOK /\ \A h \in Handlers : req[h] \in Requests
  BY DEF IInv, TypeOK
<1>1. ASSUME NEW h \in Handlers, Request(h) PROVE Goal
  <2>1. CASE CreateContainer(h)
    <3>1. \A c \in known : c \in priv' <=> c \in priv
      BY <2>1 DEF CreateContainer, IInv, Drawn
    <3>2. QED
      BY <2>1, <3>1, LifeStutter DEF CreateContainer
  <2>2. CASE ~CreateContainer(h)
    BY <1>1, <2>2, LifeStutter
       DEF Request, StartContainer, StopContainer, ContainerStatus, RemoveContainer, Begin
  <2>3. QED
    BY <2>1, <2>2
<1>2. ASSUME NEW h \in Handlers,
             CreateMkdir(h) \/ CreateSandboxDevices(h) \/ CreatePrepare(h) \/ CreateUpdate(h)
      PROVE  Goal
  BY <1>2, LifeStutter DEF CreateMkdir, CreateSandboxDevices, CreatePrepare, CreateUpdate
<1>3. ASSUME NEW h \in Handlers, CreateFromSpec(h) PROVE Goal
  <2>0. PICK c \in Cnts : c = req[h].cnt
    BY <1>0, <1>3 DEF CreateFromSpec, TypeOK, Requests
  <2>1. c \notin known
    BY <1>3, <2>0 DEF CreateFromSpec, IInv, MakingAlone, Making, CreateSteps
  <2>a. UNCHANGED <<pod, known, priv, reported, removed>>
    BY <1>3 DEF CreateFromSpec, Make, SetState
  <2>2. CASE UNCHANGED <<outer, child>>
    BY <2>a, <2>2, LifeStutter
  <2>3. CASE outer' = [outer EXCEPT ![c] = "stopped"] /\ child' = child
    <3>1. LifeStatus(c)' = LifeStatus(c)
      BY <2>a, <2>1 DEF LifeStatus
    <3>2. Follows(c, LifeStatus(c)')
      BY <3>1 DEF Follows
    <3>3. QED
      BY <1>0, <2>a, <2>3, <3>2, LifePorto DEF TypeOK
  <2>4. QED
    BY <1>3, <2>0, <2>2, <2>3 DEF CreateFromSpec, Make, SetState
<1>4. ASSUME NEW h \in Handlers, CreateAbort(h) PROVE Goal
  <2>1. req[h].cnt \in Cnts
    BY <1>0, <1>4 DEF CreateAbort, TypeOK, Requests
  <2>2. QED
    BY <1>0, <1>4, <2>1, LifeStutter, LifeVanishes DEF CreateAbort
<1>5. ASSUME NEW h \in Handlers, CreateReply(h) PROVE Goal
  <2>1. req[h].cnt \in Cnts
    BY <1>0, <1>5 DEF CreateReply, TypeOK, Requests
  <2>2. QED
    BY <1>5, <2>1, LifeStutter, LifeAppears DEF CreateReply
<1>6. ASSUME NEW h \in Handlers,
             StartName(h) \/ StartGetLabels(h) \/ PrivState(h) \/ PrivGetEnv(h)
               \/ PrivEnv(h)
      PROVE  Goal
  BY <1>6, LifeStutter
     DEF StartName, StartGetLabels, PrivState, PrivGetEnv, PrivEnv, Resolve, StartSucceeds,
         AnswerLost, startRest
<1>7. ASSUME NEW h \in Handlers, StartStart(h) PROVE Goal
  <2>0. PICK c \in Cnts : c = req[h].cnt
    BY <1>0, <1>7 DEF StartStart, TypeOK, Requests
  <2>1. c \in known /\ req[h].name \in Names /\ LifeOf(c)
    BY <1>0, <1>7, <2>0 DEF StartStart, TypeOK, Requests, IInv, Drawn, CreateSteps, LifeInv
  <2>2. UNCHANGED <<known, priv, reported, removed, pod>>
    BY <1>7 DEF StartStart, startRest, SetState
  <2>3. CASE UNCHANGED <<outer, child>>
    BY <2>2, <2>3, LifeStutter
  <2>4. CASE CanStart(req[h].name, c) /\ SetState(req[h].name, c, "running")
    <3>1. /\ \A d \in Cnts \ {c} : outer'[d] = outer[d] /\ child'[d] = child[d]
          /\ \/ outer[c] = "stopped" /\ outer'[c] = "running" /\ child'[c] = child[c]
             \/ /\ outer[c] = "running" /\ outer'[c] = "running"
                /\ child[c] = "stopped" /\ child'[c] = "running"
      BY <1>0, <2>1, <2>4 DEF CanStart, StateOf, SetState, TypeOK, Names
    <3>2. Follows(c, LifeStatus(c)')
      BY <2>1, <2>2, <3>1 DEF Follows, LifeStatus, LifeOf
    <3>3. QED
      BY <2>1, <2>2, <3>1, <3>2, LifePorto
  <2>5. QED
    BY <1>7, <2>0, <2>3, <2>4 DEF StartStart
<1>8. ASSUME NEW h \in Handlers, PrivCreate(h) PROVE Goal
  <2>0. PICK c \in Cnts : c = req[h].cnt
    BY <1>0, <1>8 DEF PrivCreate, TypeOK, Requests
  <2>1. UNCHANGED <<known, priv, reported, removed, pod>>
    BY <1>8 DEF PrivCreate, startRest, SetState
  <2>2. CASE UNCHANGED <<outer, child>>
    BY <2>1, <2>2, LifeStutter
  <2>3. CASE child[c] = "absent" /\ SetState("child", c, "stopped")
    <3>1. /\ \A d \in Cnts \ {c} : outer'[d] = outer[d] /\ child'[d] = child[d]
          /\ outer'[c] = outer[c] /\ child'[c] = "stopped"
      BY <1>0, <2>3 DEF SetState, TypeOK
    <3>2. LifeStatus(c)' = LifeStatus(c)
      BY <2>1, <2>3, <3>1 DEF LifeStatus
    <3>3. Follows(c, LifeStatus(c)')
      BY <3>2 DEF Follows
    <3>4. QED
      BY <2>1, <3>1, <3>3, LifePorto
  <2>4. QED
    BY <1>8, <2>0, <2>2, <2>3 DEF PrivCreate
<1>9. ASSUME NEW h \in Handlers, PrivStart(h) PROVE Goal
  <2>0. PICK c \in Cnts : c = req[h].cnt
    BY <1>0, <1>9 DEF PrivStart, TypeOK, Requests
  <2>1. LifeOf(c)
    BY DEF LifeInv
  <2>2. UNCHANGED <<known, priv, reported, removed, pod>>
    BY <1>9 DEF PrivStart, StartSucceeds, AnswerLost, startRest, SetState
  <2>3. CASE UNCHANGED <<outer, child>>
    BY <2>2, <2>3, LifeStutter
  <2>4. CASE CanStart("child", c) /\ SetState("child", c, "running")
    <3>1. /\ \A d \in Cnts \ {c} : outer'[d] = outer[d] /\ child'[d] = child[d]
          /\ outer[c] = "running" /\ outer'[c] = "running"
          /\ child[c] = "stopped" /\ child'[c] = "running"
      BY <1>0, <2>1, <2>4 DEF CanStart, StateOf, SetState, TypeOK
    <3>2. Follows(c, LifeStatus(c)')
      BY <2>1, <2>2, <3>1 DEF Follows, LifeStatus, LifeOf
    <3>3. QED
      BY <2>1, <2>2, <3>1, <3>2, LifePorto
  <2>5. QED
    BY <1>9, <2>0, <2>3, <2>4 DEF PrivStart
<1>10. ASSUME NEW h \in Handlers, StopName(h) \/ StopGetState(h) PROVE Goal
  BY <1>10, LifeStutter DEF StopName, StopGetState, Resolve
<1>11. ASSUME NEW h \in Handlers, StopKill(h) PROVE Goal
  <2>1. req[h].cnt \in Cnts /\ req[h].name \in Names
    BY <1>0, <1>11 DEF StopKill, TypeOK, Requests
  <2>2. QED
    BY <1>0, <1>11, <2>1, LifeStutter, LifeEnds DEF StopKill
<1>12. ASSUME NEW h \in Handlers, StatusName(h) \/ StatusGetProps(h) \/ StatusParentLabels(h)
       PROVE  Goal
  BY <1>12, LifeStutter DEF StatusName, StatusGetProps, StatusParentLabels, Resolve
<1>13. ASSUME NEW h \in Handlers, StatusReap(h) PROVE Goal
  <2>1. req[h].cnt \in Cnts
    BY <1>0, <1>13 DEF StatusReap, TypeOK, Requests
  <2>2. QED
    BY <1>0, <1>13, <2>1, LifeStutter, LifeVanishes DEF StatusReap
<1>14. ASSUME NEW h \in Handlers, StatusReply(h) PROVE Goal
  <2> DEFINE c == req[h].cnt
             status == [d \in Cnts |-> LifeStatus(d)]
  <2>1. UNCHANGED <<pod, outer, child, known, priv, removed>>
    BY <1>14 DEF StatusReply
  <2>2. CASE reported' = reported
    BY <2>1, <2>2, LifeStutter
  <2>3. CASE req[h].saw = "dead" /\ reported' = reported \cup {c}
    <3>1. c \in Cnts /\ c \in known /\ outer[c] = "absent"
      BY <1>0, <1>14, <2>3
         DEF StatusReply, TypeOK, Requests, FateInv, ExitIsPast, IInv, Drawn, CreateSteps
    <3>2. status[c] = "gone"
      BY <3>1 DEF LifeStatus
    <3>3. status' = status
      BY <2>1 DEF LifeStatus
    <3>4. Life!Tell(c)
      BY <2>1, <2>3, <3>2, <3>3 DEF Life!Tell
    <3>5. QED
      BY <3>1, <3>4 DEF Life!LifeNext
  <2>4. QED
    BY <1>14, <2>2, <2>3 DEF StatusReply
<1>15. ASSUME NEW h \in Handlers, RemoveDestroy(h) PROVE Goal
  <2>1. req[h].cnt \in Cnts
    BY <1>0, <1>15 DEF RemoveDestroy, TypeOK, Requests
  <2>2. QED
    BY <1>0, <1>15, <2>1, LifeStutter, LifeVanishes DEF RemoveDestroy
<1>16. ASSUME NEW h \in Handlers, RemoveDir(h) PROVE Goal
  <2> DEFINE c == req[h].cnt
             status == [d \in Cnts |-> LifeStatus(d)]
  <2>1. UNCHANGED <<pod, outer, child, known, priv, reported>>
    BY <1>16 DEF RemoveDir
  <2>2. CASE removed' = removed
    BY <2>1, <2>2, LifeStutter
  <2>3. CASE removed' = removed \cup {c}
    <3>1. c \in Cnts /\ c \in known /\ outer[c] = "absent"
      BY <1>0, <1>16 DEF RemoveDir, TypeOK, Requests, IInv, Drawn, DirProgress, CreateSteps
    <3>2. status[c] = "gone"
      BY <3>1 DEF LifeStatus
    <3>3. status' = status
      BY <2>1 DEF LifeStatus
    <3>4. Life!Confirm(c)
      BY <2>1, <2>3, <3>2, <3>3 DEF Life!Confirm
    <3>5. QED
      BY <3>1, <3>4 DEF Life!LifeNext
  <2>4. QED
    BY <1>16, <2>2, <2>3 DEF RemoveDir
<1>17. CASE ListContainers
  <2>1. PICK c \in Cnts : known' = known \cup {c}
    BY <1>17 DEF ListContainers
  <2>2. QED
    BY <1>17, <2>1, LifeAppears DEF ListContainers
<1>18. ASSUME NEW c \in Cnts, ProcessExits(c) PROVE Goal
  BY <1>0, <1>18, LifeEnds DEF ProcessExits
<1>19. CASE PodStopped
  <2>1. \A c \in Cnts :
          /\ outer'[c] = IF outer[c] = "absent" THEN "absent" ELSE "stopped"
          /\ child'[c] = IF child[c] = "absent" THEN "absent" ELSE "stopped"
    BY <1>19 DEF PodStopped
  <2>2. \A c \in Cnts : LifeStatus(c)' = IF LifeStatus(c) \in {"unborn", "gone"}
                                         THEN LifeStatus(c) ELSE "created"
    BY <1>19, <2>1 DEF PodStopped, LifeStatus
  <2>3. Life!StopAll
    BY <1>19, <2>2 DEF PodStopped, Life!StopAll
  <2>4. QED
    BY <2>3 DEF Life!LifeNext
<1>20. CASE PodDestroyed
  <2>1. \A c \in Cnts : outer'[c] = "absent"
    BY <1>20 DEF PodDestroyed
  <2>2. \A c \in Cnts : LifeStatus(c)' = IF LifeStatus(c) = "unborn" THEN "unborn" ELSE "gone"
    BY <1>20, <2>1 DEF PodDestroyed, LifeStatus
  <2>3. Life!VanishAll
    BY <1>20, <2>2 DEF PodDestroyed, Life!VanishAll
  <2>4. QED
    BY <2>3 DEF Life!LifeNext
<1>21. CASE PodDirRemoved \/ Crash \/ UNCHANGED vars
  BY <1>21, LifeStutter DEF PodDirRemoved, Crash, vars
<1>22. QED
  BY <1>1, <1>2, <1>3, <1>4, <1>5, <1>6, <1>7, <1>8, <1>9, <1>10, <1>11, <1>12, <1>13, <1>14,
     <1>15, <1>16, <1>17, <1>18, <1>19, <1>20, <1>21
     DEF Next, CreateStep, StartStep, StopStep, StatusStep, RemoveStep

\* However many requests overlap, fail or are cut off, every container has one life.
THEOREM LifeRefinement == Spec => LifeProperty
<1>1. Init => Life!LifeInit
  <2> SUFFICES ASSUME Init PROVE Life!LifeInit
    OBVIOUS
  <2>1. \A c \in Cnts : LifeStatus(c) = "unborn"
    BY DEF Init, LifeStatus
  <2>2. reported = {} /\ removed = {} /\ (pod # "up") = FALSE
    BY DEF Init
  <2>3. QED
    BY <2>1, <2>2 DEF Life!LifeInit
<1>2. QED
  BY <1>1, LifeStep, IInvHolds, LifeInvHolds, FateInvHolds, PTL
     DEF Spec, LifeProperty, Life!LifeSpec

-----------------------------------------------------------------------------
(* The exit code *)

\* Without a failure, the exit of a container ContainerStatus destroyed is told, or will
\* be by the request that read it.
ExitHeld ==
  faults = 0 /\ crashes = 0 =>
    \A c \in reaped :
      \/ c \in reported
      \/ \E h \in Handlers : req[h].at = "status" /\ req[h].saw = "dead" /\ req[h].cnt = c

\* Steps that destroy nothing for ContainerStatus and answer none.
LEMMA ExitHeldKept ==
  ASSUME ExitHeld, reaped' = reaped, reported' = reported,
         faults' = 0 => faults = 0, crashes' = crashes,
         \A g \in Handlers : req'[g] = req[g] \/ req[g].at # "status"
  PROVE  ExitHeld'
BY DEF ExitHeld

\* Every step keeps ExitHeld.
LEMMA StepExit ==
  ASSUME IInv, LifeInv, ExitHeld, [Next]_vars PROVE ExitHeld'
<1> USE DEF Goto, Return, kubeletVars, portoVars, historyVars
<1>0. TypeOK /\ \A h \in Handlers : req[h] \in Requests
  BY DEF IInv, TypeOK
<1>1. Works \/ Fails => (faults' = 0 => faults = 0)
  BY <1>0, BoundAssumption DEF TypeOK, Works, Fails
<1>2. ASSUME NEW h \in Handlers, Request(h) PROVE ExitHeld'
  BY <1>0, <1>2, ExitHeldKept
     DEF Request, CreateContainer, StartContainer, StopContainer, ContainerStatus,
         RemoveContainer, Begin, TypeOK
<1>3. ASSUME NEW h \in Handlers,
             CreateMkdir(h) \/ CreateSandboxDevices(h) \/ CreateFromSpec(h)
               \/ CreatePrepare(h) \/ CreateUpdate(h) \/ CreateAbort(h)
      PROVE  ExitHeld'
  BY <1>0, <1>1, <1>3, ExitHeldKept
     DEF CreateMkdir, CreateSandboxDevices, CreateFromSpec, CreatePrepare, CreateUpdate,
         CreateAbort, TypeOK
<1>4. ASSUME NEW h \in Handlers, CreateReply(h) \/ RemoveDestroy(h) \/ RemoveDir(h)
      PROVE  ExitHeld'
  BY <1>0, <1>1, <1>4, ExitHeldKept DEF CreateReply, RemoveDestroy, RemoveDir, TypeOK
<1>5. ASSUME NEW h \in Handlers, StartStep(h) PROVE ExitHeld'
  BY <1>0, <1>1, <1>5, ExitHeldKept
     DEF StartStep, StartName, StartStart, StartGetLabels, PrivState, PrivCreate, PrivGetEnv,
         PrivEnv, PrivStart, Resolve, StartSucceeds, AnswerLost, startRest, TypeOK
<1>6. ASSUME NEW h \in Handlers, StopStep(h) PROVE ExitHeld'
  BY <1>0, <1>1, <1>6, ExitHeldKept
     DEF StopStep, StopName, StopGetState, StopKill, Resolve, TypeOK
<1>7. ASSUME NEW h \in Handlers, StatusName(h) \/ StatusGetProps(h) \/ StatusParentLabels(h)
      PROVE  ExitHeld'
  BY <1>0, <1>1, <1>7, ExitHeldKept
     DEF StatusName, StatusGetProps, StatusParentLabels, Resolve, TypeOK
<1>8. ASSUME NEW h \in Handlers, StatusReap(h) PROVE ExitHeld'
  <2>1. \A g \in Handlers \ {h} : req'[g] = req[g]
    BY <1>0, <1>8 DEF StatusReap, TypeOK
  <2>2. req[h].at = "reap" /\ req[h].saw = "dead" /\ reported' = reported /\ crashes' = crashes
    BY <1>8 DEF StatusReap, LifeInv, Sees, StatusSees
  <2>3. CASE reaped' = reaped
    BY <1>1, <1>8, <2>1, <2>2, <2>3, ExitHeldKept DEF StatusReap
  <2>4. CASE Fails
    BY <1>0, <2>4, BoundAssumption DEF Fails, ExitHeld, TypeOK
  <2>5. CASE Works /\ Goto(h, "status") /\ reaped' = reaped \cup {req[h].cnt}
    <3>1. req'[h].at = "status" /\ req'[h].saw = "dead" /\ req'[h].cnt = req[h].cnt
      BY <1>0, <2>2, <2>5 DEF TypeOK, Requests
    <3>2. QED
      BY <2>1, <2>2, <2>5, <3>1 DEF ExitHeld, Works
  <2>6. QED
    BY <1>8, <2>3, <2>4, <2>5 DEF StatusReap
<1>9. ASSUME NEW h \in Handlers, StatusReply(h) PROVE ExitHeld'
  <2>1. \A g \in Handlers \ {h} : req'[g] = req[g]
    BY <1>0, <1>9 DEF StatusReply, TypeOK
  <2>2. CASE Fails
    BY <1>0, <2>2, BoundAssumption DEF Fails, ExitHeld, TypeOK
  <2>3. CASE ~Fails
    BY <1>9, <2>1, <2>3 DEF StatusReply, ExitHeld, Works
  <2>4. QED
    BY <2>2, <2>3
<1>10. CASE ListContainers \/ PodStopped \/ PodDestroyed \/ PodDirRemoved \/ UNCHANGED vars
  BY <1>10, ExitHeldKept DEF ListContainers, PodStopped, PodDestroyed, PodDirRemoved, vars
<1>11. ASSUME NEW c \in Cnts, ProcessExits(c) PROVE ExitHeld'
  BY <1>11, ExitHeldKept DEF ProcessExits
<1>12. CASE Crash
  BY <1>0, <1>12 DEF Crash, ExitHeld, TypeOK
<1>13. QED
  BY <1>2, <1>3, <1>4, <1>5, <1>6, <1>7, <1>8, <1>9, <1>10, <1>11, <1>12
     DEF Next, CreateStep, StatusStep, RemoveStep

\* The exit code of a reaped container is lost only to a call that failed, to an answer
\* that did not reach the kubelet, or to a restart of portoshim: never to requests that
\* overlap, nor to the removal of the pod.
THEOREM ExitLostByFailure ==
  Spec => [](faults = 0 /\ crashes = 0 => ReapedIsReported)
<1>1. Init => ExitHeld
  BY DEF Init, ExitHeld
<1>2. ExitHeld => (faults = 0 /\ crashes = 0 => ReapedIsReported)
  BY DEF ExitHeld, ReapedIsReported
<1>3. QED
  BY <1>1, <1>2, StepExit, IInvHolds, LifeInvHolds, PTL DEF Spec
=============================================================================
