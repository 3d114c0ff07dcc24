------------------------------ MODULE Containers ------------------------------
(***************************************************************************)
(* The container calls of portoshim's CRI server, for the containers of    *)
(* one pod: CreateContainer, StartContainer, StopContainer,                *)
(* ContainerStatus, RemoveContainer and ListContainers of                  *)
(* cmd/portoshim/runtime_mapper.go, with createPrivCnt of privileged.go.   *)
(*                                                                         *)
(* A container of the kubelet is the porto container pod/cnt.  A           *)
(* privileged one has its process in a child, pod/cnt/privileged, that     *)
(* StartContainer makes and that every later call has to find again: the   *)
(* id the kubelet holds is pod/cnt in both cases.                          *)
(*                                                                         *)
(* As in Sandbox, a step is one call to portod or the file system, calls   *)
(* of concurrent requests interleave, and a call may fail before or after  *)
(* it took effect.                                                         *)
(***************************************************************************)
EXTENDS Naturals

CONSTANTS
  Cnts,        \* container ids, what createID draws from
  NoCnt,       \* the container of a handler that serves no request
  Handlers,    \* goroutines that may serve a request at the same time
  MaxFaults,   \* bound on failing calls
  MaxCrashes   \* bound on crashes of portoshim

ASSUME NoCntAssumption == NoCnt \notin Cnts
ASSUME BoundAssumption == MaxFaults \in Nat /\ MaxCrashes \in Nat

VARIABLES
  req,       \* req[h]: the request handler h serves and the call it is at
  pod,       \* "up", "stopped" by its removal, "destroyed" or, with its
             \* directory deleted, "gone"
  outer,     \* outer[c]: the porto state of pod/c
  child,     \* child[c]: the porto state of pod/c/privileged
  priv,      \* the privileged containers
  labels,    \* the containers that carry their labels, command and environment
  env,       \* the containers whose child has been given its environment
  dirs,      \* the containers whose directory exists in VolumesDir
  used,      \* the ids drawn so far
  known,     \* the containers the kubelet knows of
  started,   \* ... got an answer to StartContainer for
  removed,   \* ... got an answer to RemoveContainer for
  unread,    \* history: the containers StartContainer could not read the
             \* labels of
  reaped,    \* the containers ContainerStatus destroyed
  reported,  \* the containers whose exit the kubelet was told
  faults,    \* failing calls so far
  crashes    \* crashes so far

portoVars == <<pod, outer, child, labels, env>>
kubeletVars == <<used, priv, known, started, removed, reported>>
historyVars == <<unread, reaped>>
vars == <<req, pod, outer, child, priv, labels, env, dirs, used, known,
          started, removed, unread, reaped, reported, faults, crashes>>

CreateSteps == {"mkdir", "sandbox", "create", "prepare", "update", "abort", "created"}
StartSteps == {"startName", "start", "getLabels", "privState", "privCreate",
               "privGetEnv", "privEnv", "privStart"}
StopSteps == {"stopName", "getState", "kill"}
StatusSteps == {"statusName", "getProps", "parentLabels", "reap", "status"}
RemoveSteps == {"destroy", "removeAll"}
Steps == {"idle"} \cup CreateSteps \cup StartSteps \cup StopSteps
           \cup StatusSteps \cup RemoveSteps

PortoStates == {"absent", "stopped", "running", "dead"}
Names == {"outer", "child"}

\* A request: the call it is at, the container, the porto container the id was
\* resolved to, and the state that was read.
Requests == [at : Steps, cnt : Cnts \cup {NoCnt}, name : Names, saw : PortoStates]

Idle == [at |-> "idle", cnt |-> NoCnt, name |-> "outer", saw |-> "absent"]

TypeOK ==
  /\ req \in [Handlers -> Requests]
  /\ \A h \in Handlers : req[h].cnt = NoCnt <=> req[h].at = "idle"
  /\ pod \in {"up", "stopped", "destroyed", "gone"}
  /\ outer \in [Cnts -> PortoStates]
  /\ child \in [Cnts -> PortoStates]
  /\ priv \subseteq Cnts /\ labels \subseteq Cnts /\ env \subseteq Cnts
  /\ dirs \subseteq Cnts /\ used \subseteq Cnts /\ known \subseteq Cnts
  /\ started \subseteq Cnts /\ removed \subseteq Cnts
  /\ unread \subseteq Cnts /\ reaped \subseteq Cnts /\ reported \subseteq Cnts
  /\ faults \in 0 .. MaxFaults
  /\ crashes \in 0 .. MaxCrashes

Init ==
  /\ req = [h \in Handlers |-> Idle]
  /\ pod = "up"
  /\ outer = [c \in Cnts |-> "absent"]
  /\ child = [c \in Cnts |-> "absent"]
  /\ priv = {} /\ labels = {} /\ env = {} /\ dirs = {}
  /\ used = {} /\ known = {} /\ started = {} /\ removed = {}
  /\ unread = {} /\ reaped = {} /\ reported = {}
  /\ faults = 0
  /\ crashes = 0

-----------------------------------------------------------------------------
(* Control of a handler *)

Goto(h, step) == req' = [req EXCEPT ![h].at = step]

Return(h) == req' = [req EXCEPT ![h] = Idle]

Works == UNCHANGED faults
Fails == faults < MaxFaults /\ faults' = faults + 1

\* The kubelet sends a request for a container it knows.
Begin(h, step) ==
  /\ req[h].at = "idle"
  /\ \E c \in known : req' = [req EXCEPT ![h] =
       [at |-> step, cnt |-> c, name |-> "outer", saw |-> "absent"]]
  /\ UNCHANGED <<portoVars, dirs, kubeletVars, historyVars, faults, crashes>>

-----------------------------------------------------------------------------
(* portod *)

\* Destroy of pod/c takes the child with it.
DestroyOuter(c) ==
  /\ outer' = [outer EXCEPT ![c] = "absent"]
  /\ child' = [child EXCEPT ![c] = "absent"]
  /\ labels' = labels \ {c}
  /\ env' = env \ {c}
  /\ UNCHANGED pod

\* porto has the pod; one that was stopped can still be given containers.
PodExists == pod \in {"up", "stopped"}

StateOf(name, c) == IF name = "child" THEN child[c] ELSE outer[c]

\* Start needs a stopped container, and a child a running parent.
CanStart(name, c) ==
  /\ StateOf(name, c) = "stopped"
  /\ name = "child" => outer[c] = "running"

SetState(name, c, s) ==
  /\ outer' = IF name = "outer" THEN [outer EXCEPT ![c] = s] ELSE outer
  /\ child' = IF name = "child" THEN [child EXCEPT ![c] = s] ELSE child
  /\ UNCHANGED <<pod, labels, env>>

\* The process of a container ends; with that of pod/c porto ends the child's.
Ends(name, c) ==
  /\ StateOf(name, c) = "running"
  /\ outer' = IF name = "outer" THEN [outer EXCEPT ![c] = "dead"] ELSE outer
  /\ child' = IF child[c] = "running" THEN [child EXCEPT ![c] = "dead"] ELSE child
  /\ UNCHANGED <<pod, labels, env>>

\* generateFullContainerName: the child if GetProperty finds it, else pod/c,
\* there or not.
Resolve(h, next) ==
  /\ \/ Works /\ req' = [req EXCEPT
          ![h].at = next,
          ![h].name = IF child[req[h].cnt] # "absent" THEN "child" ELSE "outer"]
     \/ Fails /\ Goto(h, next)
  /\ UNCHANGED <<portoVars, dirs, kubeletVars, historyVars, crashes>>

-----------------------------------------------------------------------------
(* CreateContainer *)

CreateContainer(h) ==
  /\ req[h].at = "idle"
  /\ \E c \in Cnts \ used :
       /\ req' = [req EXCEPT ![h] =
            [at |-> "mkdir", cnt |-> c, name |-> "outer", saw |-> "absent"]]
       /\ used' = used \cup {c}
       /\ priv' \in {priv, priv \cup {c}}
  /\ UNCHANGED <<portoVars, dirs, known, started, removed, reported,
                 historyVars, faults, crashes>>

\* Image, resources and logs, the directory of the root, then the CDI devices.
\* No error path removes the directory.
CreateMkdir(h) ==
  /\ req[h].at = "mkdir"
  /\ \/ Works /\ Goto(h, "sandbox") /\ dirs' = dirs \cup {req[h].cnt}
     \/ Fails /\ Return(h) /\ dirs' \in {dirs, dirs \cup {req[h].cnt}}
  /\ UNCHANGED <<portoVars, kubeletVars, historyVars, crashes>>

\* UpdateFromSpec gives the devices to the pod first.
CreateSandboxDevices(h) ==
  /\ req[h].at = "sandbox"
  /\ \/ Works /\ PodExists /\ Goto(h, "create")
     \/ Works /\ ~PodExists /\ Return(h)
     \/ Fails /\ Return(h)
  /\ UNCHANGED <<portoVars, dirs, kubeletVars, historyVars, crashes>>

\* Mutant: the labels are set with the rest, as RunPodSandbox sets those of a pod.
MakeLabelled(c) ==
  /\ outer' = [outer EXCEPT ![c] = "stopped"]
  /\ labels' = labels \cup {c}
  /\ UNCHANGED <<pod, child, env>>

\* The porto container as CreateFromSpec makes it, without labels.
Make(c) == SetState("outer", c, "stopped")

CreateFromSpec(h) ==
  LET Made == Make(req[h].cnt) IN
  /\ req[h].at = "create"
  /\ \/ Works /\ PodExists /\ Goto(h, "prepare") /\ Made
     \/ Works /\ ~PodExists /\ Return(h) /\ UNCHANGED portoVars
     \/ Fails /\ Return(h) /\ UNCHANGED portoVars
     \/ Fails /\ PodExists /\ Return(h) /\ Made
  /\ UNCHANGED <<dirs, kubeletVars, historyVars, crashes>>

\* CDI mounts and hooks, environment and command, which look into the root.
\* A privileged container without a command is let through.
CreatePrepare(h) ==
  /\ req[h].at = "prepare"
  /\ \/ Works /\ Goto(h, "update")
     \/ Fails /\ Goto(h, "abort")
  /\ UNCHANGED <<portoVars, dirs, kubeletVars, historyVars, crashes>>

\* UpdateFromSpec sets the command, the environment and, only now, the labels.
CreateUpdate(h) ==
  LET c == req[h].cnt IN
  /\ req[h].at = "update"
  /\ \/ Works /\ outer[c] # "absent" /\ Goto(h, "created") /\ labels' = labels \cup {c}
     \/ Works /\ outer[c] = "absent" /\ Goto(h, "abort") /\ UNCHANGED labels
     \/ Fails /\ Goto(h, "abort")
              /\ labels' \in {labels, IF outer[c] = "absent" THEN labels
                                      ELSE labels \cup {c}}
  /\ UNCHANGED <<pod, outer, child, env, dirs, kubeletVars, historyVars, crashes>>

\* The error paths destroy the container, ignoring the outcome.
CreateAbort(h) ==
  /\ req[h].at = "abort"
  /\ Return(h)
  /\ \/ Works /\ DestroyOuter(req[h].cnt)
     \/ Fails /\ UNCHANGED portoVars
  /\ UNCHANGED <<dirs, kubeletVars, historyVars, crashes>>

\* The answer reaches the kubelet, or is lost: its deadline has passed, or the
\* connection is gone.  So it is with every answer below.
CreateReply(h) ==
  /\ req[h].at = "created"
  /\ Return(h)
  /\ \/ Works /\ known' = known \cup {req[h].cnt}
     \/ Fails /\ UNCHANGED known
  /\ UNCHANGED <<portoVars, dirs, used, priv, started, removed, reported, historyVars,
                 crashes>>

-----------------------------------------------------------------------------
(* ListContainers *)

\* What the list shows of c: pod/c unless it is labelled privileged, and the
\* child of a privileged one under the labels of pod/c.
Listed(c) ==
  /\ outer[c] # "absent"
  /\ c \in labels
  /\ c \notin priv \/ child[c] # "absent"

ListContainers ==
  /\ \E c \in Cnts \ known : Listed(c) /\ known' = known \cup {c}
  /\ UNCHANGED <<req, portoVars, dirs, used, priv, started, removed,
                 reported, historyVars, faults, crashes>>

-----------------------------------------------------------------------------
(* StartContainer *)

StartSucceeds(h) == Return(h) /\ started' = started \cup {req[h].cnt}

AnswerLost(h) == Return(h) /\ UNCHANGED started

startRest == <<used, priv, known, removed, reported, dirs, reaped, crashes>>

StartContainer(h) == Begin(h, "startName")

StartName(h) == req[h].at = "startName" /\ Resolve(h, "start")

\* Start of the porto container the id was resolved to; the remounts that
\* follow are only logged when they fail.  In a pod that was stopped porto may
\* refuse.
StartStart(h) ==
  LET r == req[h] IN
  /\ r.at = "start"
  /\ \/ Works /\ CanStart(r.name, r.cnt) /\ Goto(h, "getLabels")
              /\ SetState(r.name, r.cnt, "running")
     \/ Works /\ (~CanStart(r.name, r.cnt) \/ pod = "stopped")
              /\ Return(h) /\ UNCHANGED portoVars
     \/ Fails /\ Return(h) /\ UNCHANGED portoVars
     \/ Fails /\ Return(h) /\ CanStart(r.name, r.cnt)
              /\ SetState(r.name, r.cnt, "running")
  /\ UNCHANGED <<startRest, started, unread>>

\* The labels tell a privileged container.  If they cannot be read, the call
\* reports success.
StartGetLabels(h) ==
  LET r == req[h]
      Privileged == r.name = "outer" /\ r.cnt \in labels \cap priv
  IN
  /\ r.at = "getLabels"
  /\ \/ /\ Works
        /\ IF Privileged THEN Goto(h, "privState") /\ UNCHANGED started
                         ELSE StartSucceeds(h)
        /\ UNCHANGED unread
     \/ Fails /\ StartSucceeds(h) /\ unread' = unread \cup {r.cnt}
     \/ Fails /\ AnswerLost(h) /\ UNCHANGED unread
  /\ UNCHANGED <<portoVars, startRest>>

\* createPrivCnt: a child that is there and not dead is taken as done.
PrivState(h) ==
  LET Done == child[req[h].cnt] \in {"running", "stopped"} IN
  /\ req[h].at = "privState"
  /\ \/ Works /\ Done /\ StartSucceeds(h)
     \/ Works /\ ~Done /\ Goto(h, "privCreate") /\ UNCHANGED started
     \/ Fails /\ Goto(h, "privCreate") /\ UNCHANGED started
     \/ Fails /\ Done /\ AnswerLost(h)
  /\ UNCHANGED <<portoVars, startRest, unread>>

PrivCreate(h) ==
  LET c == req[h].cnt
      Can == outer[c] # "absent" /\ child[c] = "absent"
      Made == SetState("child", c, "stopped")
  IN
  /\ req[h].at = "privCreate"
  /\ \/ Works /\ Can /\ Goto(h, "privGetEnv") /\ Made
     \/ Works /\ ~Can /\ Return(h) /\ UNCHANGED portoVars
     \/ Fails /\ Return(h) /\ UNCHANGED portoVars
     \/ Fails /\ Can /\ Return(h) /\ Made
  /\ UNCHANGED <<startRest, started, unread>>

\* The environment of pod/c is read ...
PrivGetEnv(h) ==
  LET c == req[h].cnt IN
  /\ req[h].at = "privGetEnv"
  /\ \/ Works /\ outer[c] # "absent" /\ Goto(h, "privEnv")
     \/ Works /\ outer[c] = "absent" /\ Return(h)
     \/ Fails /\ Return(h)
  /\ UNCHANGED <<portoVars, startRest, started, unread>>

\* ... and given to the child, which must not run yet.
PrivEnv(h) ==
  LET c == req[h].cnt
      Given == env' = env \cup {c}
  IN
  /\ req[h].at = "privEnv"
  /\ \/ Works /\ child[c] = "stopped" /\ Goto(h, "privStart") /\ Given
     \/ Works /\ child[c] # "stopped" /\ Return(h) /\ UNCHANGED env
     \/ Fails /\ Return(h) /\ UNCHANGED env
     \/ Fails /\ child[c] = "stopped" /\ Return(h) /\ Given
  /\ UNCHANGED <<pod, outer, child, labels, startRest, started, unread>>

\* Mutant: UpdateFromSpec is called without start.
PrivStartNot(h) ==
  /\ req[h].at = "privStart"
  /\ \/ Works /\ StartSucceeds(h)
     \/ Fails /\ AnswerLost(h)
  /\ UNCHANGED <<portoVars, startRest, unread>>

\* UpdateFromSpec with start.
PrivStart(h) ==
  LET c == req[h].cnt
      Start == SetState("child", c, "running")
  IN
  /\ req[h].at = "privStart"
  /\ \/ Works /\ CanStart("child", c) /\ StartSucceeds(h) /\ Start
     \/ Works /\ (~CanStart("child", c) \/ pod = "stopped")
              /\ Return(h) /\ UNCHANGED <<portoVars, started>>
     \/ Fails /\ Return(h) /\ UNCHANGED <<portoVars, started>>
     \/ Fails /\ CanStart("child", c) /\ AnswerLost(h) /\ Start
  /\ UNCHANGED <<startRest, unread>>

-----------------------------------------------------------------------------
(* StopContainer *)

StopContainer(h) == Begin(h, "stopName")

StopName(h) == req[h].at = "stopName" /\ Resolve(h, "getState")

\* An error is only logged: the call then succeeds without a signal.
StopGetState(h) ==
  LET r == req[h] IN
  /\ r.at = "getState"
  /\ \/ Works /\ StateOf(r.name, r.cnt) = "running" /\ Goto(h, "kill")
     \/ Works /\ StateOf(r.name, r.cnt) # "running" /\ Return(h)
     \/ Fails /\ Return(h)
  /\ UNCHANGED <<portoVars, dirs, kubeletVars, historyVars, crashes>>

\* SIGTERM ends the process now, later or never; porto refuses to signal a
\* container that no longer runs.
StopKill(h) ==
  LET r == req[h] IN
  /\ r.at = "kill"
  /\ Return(h)
  /\ \/ Works /\ UNCHANGED portoVars
     \/ Works /\ Ends(r.name, r.cnt)
     \/ Fails /\ UNCHANGED portoVars
  /\ UNCHANGED <<dirs, kubeletVars, historyVars, crashes>>

-----------------------------------------------------------------------------
(* ContainerStatus *)

ContainerStatus(h) == Begin(h, "statusName")

StatusName(h) == req[h].at = "statusName" /\ Resolve(h, "getProps")

\* Mutant: whatever does not run is cleaned up.
IsOverStopped(s) == s \in {"dead", "stopped"}

\* The state that makes ContainerStatus destroy the container.
IsOver(s) == s = "dead"

\* State, times and exit code of the container the id was resolved to.
StatusGetProps(h) ==
  LET r == req[h]
      s == StateOf(r.name, r.cnt)
      next == IF r.name = "child" THEN "parentLabels"
              ELSE IF IsOver(s) THEN "reap" ELSE "status"
  IN
  /\ r.at = "getProps"
  /\ \/ Works /\ s # "absent" /\ req' = [req EXCEPT ![h].at = next, ![h].saw = s]
     \/ Works /\ s = "absent" /\ Return(h)
     \/ Fails /\ Return(h)
  /\ UNCHANGED <<portoVars, dirs, kubeletVars, historyVars, crashes>>

\* The metadata of a privileged container is that of pod/c.
StatusParentLabels(h) ==
  LET r == req[h] IN
  /\ r.at = "parentLabels"
  /\ \/ /\ Works /\ outer[r.cnt] # "absent"
        /\ Goto(h, IF IsOver(r.saw) THEN "reap" ELSE "status")
     \/ Works /\ outer[r.cnt] = "absent" /\ Return(h)
     \/ Fails /\ Return(h)
  /\ UNCHANGED <<portoVars, dirs, kubeletVars, historyVars, crashes>>

\* destroyDead destroys pod/c before the answer leaves; if that fails there is
\* no answer.  The directory stays.
StatusReap(h) ==
  LET c == req[h].cnt
      Reap == DestroyOuter(c) /\ reaped' = reaped \cup {c} /\ UNCHANGED unread
  IN
  /\ req[h].at = "reap"
  /\ \/ Works /\ outer[c] # "absent" /\ Goto(h, "status") /\ Reap
     \/ Works /\ outer[c] = "absent" /\ Return(h) /\ UNCHANGED <<portoVars, historyVars>>
     \/ Fails /\ Return(h) /\ UNCHANGED <<portoVars, historyVars>>
     \/ Fails /\ outer[c] # "absent" /\ Return(h) /\ Reap
  /\ UNCHANGED <<dirs, kubeletVars, crashes>>

\* Mutant: porto's stopped, which is a container not started yet, is taken for an
\* exit.
StatusReplyStopped(h) ==
  /\ req[h].at = "status"
  /\ Return(h)
  /\ \/ /\ Works
        /\ reported' = IF req[h].saw # "running" THEN reported \cup {req[h].cnt}
                                                 ELSE reported
     \/ Fails /\ UNCHANGED reported
  /\ UNCHANGED <<portoVars, dirs, used, priv, known, started, removed,
                 historyVars, crashes>>

StatusReply(h) ==
  /\ req[h].at = "status"
  /\ Return(h)
  /\ \/ /\ Works
        /\ reported' = IF req[h].saw = "dead" THEN reported \cup {req[h].cnt}
                                              ELSE reported
     \/ Fails /\ UNCHANGED reported
  /\ UNCHANGED <<portoVars, dirs, used, priv, known, started, removed,
                 historyVars, crashes>>

-----------------------------------------------------------------------------
(* RemoveContainer *)

RemoveContainer(h) == Begin(h, "destroy")

\* Mutant: the directory goes before the container.
RemoveDestroyLast(h) ==
  LET c == req[h].cnt IN
  /\ req[h].at = "destroy"
  /\ dirs' = dirs \ {c}
  /\ \/ Works /\ outer[c] # "absent" /\ Goto(h, "removeAll") /\ DestroyOuter(c)
     \/ Works /\ outer[c] = "absent" /\ Return(h) /\ UNCHANGED portoVars
     \/ Fails /\ Return(h) /\ UNCHANGED portoVars
  /\ UNCHANGED <<kubeletVars, historyVars, crashes>>

\* Destroy of a container that is not there is an error.
RemoveDestroy(h) ==
  LET c == req[h].cnt IN
  /\ req[h].at = "destroy"
  /\ \/ Works /\ outer[c] # "absent" /\ Goto(h, "removeAll") /\ DestroyOuter(c)
     \/ Works /\ outer[c] = "absent" /\ Return(h) /\ UNCHANGED portoVars
     \/ Fails /\ Return(h) /\ UNCHANGED portoVars
     \/ Fails /\ Return(h) /\ DestroyOuter(c)
  /\ UNCHANGED <<dirs, kubeletVars, historyVars, crashes>>

\* Mutant: an error of RemoveAll is logged and the call reports success.
RemoveDirGoesOn(h) ==
  LET c == req[h].cnt IN
  /\ req[h].at = "removeAll"
  /\ Return(h)
  /\ removed' = removed \cup {c}
  /\ \/ Works /\ dirs' = dirs \ {c}
     \/ Fails /\ dirs' \in {dirs, dirs \ {c}}
  /\ UNCHANGED <<portoVars, used, priv, known, started, reported, historyVars,
                 crashes>>

\* os.RemoveAll of the directory.
RemoveDir(h) ==
  LET c == req[h].cnt IN
  /\ req[h].at = "removeAll"
  /\ Return(h)
  /\ \/ Works /\ dirs' = dirs \ {c} /\ removed' = removed \cup {c}
     \/ Fails /\ dirs' \in {dirs, dirs \ {c}} /\ UNCHANGED removed
  /\ UNCHANGED <<portoVars, used, priv, known, started, reported, historyVars,
                 crashes>>

-----------------------------------------------------------------------------
(* The environment *)

\* A process ends, after SIGTERM or by itself.
ProcessExits(c) ==
  /\ \E name \in Names : Ends(name, c)
  /\ UNCHANGED <<req, dirs, kubeletVars, historyVars, faults, crashes>>

\* RemovePodSandbox stops the pod with all its containers, whatever state they
\* are in.  When CNI DEL fails it goes no further, and porto's stopped is again
\* that of a container which can be started; the kubelet asks again ...
PodStopped ==
  LET Stopped(s) == IF s = "absent" THEN "absent" ELSE "stopped" IN
  /\ PodExists
  /\ pod' = "stopped"
  /\ outer' = [c \in Cnts |-> Stopped(outer[c])]
  /\ child' = [c \in Cnts |-> Stopped(child[c])]
  /\ UNCHANGED <<req, labels, env, dirs, kubeletVars, historyVars, faults, crashes>>

\* ... destroys them ...
PodDestroyed ==
  /\ pod = "stopped"
  /\ pod' = "destroyed"
  /\ outer' = [c \in Cnts |-> "absent"]
  /\ child' = [c \in Cnts |-> "absent"]
  /\ labels' = {}
  /\ env' = {}
  /\ UNCHANGED <<req, dirs, kubeletVars, historyVars, faults, crashes>>

\* ... and deletes the directory of the pod, which holds those of the containers.
PodDirRemoved ==
  /\ pod = "destroyed"
  /\ pod' = "gone"
  /\ dirs' = {}
  /\ UNCHANGED <<req, outer, child, labels, env, kubeletVars, historyVars, faults, crashes>>

\* portoshim dies and is started again: no request survives.
Crash ==
  /\ crashes < MaxCrashes
  /\ crashes' = crashes + 1
  /\ req' = [h \in Handlers |-> Idle]
  /\ UNCHANGED <<portoVars, dirs, kubeletVars, historyVars, faults>>

-----------------------------------------------------------------------------
CreateStep(h) ==
  \/ CreateMkdir(h) \/ CreateSandboxDevices(h) \/ CreateFromSpec(h)
  \/ CreatePrepare(h) \/ CreateUpdate(h) \/ CreateAbort(h) \/ CreateReply(h)

StartStep(h) ==
  \/ StartName(h) \/ StartStart(h) \/ StartGetLabels(h) \/ PrivState(h)
  \/ PrivCreate(h) \/ PrivGetEnv(h) \/ PrivEnv(h) \/ PrivStart(h)

StopStep(h) == StopName(h) \/ StopGetState(h) \/ StopKill(h)

StatusStep(h) ==
  \/ StatusName(h) \/ StatusGetProps(h) \/ StatusParentLabels(h) \/ StatusReap(h)
  \/ StatusReply(h)

RemoveStep(h) == RemoveDestroy(h) \/ RemoveDir(h)

Request(h) ==
  \/ CreateContainer(h) \/ StartContainer(h) \/ StopContainer(h)
  \/ ContainerStatus(h) \/ RemoveContainer(h)

Next ==
  \/ \E h \in Handlers : \/ Request(h) \/ CreateStep(h) \/ StartStep(h) \/ StopStep(h)
                         \/ StatusStep(h) \/ RemoveStep(h)
  \/ ListContainers
  \/ \E c \in Cnts : ProcessExits(c)
  \/ PodStopped
  \/ PodDestroyed
  \/ PodDirRemoved
  \/ Crash

Spec == Init /\ [][Next]_vars

-----------------------------------------------------------------------------
(* Properties *)

\* The kubelet learns of a container, by the answer or by a list, only when
\* CreateContainer has nothing left to do but answer, or to undo its work: the
\* labels come last, so that no other call meets a container in the making.
KnownIsComplete ==
  \A h \in Handlers :
    req[h].at \in CreateSteps \ {"created", "abort"} => req[h].cnt \notin known

\* As long as RemovePodSandbox has not stopped the pod, ContainerStatus never
\* destroys a container that has not run to its end: what was read of the
\* container the id was resolved to still holds, of pod/c and of the child, when
\* destroyDead comes.
ReapsOnlyExited ==
  [][\A h \in Handlers :
       LET c == req[h].cnt IN
       pod = "up" /\ c \in reaped' \ reaped =>
         /\ outer[c] = "dead" \/ child[c] = "dead"
         /\ c \notin priv => outer[c] = "dead"
         /\ child[c] # "running"]_vars

\* After RemoveContainer reported success nothing is left of the container in
\* porto and in VolumesDir, and no late call brings any of it back.
RemovedIsGone ==
  \A c \in removed : outer[c] = "absent" /\ child[c] = "absent" /\ c \notin dirs

\* porto never has a container whose directory is gone.
ContainerHasDir == \A c \in Cnts : outer[c] # "absent" => c \in dirs

\* As long as RemovePodSandbox has not stopped the pod, a container that
\* StartContainer answered for has had its process started, in the child if it is
\* privileged, and is listed, whatever calls failed, were repeated or overlapped.
\* The one exception is a privileged container whose labels could not be read.
StartedHasRun ==
  pod = "up" =>
    \A c \in started \ (unread \cap priv) : outer[c] # "absent" =>
      /\ StateOf(IF c \in priv THEN "child" ELSE "outer", c) \in {"running", "dead"}
      /\ Listed(c)

\* The process of a privileged container starts with the environment of the
\* container, "set on the parent" (privileged.go:144).
ChildHasEnv == \A c \in Cnts : child[c] \in {"running", "dead"} => c \in env

\* "A dead container is reaped right after its status is reported"
\* (runtime_mapper_test.go:767): of a reaped container the exit was told, or is
\* about to be.
ReapedIsReported ==
  \A c \in reaped :
    c \in reported \/ \E h \in Handlers : req[h].at = "status" /\ req[h].cnt = c

\* How far the process of a container known to the kubelet has come.  That of a
\* privileged container is still to be started when pod/c runs.
LifeStatus(c) ==
  IF c \notin known THEN "unborn"
  ELSE IF outer[c] = "absent" THEN "gone"
  ELSE IF outer[c] = "dead" \/ child[c] = "dead" THEN "exited"
  ELSE IF outer[c] = "stopped" THEN "created"
  ELSE IF c \in priv /\ child[c] # "running" THEN "starting"
  ELSE "running"

Life == INSTANCE ContainerLife WITH
  status <- [c \in Cnts |-> LifeStatus(c)],
  told <- reported,
  confirmed <- removed,
  removing <- pod # "up"

\* The calls lead a container through one life: it is started once, comes back
\* from its end only when the removal of its pod stops it, and what the kubelet
\* is told of its end is final.
LifeProperty == Life!LifeSpec
=============================================================================
