# A TLA+ development of portoshim

portoshim is the CRI server between the kubelet and portod, the daemon of the
Porto container system. This directory holds TLA+ models of its core, TLC
configurations that check them on small instances, and proofs, checked by TLAPS,
of what matters most for every number of pods, containers and concurrent calls.

`PROJECT.json` lists the components, the runs, the source lines each definition
stands for, one mutation per checked property that breaks it, the disagreements
between code and comments the runs found, and the hazards the properties are for.

## 1. Inventory

Paths are relative to `src/cmd/`. R is `portoshim/runtime_mapper.go`.

| Component | State it keeps | Operations | What is hard | What makes it correct |
|---|---|---|---|---|
| Pod sandbox calls (R 1211-1585) | none of its own: portod, CNI plugins, `NetnsDir`, `VolumesDir` | Run, Stop, Remove, List | every call is several steps on other services, no lock, crash or failure between any two, duplicates from the kubelet | a network attachment is never orphaned; a running pod has its network and root; removal ends |
| Pod network (R 979-1150, 1361-1403) | CNI attachment, named network namespace | ADD, DEL, make and remove the namespace | ADD done before it is recorded; DEL needs the metadata of the pod | DEL before Destroy, after Stop |
| Container calls (R 1587-2141) | portod, `VolumesDir` | Create, Start, Stop, Status, Remove, List | container visible while in the making; Status destroys what is dead; pod removed meanwhile | nobody meets a half-made container; only what ran to its end is reaped; what is removed stays so |
| Privileged containers (`portoshim/privileged.go`) | child `pod/cnt/privileged` | make, give environment, start | three steps, retried over a crash; one CRI id for two porto containers | the child gets its environment; the id leads to the right one |
| logshim (`logshim/main.go`) | two pipes, two buffers, a mutex, stdout | start, read, write, wait | three goroutines, main does not wait for the others | whole log lines, no gaps, the exit code of the command |
| Port forwarding (`portoshim/portforward.go`, `streaming.go`) | OS threads, connection, two goroutines | find the namespace, dial in it, copy | threads moved between namespaces, half-close, goroutines nobody waits for | connection in the right pod, threads back on the host, nothing leaks |
| Exec and ExecSync (`streaming.go`, R 2152-2224) | a weak child container, pipes or a terminal, copying goroutines | create, wait, copy, destroy | timeout, lost answers, connections that nobody closes, goroutines nobody waits for | the exec container goes, also after a failure or restart; ExecSync answers only for what has ended |
| CDI (`cdi.go`, R 1726-1739) | none of its own: volumes, the container root | resolve devices, place and bind mounts, run hooks | symlinks in the root, volumes with two owners, hooks that hang | mounts go where they lead inside the root, once; no volume is kept; hooks in order |
| gRPC server (`server.go`, `main.go`, `registry.go`) | socket, listener, requests under way | start, accept, serve, shut down | signals at any time, what the last run left behind | a stop answers what it accepted and ends; it serves again after a failure |
| Logger (`logger.go`) | the log file, a channel for SIGHUP | write, reopen | write and reopen at the same time, signals faster than the sink | the log follows its path; the sink is open |
| Mounts (`volume.go`, R 478-539) | `tmpfsDirs`, an unlocked map | add on create, delete on remove | data race, lost at restart | not modelled |
| Ids, names, labels (R 112-204, 542-653, 1184-1209) | `parentCnt`, read once | conversions | prefix without a slash, error cached for ever | not modelled |
| Configuration (`config.go`) | the values, read once | read | - | a step of the start |
| Images, stats, status, version, CRI forwarding | none | forward or convert | - | not modelled: read-only or stateless |

How they interact. The kubelet calls portoshim over gRPC; each call runs in a
goroutine of its own (`server.go:74`) with its own connection to portod and takes
no lock. portoshim itself remembers nothing about pods and containers: everything
is in portod's properties and labels, the CNI plugins and two directories. So
calls interact only through those, and a restart loses exactly the requests under
way. logshim is a separate process in each container, put in front of its command
by `wrapCmdWithLogShim` (R 254). Port forwarding is served by the streaming server
in the same process.

## 2. Modules

| Module | Models | Runs |
|---|---|---|
| `Sandbox` | sandbox calls with the pod network | `sandbox`, `sandbox_restart`, `sandbox_l3` |
| `SandboxLease` | what those calls promise about the network of a pod, abstractly | as property `LeaseProperty` of `sandbox` |
| `SandboxProofs` | theorems on `Sandbox` | - |
| `Containers` | container calls with privileged containers | `containers`, `containers_env`, `containers_reap` |
| `ContainerLife` | what those calls promise about the process of a container, abstractly | as property `LifeProperty` of `containers` |
| `ContainersProofs` | theorems on `Containers` | - |
| `LogShim` | logshim | `logshim`, `logshim_lost` |
| `LogShimProofs` | theorems on `LogShim` | - |
| `PortForward` | port forwarding | `portforward` |
| `PortForwardProofs` | theorems on `PortForward` | - |
| `Exec` | ExecSync and streaming Exec | `exec` |
| `ExecProofs` | theorems on `Exec` | - |
| `Cdi` | CDI devices of a container | `cdi` |
| `CdiReference` | what a path in a container root means, by recursion over the path | as property `ResolvesAsInRoot` of `cdi` |
| `CdiProofs` | theorems on `Cdi` | - |
| `CdiReferenceProofs` | `resolveInRoot` and `cdiMountTarget` agree with `CdiReference` | - |
| `Server` | start, service, stop and log of the process | `server` |
| `ServerProofs` | theorems on `Server` | - |
| `MC...` | constants, symmetry | |

Operators named after another with a suffix and introduced by a comment
"Mutant:" are plausible bugs; nothing in the specifications uses them.

### Sandbox

The state is what portod (`state`, `net`), the CNI plugins (`cni`), `NetnsDir`
(`netns`) and `VolumesDir` (`roots`) hold per pod, what the kubelet knows
(`answered`, `known`, `doomed`), and where each handler is (`req`). One action is
one call to portod, CNI or the file system with the code up to the next one:

    RunPodSandbox -> RunImage -> RunRoot -> RunCreate -> RunCommand
      -> RunNewNetNS -> RunSetup -> RunUpdate -> RunReply      (or RunAbort)
    RemovePodSandbox -> RemoveGetNet -> RemoveGetLabels -> RemoveStopTimeout
      -> RemoveCniDel -> RemoveNetNS -> RemoveDestroy -> RemoveRoot
    StopPodSandbox -> StopGetState -> StopKill

Every call may work or fail, and a failing one may still have had its effect
(portod answers too late, CNI ADD attached one of two networks). `Crash` restarts
portoshim between any two calls; `NewPortoshimServer` recovers nothing.

Modelling decisions:
- An id is drawn once. `createID` may draw one of 65536 numbers twice for the same
  name; that is listed as a hazard and not modelled.
- `NewNetNS` draws a random name; the model names a namespace by its pod.
- CNI DEL is idempotent: a pod without attachment can be deleted again. go-cni takes
  the error of a plugin for success when its text has "not found", or "no such file"
  and the path of the namespace is empty. `RemoveCniDel` then goes on whether or not
  the attachment is gone, and `ignored` remembers the pod: no property could excuse
  those otherwise. `network_cleanup_test.go:179` accepts the attachment left behind.
- The answer to RunPodSandbox may be lost (`RunReply`): the kubelet then knows of the
  pod by a list only, and it counts as not answered.
- `StopTimeout` of a stopped pod is no error, `Destroy` of an absent one is.
- `NetMode` is "L3" only with a parent container and `CNI.NetType` other than netns.
- `KubeletWaits`: the kubelet does not stop or remove a sandbox whose
  `RunPodSandbox` is still being served. Its pod workers serialise the calls for a
  pod, but its garbage collector works from lists; after a gRPC timeout it may
  indeed act on a pod that is still being launched. The assumption is therefore an
  explicit constant: with `KubeletWaits = FALSE` a removal that overtakes
  `RunUpdate` destroys the pod with its attachment left, and `DestroyAfterDel`
  fails without any crash.

### Containers

Here a pod has several containers, each of them the porto container `pod/c`
(`outer`) and, if privileged, its child (`child`); `labels` and `env` say which
were given their labels and environment, `dirs` which directories exist.
`Resolve` is `generateFullContainerName`, by which all calls but RemoveContainer
decide which of the two an id means. `PodStopped`, `PodDestroyed` and `PodDirRemoved`
are StopTimeout, Destroy and RemoveAll of RemovePodSandbox seen from the containers.
Between the first two lies CNI DEL, which may fail, and then the pod stays as it is:
porto has stopped the containers whatever state they were in, and its "stopped" is also
the state of a container never started. They can be started again, an exited one
too; a privileged one is then resolved to its child, and whether porto starts it in a
stopped pod is left open. What the kubelet may rely on is therefore stated up to the
stop, or, in `ContainerLife`, with a step for it (`StopAll`). An answer may be lost on
its way to the kubelet (a deadline, a connection); that counts as a failing call.
`unread` remembers the containers StartContainer could not read the labels of.

The configuration without parent container is modelled; the parts under
`len(Cfg.Porto.ParentContainer) != 0` are not. Both remounts of StartContainer are
part of `StartStart` and `StartGetLabels`; their errors are only logged.
A privileged container whose command was not found is given an empty one
(R 1779) and its child would be in porto's state meta, which is reported as running;
the model has only children with a command.

### LogShim

What the command writes to a stream is a row of items, each a piece of a line or
one that ends a line. `wrote`, `taken` and `cut` say how much of the row was
written, read from the pipe, and returned by `ReadSlice`, so that the pipe holds
`wrote - taken` and the buffer `taken - cut` items. The two writes of `syncWrite`
are separate steps under the mutex. `Wait` closes both pipes in one step; a process
the command left behind may keep them open until then. `PassCode` or a `Fatal` ends
everything at once. The command may be killed (`ExitCode` -1, status 255). Items are
opaque: that `json.Marshal` turns a rune cut at the limit of the buffer into U+FFFD
(`logshim/main.go:43`) is not in the model, which says where a line is cut and not how
its pieces are spelled.

### PortForward

Each session has a pod of its own with one of three kinds of network. `OpenNetNS`
to `Back` run on a locked thread taken from a small pool; a thread that could not
be moved back is discarded. `copy` holds the two goroutines and their buffered
channels. Between the look-up of the namespace and its opening the pod may be
removed and, for L3, its process id be given to a process elsewhere.

The goroutine that copies from the client is blocked in a read of the SPDY stream.
Nothing of the session ends that: `stream.Close` (`streaming.go:213`) only sends a FIN
the other way, and a connection that the pod has reset or the session has closed is
noticed when there is something to write to it (`InFails`), which nobody has to send.
So it ends with the client (`InEnds`), whose stream may end after the session; with a
client that keeps its stream open and stays silent it is there as long as the stream.

### Exec

One action per call to portod or step of a goroutine:

    ExecSync: Connect -> GetEnv -> prepareCommand -> CreateFromSpec -> SyncWait
      -> GetExitCode -> GetStreams -> Destroy
    Exec: Connect -> GetLabels -> GetEnv -> prepareCommand -> CreateFromSpec
      -> StartCopying -> ExecWait -> Destroy -> CloseFiles,  with CopyOut, CopyOutEnds,
      CopyInEnds beside it

`cont` is the exec container, `parent` the container it is in, `out` what the
command wrote, what is in its pipe and what the client got, `copier` the two
goroutines (stderr is like stdout). The exec container is weak: portod destroys it
when the connection it was made on is closed. The code never closes a connection
(`server.go:80`, `streaming.go:42`); the finalizer of its socket does, when no
goroutine of the call is left (`Collect`), or the end of the process. `undone` holds
the calls whose Destroy failed, or that never learnt that their container was made.

- ExecSync returns what porto keeps of the output, its end (`Tail`, of at most
  `TailSize`; R 2201), and not what a file or pipe may hold beyond that.
- Exec does not use the context of its request: a client that leaves does not end
  the call; and it answers nil whatever the command returned.
- A terminal's files are in blocking mode after `Fd()`, so that Close does not end a
  Read on them; reading ends when the command has closed its side (`HeldByTerminal`).
- The end of the client's input is not passed on: nobody closes the pipe before the
  call ends. The command of the model may or may not end, whatever its input.

### Cdi

One CreateContainer call with one request (`job`), from the annotations to the end
of the hooks. A path is a sequence of components; of the container root the model
has its symlinks. `dev` is the loop of `resolveCDIDevices`; `parts`, `current`,
`base`, `symlinks` are `cdiMountTarget` and `resolveInRoot`, one component of a path
per step; `vols`, `self`, `bound`, `lost` are the bind volumes, those linked to
portoshim, to the container, and those a failure left behind; `hook` and `ran` are
`runCDIHooks`. The container may be removed between any two steps.

- The root of a container that is not started does not change, and its Lstat fails
  only for what is missing; Readlink may fail.
- `resolveInRoot` sees the image, not what was mounted before: the lookups of a
  later mount do not go through an earlier one, in the code and in the model.
- `CombinedOutput` returns when the hook has ended and its output is closed; the
  timeout kills the hook, not what it started.
- Environment and device nodes are kept as the edit they come from.

### Server

`at` is where `main` is, `grpc` the server and its goroutine, `socket` what is at
the path of the socket, `req` the requests, each of which logs a line. The log:
`log[d]` is the file that descriptor d leads to, `fd` the descriptor in the sink,
`path` the file at the path of the log; logrotate renames it and sends SIGHUP
(`build/packages/portoshim/debian/portoshim.logrotate`). The service manager starts
what has failed again (`Restart=on-failure`, `portoshim.service`), so that an exit
with status 0, which is what `main` does when configuration or logger fail, or death
by SIGHUP before `newSink` has asked for it, ends the service. SIGTERM before
`ShutdownCtx` ends the process at once. A stop that comes before the goroutine of
`Serve` makes that one fail, and `Fatalf` then ends the process with status 1.
`GracefulStop` waits for handlers: the model has only handlers that end, which is so
for ExecSync by its timeout; the streaming server is not waited for.

## 3. Runs

| Run | Instance | Shows |
|---|---|---|
| `sandbox` | 1 pod, 3 handlers, 2 faults (a DEL taken for success is one), 2 crashes | `AnsweredKeepsNetwork`, `RunningHasNetwork`, `PodHasRoot`, `RemovalSucceeds`, and that `Sandbox` implements `SandboxLease` |
| `containers` | 1 container, 3 handlers, 1 fault, 1 crash | `KnownIsComplete`, `ReapsOnlyExited`, `RemovedIsGone`, `ContainerHasDir`, `StartedHasRun`, and that `Containers` implements `ContainerLife` |
| `logshim` | 3 items on stdout, 1 on stderr, pipe and buffer of 2, 1 fault | `EntriesWhole`, `LogIsPrefix`, `EndedIsLogged`, `ExitTells`, `PipesAreRead` |
| `portforward` | 2 sessions (netns; node or L3), 2 threads, 1 fault | `FreeThreadsAtHome`, `ConnInPod`, `ResponseDelivered`, `NothingLeft`, `PodEndsSession` |
| `exec` | 1 call of any kind, with and without input, pipe of 2, 3 pieces of output, a tail of 2, 2 faults, 1 crash | `GoneAtReturn`, `SyncAnswerIsFinal`, `GoesInTheEnd`, `CallEnds`, `OutputFlows` |
| `cdi` | 3 lists of mounts over every root with up to two of four symlinks; up to 3 of 4 devices over 8 pairs of spec files; 3 symlinks at most, 2 faults, 1 crash | `ResolvesAsInRoot`, `TargetsAreNoLinks`, `OneMountPerTarget`, `VolumesHandedOver`, `HooksInOrder`, `EditsAsRequested`, `NearerTheEnd`, `CreateEnds` |
| `server` | 2 requests, 2 rotations, 1 fault, 1 crash | `SinkFollowsPath`, `SinkIsOpen`, `StopAnswersAll`, `ServesAgain`, `StopEnds` |

`exec` also checks `TypeOK`; the other type invariants are proved and in no run.

Why the bounds are enough. Calls for different pods share nothing but handlers, so
one pod is enough, and the theorems, which hold for all of them, confirm it; three
handlers have a launch, a removal and its duplicate at the same time, and two crashes
hit a call and its retry. For containers a third handler lets a status, a start and a
removal overlap; one fault and one crash, at any two steps, keep its 900 000 states
within reach, and all six of its properties are proved for any number of both. Elsewhere
two faults make a call fail and its clean-up or its retry fail too; one crash can come
between any two steps. In logshim three items overflow a buffer of
two, fill a pipe of two, and leave a piece behind; one item on the other stream
competes for the mutex. Two sessions on two threads reuse a thread the other has
moved. Exec calls share no state but their container, so that one call is enough; three
pieces fill a pipe of two, and are more than a tail of two. Two symlinks make chains,
circles and links to links, and a limit of three is exceeded by a circle. Two rotations
put a signal into the channel while the sink reopens, and a second request writes
meanwhile.

No run checks for deadlock, because the system may stop: ids are
drawn once, so that a failed creation leaves the kubelet nothing to ask; logshim
ends; sessions, exec calls and the CDI steps end, and a stopped service stays down.

Fairness, in all passing runs but `containers`, and stated for steps that work
(`Works /\ ...`), so that no property depends on calls that have to fail:
- weak fairness of every step of a goroutine: Go's scheduler runs what can run, and
  timers fire;
- strong fairness of the kubelet's removal request for a pod whose removal failed
  (it retries on every sync) - handlers are free only now and then in the model;
- strong fairness of `Lock` in logshim: a Go mutex goes into starvation mode and is
  handed to the one that has waited longest;
- weak fairness of the garbage collector (Go forces a run every two minutes), of
  portod's care for weak containers and of the streaming server closing its streams,
  in `exec`;
- weak fairness of the service manager starting a failed service, and of handlers
  coming to an end, in `server`;
- none for the command, the pods, the clients, hooks, logrotate and the
  administrator, which may do nothing for ever; but a client of port forwarding takes
  what the pod sends (fairness of `OutCopies`).

### What the violated properties show

| Run | The comment or test | What the code does |
|---|---|---|
| `sandbox_restart` | R 1435 "keep the sandbox and its metadata until CNI DEL succeeds", R 1374 "so DEL also works after a runtime restart" | the namespace is recorded only by UpdateFromSpec (R 1322), after ADD (R 1071); a restart in between and the pod is destroyed without DEL |
| `sandbox_l3` | R 1435 | ADD is done in L3 mode too, DEL never (R 1426) |
| `containers_env` | `privileged.go:144` "Porto does not pass the environment to a child container" | a restart between line 139 and 150, and the next StartContainer starts the child as it is |
| `containers_reap` | `runtime_mapper_test.go:767` "reaped right after its status is reported" | destroyed first, reported afterwards; a restart in between loses the exit code |
| `logshim_lost` | `logshim/main.go:90` "Let's write real logs to stdout" | main exits with the command and does not wait for the loops |

## 4. Properties

- `AnsweredKeepsNetwork`: after the answer, as long as CNI holds an attachment,
  porto has the pod and its net property, whatever failure portoshim gets to see.
  Without it a retried removal could not find the attachment. The exception is a DEL
  whose error go-cni takes for success.
- `RunningHasNetwork`: a concurrent removal never takes namespace or attachment of
  a pod that runs.
- `PodHasRoot`, `ContainerHasDir`: no late RemoveAll hits something that exists.
- `LeaseProperty`: the same, as a refinement of abstract actions: Grant, Fall,
  Release, Drop, and a fifth for the DEL that fails unnoticed, Waive.
- `RemovalSucceeds`: a removal asked for again and again succeeds.
- `KnownIsComplete`: labels are set last, so no call meets a half-made container.
- `ReapsOnlyExited`: three calls lie between looking at a container and destroying
  its parent; still only what ran to its end is destroyed, until RemovePodSandbox has
  stopped the pod. Then a call that read "dead" before may destroy what is "stopped".
- `RemovedIsGone`: nothing comes back after a successful removal.
- `LifeProperty`: the calls lead a container through the life of `ContainerLife`: its
  process starts once and ends once, but for what the removal of the pod stops, the
  kubelet is told of its exit only when it has ended, and of its removal only when it is
  gone.
- `StartedHasRun`: a successful start has started the process of the container, in
  the child for a privileged one, and the list shows it, whatever failed and until the
  pod is stopped by its removal. The exception is a privileged container whose labels
  StartContainer could not read: it reports success then (R 1828).
- `EntriesWhole`, `LogIsPrefix`, `EndedIsLogged`: log lines are not torn, nothing is
  skipped or repeated, and a loop that saw the end of its stream logged it all.
- `ExitTells`: a status other than the command's is 1 and comes from a loop whose
  pipe was closed under a piece of a line - it races with main, and may win.
- `PipesAreRead`: the command is never stuck on a full pipe.
- `GoneAtReturn`, `GoesInTheEnd`: the exec container is gone when the call returns,
  and in the end also when Destroy failed or portoshim went down. The exception is a
  terminal whose command runs on after Destroy failed: its reader keeps the connection.
- `SyncAnswerIsFinal`: no answer for a command killed by the timeout, and the tail in an
  answer is the end of all the command wrote, not of what it had written by then.
- `CallEnds`, `OutputFlows`: a silent client keeps no call, and output is passed on.
- `ResolvesAsInRoot`: `resolveInRoot`, an iteration over a list that grows, agrees with
  `CdiReference`, a recursion over the path.
- `NearerTheEnd`: each step of the CDI call lowers `Ahead`, a tuple of numbers compared
  lexicographically, and nothing beside the call raises it. That order has no infinite
  descent, so the call takes finitely many steps: the argument behind `CreateEnds`, of
  which fairness and the exception for a leftover process of a hook are the rest.
- `TargetsAreNoLinks`, `OneMountPerTarget`, `VolumesHandedOver`, `HooksInOrder`,
  `EditsAsRequested`, `CreateEnds`: see the comments in `Cdi`.
- `SinkFollowsPath`, `SinkIsOpen`: no rotation is overlooked and no line goes to a
  file that was closed before Write looked. One that is closed between the look and
  the write takes that line with it (`logger.go:149`); the code accepts that.
- `StopAnswersAll`, `StopEnds`, `ServesAgain`: see the comments in `Server`.
- `FreeThreadsAtHome`, `ConnInPod`, `ResponseDelivered`, `NothingLeft`,
  `PodEndsSession`: see the comments in `PortForward`. `NothingLeft` holds for thread,
  porto connection and the goroutine that copies from the pod in any case, and for the
  one that copies from the client when the client has ended. `ConnInPod` leaves out the L3
  pod whose process id was reused, against which the code has no guard.

## 5. Proofs

All theorems hold for every set of pods, containers, handlers, calls, sessions, streams
and requests, and every bound.

`SandboxProofs`, from the assumptions on constants in `Sandbox`:
- `TypeCorrect`, without further assumption;
- `IInvHolds`, `RootWhilePod`, `NetworkWhileRunning` if `KubeletWaits`;
- `NetworkKept` and `LeaseRefinement`, both with the exception for `ignored`, if
  `KubeletWaits` and `NetMode = "netns"` (in L3 mode it is false, as `sandbox_l3` shows).

None of the three properties is inductive. `RunPodSandbox` may, for all an invariant on
`cni` and `net` says, be about to set up a pod that a removal is about to destroy.
`IInv` adds what excludes that: only drawn ids have any state (`Drawn`); while a pod is
being launched no other request is for it (`Alone`, this is where `KubeletWaits`
enters); how far the launch has come says which of root, container, namespace and
attachment exist (`RunProgress`); and how far a removal has come says what is no longer
there, also for a second removal of the same pod (`RemoveProgress`: behind StopTimeout
the pod does not run, behind DEL an answered pod has no attachment unless it is in
`ignored`, behind Destroy it is absent). A pod in `ignored` is no longer being launched
(`NotIgnored`), so that what makes and starts pods has nothing to do with the exception.
These are stable because nothing but `RunUpdate` ever starts a pod. `Kept` is
`AnsweredKeepsNetwork` in netns mode. The refinement follows from `IInv`: every action
leaves status and lease as they are, or is one of the abstract actions.

`ContainersProofs`, from the assumptions on constants in `Containers` alone:
- `TypeCorrect`, `IInvHolds`, `KnownComplete`, `RemovedForGood`, `DirWhileContainer`;
- `LifeInvHolds`, `StartsHaveRun`, `ReapsExited`, `ChildIsNew`;
- `LifeRefinement`, `ExitLostByFailure`.

`StartsHaveRun`, `ReapsExited` and `ChildIsNew` speak of a pod that RemovePodSandbox has
not stopped: behind a stop whose CNI DEL failed none of the three is so in the code.

Here `IInv` has: a container in the making is that of one handler and carries no
labels, so that no list shows it (`MakingAlone`); requests are for drawn ids, and all
but CreateContainer for ones the kubelet knows (`Drawn`); a child is in a container,
a container in a pod porto has (`Nested`); before CreateFromSpec the directory
exists unless the pod has been destroyed, and behind the Destroy of a removal the
container is absent (`DirProgress`). The last is what a late RemoveAll needs.

The second group is about the processes. Between resolving an id and acting on it a call
relies on what it saw, and other calls go on: `LifeInv` says what of it lasts. A child is
in a privileged container and runs only while that one does (`LifeOf`); what a call has
read of its container is still so or the container is gone (`Sees`), of labels and
parents at any time, of states until the pod is stopped; and two calls never
make the child of one container, since only one of them can have started it
(`OneStarts`). From it follows that createPrivCnt never meets a child already made: the
branch for that is not reached while the pod is up (`ChildIsNew`).

The refinement needs in addition that a container the kubelet does not know has not been
started, and that the container whose exit a call is about to report is gone (`FateInv`).
Each action of `Containers` then is one of `ContainerLife` or leaves its state as it is;
`PodStopped` and `PodDestroyed` are the ones that move several containers.

`ExitLostByFailure` is the other side of the violated run `containers_reap`: with no
failing call, no lost answer and no restart the exit code of a reaped container is always
reported, whatever requests overlap and whenever the pod is removed. So the restart in
that run is not an accident of the model: only these three can lose an exit code.

`CdiProofs`, from the assumptions on constants in `Cdi`, for every container root, every
list of devices, spec files and mounts:
- `TypeCorrect`, `InsideRoot`, `NoLinkTargets`, `SingleMounts`, `VolumesGone`;
- `HooksOrdered`, `EditsComplete`, `CallComesNearer`.

`IInv` says how a path is walked: what `resolveInRoot` has come to contains no symlink
(`LooksInsideRoot`), the last component is one component (`BaseShort`), and what it is
joined to is checked before it is used (`TargetFree`); that every bound target is in
`linked` (`TargetsUsed`); and that the only volume linked to portoshim that no failure
left is the one in hand (`SelfHeld`). The lemmas on `Dir`, `Append` and prefixes of
sequences carry the first: a path without symlinks stays so when a component that is
none is appended, or the last one is taken away.

`HookInv` follows the two loops of runCDIHooks: a hook has run exactly when the loops
have passed its stage, or in its stage its position (`RanPassed`, `PassedRan`); the order
of what has run is that of the loops. `DevInv` follows resolveCDIDevices: devices seen and
devices left make up the request, and the edits so far are those of the devices seen and
of their specs, each once, the spec's first (`SpecEditsFirst`); a lemma says what adding
one edit keeps of that. For `CallComesNearer` each step is a move to a later phase, or in
a loop a round further, or within a round a step further, and the lemma `LessBy` turns
that into the lexicographic order; the limit of symlinks is what bounds `resolveInRoot`,
whose list of components a symlink may lengthen.

`CdiReferenceProofs`, from the same assumptions, for every container root, every path and
every limit of symlinks:
- `ResolvesRight`: `ResolvesAsInRoot` holds; `WalkEquation`: the reference is well defined.

A recursive function of TLA+ is any function with its equation, and nothing says there is
one: the symlinks of an image may form cycles. `WalkEquation` shows that there is. A walk
rests on walks with fewer symlinks left, or as many and a shorter path (`Before`). Two
functions that solve the equation up to a walk agree there, and solutions for the walks
before one make a solution for it; each is shown by looking at the first walk, in that
order, for which it fails, and that there is a first one is the well-foundedness of `<`
twice. With the equation, walking along two paths joined is walking along one and then the
other (`WalkConcat`), again by the shortest path for which it fails. So a walk, which by
definition takes the last component off a path, can as well take the first (`WalkFirst`),
as the loop of resolveInRoot does, and following a symlink is putting its target before
what is left of the path, which is what the loop does to its list. The invariant
`WalkIsReference` then says that the place reached and the list left lead to where the
reference leads (`Resolving`). `Clean` is the case of a root without symlinks (`Cleaning`).

`ExecProofs`, from the assumptions on constants in `Exec`, for any number of calls:
- `TypeCorrect`, `ContainerGone`, `SyncFinal`.

`IInv` is a conjunction over calls: before CreateFromSpec there is no container
(`NothingYet`), answer and result come in order (`InOrder`), what is of ExecSync only
and of Exec only (`OfItsKind`), nothing is copied twice (`OutputOnce`), Destroy is behind
what follows it (`Destroyed`), and what has an exit code does not run again, so that the tail
which is read stays the end of the output (`Final`).
A step of one call leaves the others alone (`Frame`), so each is looked at by itself.

`PortForwardProofs`, from the assumptions on constants in `PortForward`, for any sessions
on any threads:
- `TypeCorrect`, `ThreadsAtHome`, `ConnectionInPod`, `AllDelivered`.

`FreeThreadsAtHome` says nothing of a thread that is locked, and so nothing of what
`Back` will do with it. `IInv` adds where a session stands with its thread
(`HoldsThread`: it has one from `OpenNetNS` to `Back`, which is on the host before
`Enter` and in the target after it), that no two sessions have the same one
(`ThreadsApart`), what the path and the open namespace lead to while the process id has
not been given out again (`PathOfMode`, `OwnNet`), and that an error-free end of the
pod's side is behind all of its data (`Delivered`).

`LogShimProofs`, from the assumptions on constants in `LogShim`, for any number of
streams, any sizes of pipe and buffer and any way the output is cut into lines:
- `TypeCorrect`, `EntriesAreWhole`, `LogHasPrefix`, `EndIsLogged`, `ExitStatusTells`.

`IInv` follows each item from the command to the log: pipe and buffer hold what was
written and not yet cut (`Bounds`), the loop has in hand what follows the last entry of
its stream in the log (`InHand`), an error of the read says how the stream stands
(`AtError`), the loop between its two writes is the one with the mutex (`HasMutex`), and
the log ends with an entry exactly as long as there is one (`Paired`). That the log has
a beginning of a stream is stated by its entries, each of which starts behind the one
before (`LoggedTo`); the least element of a set of numbers, which `Min` in `ReadSlice`
is, comes from the well-foundedness of `<`.

`ServerProofs`, from the assumptions on constants in `Server`, for any requests and any
number of rotations, failing calls and crashes:
- `TypeCorrect`, `RotationSeen`, `FileIsOpen`, `AllAnswered`.

`SinkFollowsPath` speaks of a sink that rests; `IInv` follows the file that will be in the
sink when the listener is done (`LatestAtPath`), keeps the file that comes and the one
that goes apart (`FilesOpen`), and counts opens against signals (`OpensBounded`).
`StopAnswersAll` needs that requests are only under way on a server that serves, or that
has closed its listener (`ServedOnly`): then the goroutine of `Serve` cannot be refused,
and it is `GracefulStop` alone that ends the process.

Only model-checked: the liveness properties (fairness and ENABLED are beyond the
proof system), which are `RemovalSucceeds`, `PipesAreRead`, `NothingLeft`,
`PodEndsSession`, `CreateEnds`, `GoesInTheEnd`, `CallEnds`, `OutputFlows`, `ServesAgain`
and `StopEnds`.

## 6. What is left

- The configuration with `Porto.ParentContainer`: `tmpfsDirs` with its race and its loss
  at a restart, the RemoveContainer steps for linked volumes, and the id functions
  (`addPortoPrefix`, `removePortoPrefix`, `isPod`) against a reference definition.
- A composition of `Sandbox` and `Containers` over the removal of a pod; at present each
  has the steps of the other it can see.

## 7. Not modelled

portod, the CNI plugins, the kernel, the service manager and the kubelet only as far as
portoshim uses them. Not at all: image pulls beyond "works or fails", statistics and
status calls that only read, the v1alpha2 forwarding, the strings of labels,
mounts, commands and environments. With a parent container several calls have further
steps; no model has one. `getParentCnt` keeps the outcome of its one question for ever,
and the prefix functions compare strings: both matter only there.

## 8. How to run

    tlc -workers 2 -config MCSandbox.cfg MCSandbox
    tlapm SandboxProofs.tla
