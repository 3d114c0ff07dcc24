--------------------------------- MODULE Cdi ---------------------------------
(***************************************************************************)
(* CDI devices of a container: cdi.go, and the part of CreateContainer     *)
(* that uses it (runtime_mapper.go).                                       *)
(*                                                                         *)
(* One CreateContainer call resolves the requested devices with the spec   *)
(* files, creates the container, binds the mounts of the devices into its  *)
(* root and runs their hooks; RemovePodSandbox may destroy the container   *)
(* meanwhile.  A path is the sequence of its components.  The root of a    *)
(* container that is not yet started does not change; what matters of it   *)
(* is where it has symlinks.  Of the edits of a device the mounts and      *)
(* hooks are kept, and in place of its device nodes and variables the edit *)
(* itself.                                                                 *)
(***************************************************************************)
EXTENDS Naturals, Sequences

CONSTANTS
  Jobs,         \* what may be asked for: devices, spec files, root of the image
  Names,        \* names of files in the root
  Kinds,        \* kinds of devices, "vendor/class"
  Devices,      \* names of devices
  NoDevice,     \* stands for the edits of the spec itself
  MaxSymlinks,  \* maxSymlinks, 40 in the code
  MaxFaults,    \* bound on failing calls
  MaxCrashes    \* bound on restarts of portoshim

Components == Names \cup {".", ".."}
cdiHookStages == <<"prestart", "createRuntime", "createContainer">>
HookNames == {"prestart", "createRuntime", "createContainer", "startContainer"}

Requests == [kind : Kinds, name : Devices]
Edits == [mounts : Seq(Seq(Components)), hooks : Seq(HookNames)]
FileOK(f) ==
  /\ f.kind \in Kinds
  /\ f.edits \in Edits
  /\ DOMAIN f.devices \subseteq Devices
  /\ \A d \in DOMAIN f.devices : f.devices[d] \in Edits
Dests == [abs : BOOLEAN, parts : Seq(Components)]

\* The files are in the order in which loadCDISpecs reads them.  A symlink has
\* nothing beneath it.
JobOK(j) ==
  /\ j.requested \in Seq(Requests)
  /\ Len(j.files) \in Nat /\ DOMAIN j.files = 1 .. Len(j.files)
  /\ \A i \in DOMAIN j.files : FileOK(j.files[i])
  /\ DOMAIN j.links \subseteq Seq(Names) \ {<<>>}
  /\ \A p \in DOMAIN j.links : j.links[p] \in Dests

ASSUME NameAssumption == {".", ".."} \cap Names = {} /\ NoDevice \notin Devices
ASSUME JobAssumption == \A j \in Jobs : JobOK(j)
ASSUME BoundAssumption == MaxSymlinks \in Nat /\ MaxFaults \in Nat /\ MaxCrashes \in Nat

VARIABLES
  job,      \* the request and what it meets
  at,       \* where the call is
  result,   \* its outcome
  dev,      \* resolveCDIDevices: devices left, seen, appliedSpecs and the edits
  mounts,   \* edits.Mounts not yet handled
  hooks,    \* edits.Hooks
  parts,    \* the components of a path still to be looked at
  current,  \* the path so far
  base,     \* the last component of the mount, or the empty path
  symlinks, \* symlinks followed
  linked,   \* linkCDIMounts: the targets used
  ct,       \* the container in porto
  vols,     \* volumes made so far
  self,     \* the volumes linked to portoshim
  bound,    \* the volumes linked to the container, with their targets
  lost,     \* the volumes a failure or a crash left linked to portoshim
  hook,     \* runCDIHooks: position of its loops, process of the hook
  ran,      \* the hooks that ran to their end, by position in hooks
  faults,   \* failing calls so far
  crashes   \* restarts so far

walkVars == <<parts, current, base, symlinks>>
volVars == <<vols, self, bound, lost>>
hookVars == <<hook, ran>>
vars == <<job, at, result, dev, mounts, hooks, parts, current, base, symlinks, linked,
          ct, vols, self, bound, lost, hook, ran, faults, crashes>>

Steps == {"load", "device", "create", "root", "mount", "clean", "resolve", "volume",
          "link", "unlink", "unlinkErr", "bundle", "hook", "wait", "destroy",
          "idle"}

TypeOK ==
  /\ job \in Jobs
  /\ at \in Steps
  /\ result \in {"none", "ok", "err", "lost"}
  /\ dev \in [todo : Seq(Requests), seen : SUBSET Requests, appliedSpecs : SUBSET Kinds,
              edits : Seq(Nat \X (Devices \cup {NoDevice}))]
  /\ mounts \in Seq(Seq(Components))
  /\ hooks \in Seq(HookNames)
  /\ parts \in Seq(Components)
  /\ current \in Seq(Names)
  /\ base \in Seq(Names)
  /\ symlinks \in 0 .. MaxSymlinks
  /\ linked \subseteq Seq(Names)
  /\ ct \in {"absent", "created"}
  /\ vols \in Nat
  /\ self \subseteq 1 .. vols
  /\ bound \subseteq [vol : 1 .. vols, target : Seq(Names)]
  /\ lost \subseteq 1 .. vols
  /\ hook \in [stage : Nat, pos : Nat, proc : {"none", "runs", "exited", "failed"},
               holder : BOOLEAN]
  /\ ran \in Seq(Nat)
  /\ faults \in 0 .. MaxFaults
  /\ crashes \in 0 .. MaxCrashes

Init ==
  /\ job \in Jobs
  /\ at = "load"
  /\ result = "none"
  /\ dev = [todo |-> job.requested, seen |-> {}, appliedSpecs |-> {}, edits |-> <<>>]
  /\ mounts = <<>> /\ hooks = <<>>
  /\ parts = <<>> /\ current = <<>> /\ base = <<>> /\ symlinks = 0
  /\ linked = {}
  /\ ct = "absent"
  /\ vols = 0 /\ self = {} /\ bound = {} /\ lost = {}
  /\ hook = [stage |-> 1, pos |-> 1, proc |-> "none", holder |-> FALSE]
  /\ ran = <<>>
  /\ faults = 0 /\ crashes = 0

-----------------------------------------------------------------------------
Works == UNCHANGED faults
Fails == faults < MaxFaults /\ faults' = faults + 1

Goto(step) == at' = step /\ UNCHANGED result

\* CreateContainer returns an error, before there is a container or after it has
\* been destroyed.
Return(res) == at' = "idle" /\ result' = res

-----------------------------------------------------------------------------
(* The edits *)

\* Mutant: the first file read for a kind counts.
specsFirst(kind) == {i \in DOMAIN job.files : /\ job.files[i].kind = kind
                                              /\ \A k \in DOMAIN job.files :
                                                   job.files[k].kind = kind => i <= k}

\* The last file read for a kind is the one that counts.
specs(kind) == {i \in DOMAIN job.files : /\ job.files[i].kind = kind
                                         /\ \A k \in DOMAIN job.files :
                                              job.files[k].kind = kind => k <= i}

\* resolveCDIDevices with no device asked for does not read the spec files; an
\* unreadable one fails the call.
loadCDISpecs ==
  /\ at = "load"
  /\ \/ Works /\ Goto(IF dev.todo = <<>> THEN "create" ELSE "device")
     \/ dev.todo # <<>> /\ Fails /\ Return("err")
  /\ UNCHANGED <<job, dev, mounts, hooks, walkVars, linked, ct, volVars, hookVars, crashes>>

\* Mutant: every device brings the edits of its spec along.
DeviceEditsAgain(i, d) == <<<<i, NoDevice>>, <<i, d.name>>>>

\* What apply adds for a device, after the edits of its spec the first time.
DeviceEdits(i, d) ==
  IF d.kind \in dev.appliedSpecs THEN <<<<i, d.name>>>>
                                 ELSE <<<<i, NoDevice>>, <<i, d.name>>>>

SpecMounts(i, d) == IF d.kind \in dev.appliedSpecs THEN <<>> ELSE job.files[i].edits.mounts
SpecHooks(i, d) == IF d.kind \in dev.appliedSpecs THEN <<>> ELSE job.files[i].edits.hooks

\* One round of the loop of resolveCDIDevices.
resolveCDIDevices ==
  /\ at = "device"
  /\ dev.todo # <<>>
  /\ LET d == Head(dev.todo) IN
       \/ /\ d \in dev.seen
          /\ dev' = [dev EXCEPT !.todo = Tail(@)]
          /\ Goto("device")
          /\ UNCHANGED <<mounts, hooks>>
       \/ /\ d \notin dev.seen
          /\ \E i \in specs(d.kind) :
               /\ d.name \in DOMAIN job.files[i].devices
               /\ dev' = [todo |-> Tail(dev.todo), seen |-> dev.seen \cup {d},
                          appliedSpecs |-> dev.appliedSpecs \cup {d.kind},
                          edits |-> dev.edits \o DeviceEdits(i, d)]
               /\ mounts' = mounts \o SpecMounts(i, d) \o job.files[i].devices[d.name].mounts
               /\ hooks' = hooks \o SpecHooks(i, d) \o job.files[i].devices[d.name].hooks
          /\ Goto("device")
       \/ /\ d \notin dev.seen
          /\ ~\E i \in specs(d.kind) : d.name \in DOMAIN job.files[i].devices
          /\ Return("err")
          /\ UNCHANGED <<dev, mounts, hooks>>
  /\ UNCHANGED <<job, walkVars, linked, ct, volVars, hookVars, faults, crashes>>

DevicesResolved ==
  /\ at = "device"
  /\ dev.todo = <<>>
  /\ Goto("create")
  /\ UNCHANGED <<job, dev, mounts, hooks, walkVars, linked, ct, volVars, hookVars, faults, crashes>>

-----------------------------------------------------------------------------
(* The container *)

\* CreateFromSpec; without mounts and hooks there is nothing more to do here.
CreateFromSpec ==
  /\ at = "create"
  /\ \/ /\ Works
        /\ ct' = "created"
        /\ IF mounts # <<>> \/ hooks # <<>> THEN Goto("root") ELSE Return("ok")
     \/ Fails /\ ct' \in {"absent", "created"} /\ Return("err")
  /\ UNCHANGED <<job, dev, mounts, hooks, walkVars, linked, volVars, hookVars, crashes>>

\* GetProperty of root_path.
GetRootPath ==
  /\ at = "root"
  /\ \/ ct = "created" /\ Works /\ Goto("mount")
     \/ ct = "absent" /\ Works /\ Goto("destroy")
     \/ Fails /\ Goto("destroy")
  /\ UNCHANGED <<job, dev, mounts, hooks, walkVars, linked, ct, volVars, hookVars, crashes>>

\* The error path of CreateContainer; what Destroy says is ignored.
Destroy ==
  /\ at = "destroy"
  /\ \/ Works /\ ct' = "absent" /\ bound' = {}
     \/ Fails /\ UNCHANGED <<ct, bound>>
  /\ Return("err")
  /\ UNCHANGED <<job, dev, mounts, hooks, walkVars, linked, vols, self, lost, hookVars, crashes>>

\* RemoveContainer or RemovePodSandbox: the volumes linked only to the container
\* go with it.
Removed ==
  /\ ct = "created"
  /\ ct' = "absent"
  /\ bound' = {}
  /\ UNCHANGED <<job, at, result, dev, mounts, hooks, walkVars, linked, vols, self, lost,
                 hookVars, faults, crashes>>

\* portoshim restarts.  The call is gone, and its links to volumes stay.
Crash ==
  /\ crashes < MaxCrashes
  /\ crashes' = crashes + 1
  /\ at # "idle"
  /\ Return("lost")
  /\ lost' = lost \cup self
  /\ hook' = [hook EXCEPT !.proc = "none"]
  /\ UNCHANGED <<job, dev, mounts, hooks, walkVars, linked, ct, vols, self, bound, ran, faults>>

-----------------------------------------------------------------------------
(* Where a mount goes *)

\* filepath.Dir of a clean path; the directory of the root is the root.
Dir(path) == SubSeq(path, 1, Len(path) - 1)

\* The next round of the loop of linkCDIMounts, or the hooks when there is none.
NextMount ==
  /\ at = "mount"
  /\ \/ /\ mounts # <<>>
        /\ parts' = Head(mounts)
        /\ current' = <<>>
        /\ Goto("clean")
        /\ UNCHANGED <<base, symlinks>>
     \/ /\ mounts = <<>>
        /\ IF hooks = <<>> THEN Return("ok") ELSE Goto("bundle")
        /\ UNCHANGED walkVars
  /\ UNCHANGED <<job, dev, mounts, hooks, linked, ct, volVars, hookVars, faults, crashes>>

\* filepath.Clean, which takes a component away without a look at the file system,
\* and then Dir and Base of its result.
Clean ==
  /\ at = "clean"
  /\ \/ /\ parts # <<>>
        /\ parts' = Tail(parts)
        /\ current' = CASE Head(parts) = "."  -> current
                        [] Head(parts) = ".." -> Dir(current)
                        [] OTHER -> Append(current, Head(parts))
        /\ Goto("clean")
        /\ UNCHANGED <<base, symlinks>>
     \/ /\ parts = <<>>
        /\ parts' = Dir(current)
        /\ base' = IF current = <<>> THEN <<>> ELSE <<current[Len(current)]>>
        /\ current' = <<>>
        /\ symlinks' = 0
        /\ Goto("resolve")
  /\ UNCHANGED <<job, dev, mounts, hooks, linked, ct, volVars, hookVars, faults, crashes>>

IsLink(path) == path \in DOMAIN job.links

\* Mutant: an absolute symlink is followed from the directory of the symlink.
FollowRelative(link) == Dir(link)

\* Where resolveInRoot goes on from a symlink: at the root or in the directory of
\* the symlink.
Follow(link) == IF job.links[link].abs THEN <<>> ELSE Dir(link)

\* Mutant: symlinks are followed without a limit.
IsLastLinkNever == FALSE

\* No further symlink is followed.
IsLastLink == symlinks = MaxSymlinks

\* One round of the loop of resolveInRoot.  A component that is missing is kept.
resolveInRoot ==
  /\ at = "resolve"
  /\ parts # <<>>
  /\ LET part == Head(parts)
         next == Append(current, part)
     IN  \/ /\ part \in {".", ".."} \/ ~IsLink(next)
            /\ parts' = Tail(parts)
            /\ current' = CASE part = "."  -> current
                            [] part = ".." -> Dir(current)
                            [] OTHER -> next
            /\ Works
            /\ Goto("resolve")
            /\ UNCHANGED symlinks
         \/ /\ part \in Names /\ IsLink(next) /\ ~IsLastLink
            /\ symlinks' = symlinks + 1
            /\ \/ /\ Works
                  /\ current' = Follow(next)
                  /\ parts' = job.links[next].parts \o Tail(parts)
                  /\ Goto("resolve")
               \/ Fails /\ Goto("destroy") /\ UNCHANGED <<parts, current>>
         \/ /\ part \in Names /\ IsLink(next) /\ IsLastLink
            /\ Works
            /\ Goto("destroy")
            /\ UNCHANGED <<parts, current, symlinks>>
  /\ UNCHANGED <<job, dev, mounts, hooks, base, linked, ct, volVars, hookVars, crashes>>

\* Mutant: it goes by the path of the mount and not by its target.
IsUsedPath(target) == Head(mounts) \in linked

\* linkCDIMounts leaves a target alone that it has already used.
IsUsed(target) == target \in linked

\* Mutant: a symlink at the target itself is not looked for.
cdiMountTargetAny ==
  /\ at = "resolve"
  /\ parts = <<>>
  /\ LET target == current \o base IN
       \/ /\ IsUsed(target)
          /\ mounts' = Tail(mounts)
          /\ Goto("mount")
          /\ UNCHANGED <<current, linked>>
       \/ /\ ~IsUsed(target)
          /\ linked' = linked \cup {target}
          /\ current' = target
          /\ Goto("volume")
          /\ UNCHANGED mounts
  /\ UNCHANGED <<job, dev, hooks, parts, base, symlinks, ct, volVars, hookVars, faults, crashes>>

\* cdiMountTarget has resolved the directory.  A symlink at the target itself is
\* left alone.
cdiMountTarget ==
  /\ at = "resolve"
  /\ parts = <<>>
  /\ LET target == current \o base IN
       \/ /\ IsLink(target) \/ IsUsed(target)
          /\ mounts' = Tail(mounts)
          /\ Goto("mount")
          /\ UNCHANGED <<current, linked>>
       \/ /\ ~IsLink(target) /\ ~IsUsed(target)
          /\ linked' = linked \cup {target}
          /\ current' = target
          /\ Goto("volume")
          /\ UNCHANGED mounts
  /\ UNCHANGED <<job, dev, hooks, parts, base, symlinks, ct, volVars, hookVars, faults, crashes>>

-----------------------------------------------------------------------------
(* The mount *)

\* A new volume is linked to the container portoshim runs in.  When the answer is
\* lost nobody knows the volume.
CreateVolume ==
  /\ at = "volume"
  /\ \/ /\ Works
        /\ vols' = vols + 1
        /\ self' = self \cup {vols'}
        /\ Goto("link")
        /\ UNCHANGED lost
     \/ Fails /\ Goto("destroy") /\ UNCHANGED <<vols, self, lost>>
     \/ /\ Fails
        /\ vols' = vols + 1
        /\ self' = self \cup {vols'}
        /\ lost' = lost \cup {vols'}
        /\ Goto("destroy")
  /\ UNCHANGED <<job, dev, mounts, hooks, walkVars, linked, ct, bound, hookVars, crashes>>

Bind == bound' = bound \cup {[vol |-> vols, target |-> current]}

\* Mutant: an error is returned at once.
LinkVolumeTargetReturns ==
  /\ at = "link"
  /\ \/ ct = "created" /\ Works /\ Bind /\ Goto("unlink")
     \/ ct = "created" /\ Fails /\ Bind /\ Goto("destroy")
     \/ ct = "created" /\ Fails /\ UNCHANGED bound /\ Goto("destroy")
     \/ ct = "absent" /\ Works /\ UNCHANGED bound /\ Goto("destroy")
  /\ UNCHANGED <<job, dev, mounts, hooks, walkVars, linked, ct, vols, self, lost, hookVars, crashes>>

LinkVolumeTarget ==
  /\ at = "link"
  /\ \/ ct = "created" /\ Works /\ Bind /\ Goto("unlink")
     \/ ct = "created" /\ Fails /\ Bind /\ Goto("unlinkErr")
     \/ ct = "created" /\ Fails /\ UNCHANGED bound /\ Goto("unlinkErr")
     \/ ct = "absent" /\ Works /\ UNCHANGED bound /\ Goto("unlinkErr")
  /\ UNCHANGED <<job, dev, mounts, hooks, walkVars, linked, ct, vols, self, lost, hookVars, crashes>>

\* UnlinkVolume, whose error is only logged; then the error of LinkVolumeTarget counts.
UnlinkVolume ==
  /\ at \in {"unlink", "unlinkErr"}
  /\ \/ Works /\ self' = self \ {vols} /\ UNCHANGED lost
     \/ Fails /\ self' = self \ {vols} /\ UNCHANGED lost
     \/ Fails /\ lost' = lost \cup {vols} /\ UNCHANGED self
  /\ \/ at = "unlink" /\ mounts' = Tail(mounts) /\ Goto("mount")
     \/ at = "unlinkErr" /\ UNCHANGED mounts /\ Goto("destroy")
  /\ UNCHANGED <<job, dev, hooks, walkVars, linked, ct, vols, bound, hookVars, crashes>>

-----------------------------------------------------------------------------
(* The hooks *)

\* The bundle directory and its config.json.
PrepareBundle ==
  /\ at = "bundle"
  /\ \/ Works /\ Goto("hook")
     \/ Fails /\ Goto("destroy")
  /\ UNCHANGED <<job, dev, mounts, hooks, walkVars, linked, ct, volVars, hookVars, crashes>>

\* Mutant: the hooks are run in the order of the edits.
runCDIHooksUnordered ==
  /\ at = "hook"
  /\ \/ /\ hook.pos > Len(hooks)
        /\ Works /\ Return("ok")
        /\ UNCHANGED hook
     \/ /\ hook.pos <= Len(hooks) /\ hooks[hook.pos] = "startContainer"
        /\ hook' = [hook EXCEPT !.pos = @ + 1]
        /\ Works /\ Goto("hook")
     \/ /\ hook.pos <= Len(hooks) /\ hooks[hook.pos] # "startContainer"
        /\ Works /\ hook' = [hook EXCEPT !.proc = "runs"] /\ Goto("wait")
  /\ UNCHANGED <<job, dev, mounts, hooks, walkVars, linked, ct, volVars, ran, crashes>>

\* One round of the loops over stages and hooks.
runCDIHooks ==
  /\ at = "hook"
  /\ \/ /\ hook.stage > Len(cdiHookStages)
        /\ Works /\ Return("ok")
        /\ UNCHANGED hook
     \/ /\ hook.stage <= Len(cdiHookStages) /\ hook.pos > Len(hooks)
        /\ hook' = [hook EXCEPT !.stage = @ + 1, !.pos = 1]
        /\ Works /\ Goto("hook")
     \/ /\ hook.stage <= Len(cdiHookStages) /\ hook.pos <= Len(hooks)
        /\ hooks[hook.pos] # cdiHookStages[hook.stage]
        /\ hook' = [hook EXCEPT !.pos = @ + 1]
        /\ Works /\ Goto("hook")
     \/ /\ hook.stage <= Len(cdiHookStages) /\ hook.pos <= Len(hooks)
        /\ hooks[hook.pos] = cdiHookStages[hook.stage]
        /\ \/ Works /\ hook' = [hook EXCEPT !.proc = "runs"] /\ Goto("wait")
           \/ Fails /\ Goto("destroy") /\ UNCHANGED hook
  /\ UNCHANGED <<job, dev, mounts, hooks, walkVars, linked, ct, volVars, ran, crashes>>

\* The hook leaves a process behind that has its output open.
HookForks ==
  /\ hook.proc = "runs" /\ ~hook.holder
  /\ hook' = [hook EXCEPT !.holder = TRUE]
  /\ UNCHANGED <<job, at, result, dev, mounts, hooks, walkVars, linked, ct, volVars, ran,
                 faults, crashes>>

\* That process ends.
HookChildEnds ==
  /\ hook.holder
  /\ hook' = [hook EXCEPT !.holder = FALSE]
  /\ UNCHANGED <<job, at, result, dev, mounts, hooks, walkVars, linked, ct, volVars, ran,
                 faults, crashes>>

HookExits ==
  /\ hook.proc = "runs"
  /\ \/ Works /\ hook' = [hook EXCEPT !.proc = "exited"]
     \/ Fails /\ hook' = [hook EXCEPT !.proc = "failed"]
  /\ UNCHANGED <<job, at, result, dev, mounts, hooks, walkVars, linked, ct, volVars, ran, crashes>>

\* Mutant: the hook runs without a timeout.
HookTimeoutNever ==
  FALSE /\ UNCHANGED vars

\* The context of runCDIHook is done, and the hook is killed.
HookTimeout ==
  /\ at = "wait"
  /\ hook.proc = "runs"
  /\ hook' = [hook EXCEPT !.proc = "failed"]
  /\ UNCHANGED <<job, at, result, dev, mounts, hooks, walkVars, linked, ct, volVars, ran,
                 faults, crashes>>

\* CombinedOutput returns when the process has ended and its output is closed.
runCDIHook ==
  /\ at = "wait"
  /\ hook.proc \in {"exited", "failed"}
  /\ ~hook.holder
  /\ \/ /\ hook.proc = "exited"
        /\ hook' = [hook EXCEPT !.proc = "none", !.pos = @ + 1]
        /\ ran' = Append(ran, hook.pos)
        /\ Goto("hook")
     \/ /\ hook.proc = "failed"
        /\ hook' = [hook EXCEPT !.proc = "none"]
        /\ Goto("destroy")
        /\ UNCHANGED ran
  /\ UNCHANGED <<job, dev, mounts, hooks, walkVars, linked, ct, volVars, faults, crashes>>

-----------------------------------------------------------------------------
HandlerStep ==
  \/ loadCDISpecs \/ resolveCDIDevices \/ DevicesResolved
  \/ CreateFromSpec \/ GetRootPath \/ Destroy
  \/ NextMount \/ Clean \/ resolveInRoot \/ cdiMountTarget
  \/ CreateVolume \/ LinkVolumeTarget \/ UnlinkVolume
  \/ PrepareBundle \/ runCDIHooks \/ HookTimeout \/ runCDIHook

Next ==
  \/ HandlerStep
  \/ HookForks \/ HookChildEnds \/ HookExits
  \/ Removed \/ Crash

\* A goroutine that can go on does so, and a timer fires; hooks, the kubelet and the
\* machine do as they like.
Fairness == WF_vars(Works /\ HandlerStep)

Spec == Init /\ [][Next]_vars
LiveSpec == Spec /\ Fairness

-----------------------------------------------------------------------------
(* Properties *)

LinkFree(path) == \A n \in 1 .. Len(path) : SubSeq(path, 1, n) \notin DOMAIN job.links

\* No volume of a container is mounted at a symlink of its image or beneath one:
\* porto would put a directory in place of the symlink and hide what it leads to.
TargetsAreNoLinks == \A b \in bound : LinkFree(b.target)

\* Two mounts are never put at the same place, however their paths are spelled.
OneMountPerTarget == \A a, b \in bound : a.target = b.target => a = b

\* portoshim keeps no link to a volume it has made, whether the mount worked or not,
\* unless the call that makes or unlinks it failed or portoshim itself went down.
VolumesHandedOver == at \notin {"link", "unlink", "unlinkErr"} => self \subseteq lost

\* With success all hooks of the three stages ran, each once, those of an earlier
\* stage first and within a stage in the order of the edits.
HooksInOrder ==
  /\ \A x, y \in DOMAIN ran : x < y =>
       \E s, t \in DOMAIN cdiHookStages :
         /\ hooks[ran[x]] = cdiHookStages[s] /\ hooks[ran[y]] = cdiHookStages[t]
         /\ s < t \/ (s = t /\ ran[x] < ran[y])
  /\ result = "ok" => \A h \in DOMAIN hooks :
       hooks[h] # "startContainer" => \E x \in DOMAIN ran : ran[x] = h

\* The container gets the edits of each device asked for, and of its spec, once,
\* those of the spec first, from the last file for the kind; it is not created
\* when one of them is unknown.
EditsAsRequested ==
  at \notin {"load", "device"} /\ result # "lost" /\ dev.todo = <<>> =>
    LET Asked == {job.requested[n] : n \in DOMAIN job.requested}
        Last(kind) == CHOOSE i \in DOMAIN job.files :
                        /\ job.files[i].kind = kind
                        /\ ~\E k \in i + 1 .. Len(job.files) : job.files[k].kind = kind
        Wanted == {<<Last(d.kind), NoDevice>> : d \in Asked}
                    \cup {<<Last(d.kind), d.name>> : d \in Asked}
    IN  /\ {dev.edits[n] : n \in DOMAIN dev.edits} = Wanted
        /\ \A m, n \in DOMAIN dev.edits :
             /\ dev.edits[m] = dev.edits[n] => m = n
             /\ dev.edits[m][1] = dev.edits[n][1] /\ dev.edits[m][2] = NoDevice => m <= n
        /\ \A d \in Asked : d.name \in DOMAIN job.files[Last(d.kind)].devices

\* CreateContainer comes to an end, over symlinks in a circle and hooks that hang,
\* unless a hook has left a process that keeps its output open: the timeout kills
\* only the hook itself, and CombinedOutput waits for the output.
CreateEnds == []<>(at = "idle" \/ hook.holder)

\* What the call has still before it: its phase, and in a loop the rounds that are
\* left, the step of the round and what is left of an inner loop.
Mounting == [mount |-> 5, clean |-> 4, resolve |-> 3, volume |-> 2, link |-> 1,
             unlink |-> 0, unlinkErr |-> 0]
Ahead ==
  CASE at = "load"    -> <<8, 0, 0, 0, 0>>
    [] at = "device"  -> <<7, Len(dev.todo), 0, 0, 0>>
    [] at = "create"  -> <<6, 0, 0, 0, 0>>
    [] at = "root"    -> <<5, 0, 0, 0, 0>>
    [] at \in DOMAIN Mounting ->
         <<4, Len(mounts), Mounting[at], MaxSymlinks - symlinks, Len(parts)>>
    [] at = "bundle"  -> <<3, 0, 0, 0, 0>>
    [] at \in {"hook", "wait"} ->
         <<2, 4 - hook.stage, Len(hooks) + 1 - hook.pos, IF at = "hook" THEN 1 ELSE 0,
           IF hook.proc = "runs" THEN 1 ELSE 0>>
    [] at = "destroy" -> <<1, 0, 0, 0, 0>>
    [] at = "idle"    -> <<0, 0, 0, 0, 0>>

\* In the lexicographic order of tuples of numbers, which is well-founded.
Less(x, y) == \E n \in 1 .. 5 : /\ x[n] \in Nat /\ x[n] < y[n]
                                /\ \A m \in 1 .. n - 1 : x[m] = y[m]

\* Every step of the call brings it nearer to its end, and nothing that happens beside it
\* throws it back: it does not go on for ever, over symlinks in a circle and whatever
\* devices, mounts and hooks it was given.
NearerTheEnd == [][Less(Ahead', Ahead) \/ (Ahead' = Ahead /\ ~HandlerStep)]_vars
=============================================================================
