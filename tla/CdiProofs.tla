------------------------------ MODULE CdiProofs ------------------------------
(***************************************************************************)
(* Proofs about Cdi, for any requests, spec files and container roots and  *)
(* any limit of symlinks.                                                  *)
(***************************************************************************)
EXTENDS Cdi, SequenceTheorems, TLAPS

-----------------------------------------------------------------------------
(* Paths *)

\* The directory of a path is a path over the same names.
LEMMA DirType == ASSUME NEW S, NEW path \in Seq(S) PROVE Dir(path) \in Seq(S)
<1>1. Len(path) \in Nat /\ \A i \in 1 .. Len(path) - 1 : path[i] \in S
  BY LenProperties, ElementOfSeq
<1>2. QED
  BY <1>1, SubSeqProperties DEF Dir

\* A path that begins as another one does.
LEMMA PrefixOfDir ==
  ASSUME NEW S, NEW path \in Seq(S), NEW n \in 1 .. Len(Dir(path))
  PROVE  n \in 1 .. Len(path) /\ SubSeq(Dir(path), 1, n) = SubSeq(path, 1, n)
<1>1. Len(path) \in Nat /\ \A i \in 1 .. Len(path) : path[i] \in S
  BY LenProperties, ElementOfSeq
<1>2. CASE path = <<>>
  <2>1. Dir(path) = <<>>
    BY <1>1, <1>2, SubSeqEmpty, EmptySeq DEF Dir
  <2>2. Len(Dir(path)) = 0
    BY <2>1, EmptySeq
  <2>3. QED
    BY <2>2
<1>3. CASE path # <<>>
  <2>1. Len(path) \in Nat \ {0}
    BY <1>3, EmptySeq
  <2>2. Len(Dir(path)) = Len(path) - 1
    BY <1>1, <2>1, SubSeqProperties DEF Dir
  <2>3. n \in 1 .. Len(path) - 1
    BY <2>2
  <2>4. SubSeq(SubSeq(path, 1, Len(path) - 1), 1, n) = SubSeq(path, 1, n)
    <3>1. \A i \in 1 .. n : path[i] \in S
      BY <1>1, <2>1, <2>3
    <3>2. /\ SubSeq(path, 1, n) \in Seq(S)
          /\ Len(SubSeq(path, 1, n)) = n
          /\ \A i \in 1 .. n : SubSeq(path, 1, n)[i] = path[i]
      BY <2>3, <3>1, SubSeqProperties
    <3>3. /\ Dir(path) \in Seq(S)
          /\ \A i \in 1 .. Len(path) - 1 : Dir(path)[i] = path[i]
      BY <1>1, <2>1, SubSeqProperties DEF Dir
    <3>4. \A i \in 1 .. n : Dir(path)[i] \in S
      BY <2>1, <2>3, <3>1, <3>3
    <3>5. /\ SubSeq(Dir(path), 1, n) \in Seq(S)
          /\ Len(SubSeq(Dir(path), 1, n)) = n
          /\ \A i \in 1 .. n : SubSeq(Dir(path), 1, n)[i] = Dir(path)[i]
      BY <2>3, <3>4, SubSeqProperties
    <3>6. \A i \in 1 .. n : SubSeq(Dir(path), 1, n)[i] = SubSeq(path, 1, n)[i]
      BY <2>1, <2>3, <3>2, <3>3, <3>5
    <3>7. SubSeq(Dir(path), 1, n) = SubSeq(path, 1, n)
      BY <3>2, <3>5, <3>6, SeqEqual
    <3>8. QED
      BY <3>7 DEF Dir
  <2>5. QED
    BY <2>1, <2>3, <2>4 DEF Dir
<1>4. QED
  BY <1>2, <1>3

\* Where a path crosses no symlink its directory crosses none.
LEMMA DirLinkFree ==
  ASSUME NEW S, NEW path \in Seq(S), LinkFree(path)
  PROVE  LinkFree(Dir(path))
BY PrefixOfDir DEF LinkFree

\* A component added to a path that crosses no symlink.
LEMMA AppendLinkFree ==
  ASSUME NEW S, NEW path \in Seq(S), NEW part \in S, LinkFree(path),
         Append(path, part) \notin DOMAIN job.links
  PROVE  LinkFree(Append(path, part))
<1>1. /\ Len(path) \in Nat
      /\ Append(path, part) \in Seq(S)
      /\ Len(Append(path, part)) = Len(path) + 1
  BY LenProperties, AppendProperties
<1>2. SUFFICES ASSUME NEW n \in 1 .. Len(path) + 1
               PROVE  SubSeq(Append(path, part), 1, n) \notin DOMAIN job.links
  BY <1>1 DEF LinkFree
<1>3. CASE n = Len(path) + 1
  BY <1>1, <1>3, SubSeqFull
<1>4. CASE n # Len(path) + 1
  <2>1. n \in 1 .. Len(path)
    BY <1>1, <1>4
  <2>2. Append(path, part) = path \o <<part>> /\ <<part>> \in Seq(S)
    BY AppendIsConcat
  <2>3. SubSeq(path \o <<part>>, 1, n) = SubSeq(path, 1, n)
    <3>1. 1 \in 1 .. Len(path)
      BY <1>1, <2>1
    <3>2. QED
      BY <2>1, <2>2, <3>1, SubSeqOfConcat1
  <2>4. QED
    BY <2>1, <2>2, <2>3 DEF LinkFree
<1>5. QED
  BY <1>3, <1>4

\* A component is the last one of the path it was added to.
LEMMA DirOfAppend ==
  ASSUME NEW S, NEW path \in Seq(S), NEW part \in S
  PROVE  Dir(Append(path, part)) = path
<1>1. /\ Len(path) \in Nat
      /\ \A i \in 1 .. Len(path) : path[i] \in S
      /\ Len(Append(path, part)) = Len(path) + 1
      /\ \A i \in 1 .. Len(path) : Append(path, part)[i] = path[i]
  BY LenProperties, ElementOfSeq, AppendProperties
<1>2. \A i \in 1 .. Len(path) : Append(path, part)[i] \in S
  BY <1>1
<1>3. /\ SubSeq(Append(path, part), 1, Len(path)) \in Seq(S)
      /\ Len(SubSeq(Append(path, part), 1, Len(path))) = Len(path)
      /\ \A i \in 1 .. Len(path) : SubSeq(Append(path, part), 1, Len(path))[i] = path[i]
  BY <1>1, <1>2, SubSeqProperties
<1>4. SubSeq(Append(path, part), 1, Len(path)) = path
  BY <1>3, SeqEqual
<1>5. QED
  BY <1>1, <1>4 DEF Dir

\* The root crosses no symlink.
LEMMA RootLinkFree == LinkFree(<<>>)
BY EmptySeq DEF LinkFree

-----------------------------------------------------------------------------
(* Type correctness *)

\* The variables of the handler but the job.
HandlerOK ==
  /\ at \in Steps
  /\ result \in {"none", "ok", "err", "lost"}
  /\ faults \in 0 .. MaxFaults
  /\ crashes \in 0 .. MaxCrashes

DevOK ==
  /\ dev \in [todo : Seq(Requests), seen : SUBSET Requests, appliedSpecs : SUBSET Kinds,
              edits : Seq(Nat \X (Devices \cup {NoDevice}))]
  /\ mounts \in Seq(Seq(Components))
  /\ hooks \in Seq(HookNames)

WalkOK ==
  /\ parts \in Seq(Components)
  /\ current \in Seq(Names)
  /\ base \in Seq(Names)
  /\ symlinks \in 0 .. MaxSymlinks
  /\ linked \subseteq Seq(Names)

VolumesOK ==
  /\ ct \in {"absent", "created"}
  /\ vols \in Nat
  /\ self \subseteq 1 .. vols
  /\ bound \subseteq [vol : 1 .. vols, target : Seq(Names)]
  /\ lost \subseteq 1 .. vols

HookStates == [stage : Nat, pos : Nat, proc : {"none", "runs", "exited", "failed"},
               holder : BOOLEAN]

HooksOK ==
  /\ hook \in HookStates
  /\ ran \in Seq(Nat)

\* TypeOK in the parts that the actions work on.
LEMMA TypeParts ==
  TypeOK <=> job \in Jobs /\ HandlerOK /\ DevOK /\ WalkOK /\ VolumesOK /\ HooksOK
BY DEF TypeOK, HandlerOK, DevOK, WalkOK, VolumesOK, HooksOK, HookStates

LEMMA TypePartsPrimed ==
  TypeOK' <=> job' \in Jobs /\ HandlerOK' /\ DevOK' /\ WalkOK' /\ VolumesOK' /\ HooksOK'
BY DEF TypeOK, HandlerOK, DevOK, WalkOK, VolumesOK, HooksOK, HookStates

\* What a spec file says has the types of the edits it is added to.
LEMMA EditTypes ==
  ASSUME job \in Jobs, DevOK, NEW d \in Requests, NEW i \in specs(d.kind),
         d.name \in DOMAIN job.files[i].devices
  PROVE  /\ i \in Nat
         /\ DeviceEdits(i, d) \in Seq(Nat \X (Devices \cup {NoDevice}))
         /\ SpecMounts(i, d) \in Seq(Seq(Components))
         /\ job.files[i].devices[d.name].mounts \in Seq(Seq(Components))
         /\ SpecHooks(i, d) \in Seq(HookNames)
         /\ job.files[i].devices[d.name].hooks \in Seq(HookNames)
<1>1. i \in DOMAIN job.files
  BY DEF specs
<1>2. i \in Nat /\ FileOK(job.files[i])
  BY <1>1, JobAssumption DEF JobOK
<1>3. job.files[i].edits \in Edits
  BY <1>2 DEF FileOK
<1>4. job.files[i].devices[d.name] \in Edits
  BY <1>2 DEF FileOK
<1>5. d.name \in Devices
  BY DEF Requests
<1>6. DeviceEdits(i, d) \in Seq(Nat \X (Devices \cup {NoDevice}))
  <2>1. <<i, NoDevice>> \in Nat \X (Devices \cup {NoDevice})
    BY <1>2
  <2>2. <<i, d.name>> \in Nat \X (Devices \cup {NoDevice})
    BY <1>2, <1>5
  <2>3. /\ <<<<i, d.name>>>> \in Seq(Nat \X (Devices \cup {NoDevice}))
        /\ <<<<i, NoDevice>>, <<i, d.name>>>> \in Seq(Nat \X (Devices \cup {NoDevice}))
    BY <2>1, <2>2
  <2>4. QED
    BY <2>3, Zenon DEF DeviceEdits
<1>7. <<>> \in Seq(Seq(Components)) /\ <<>> \in Seq(HookNames)
  BY EmptySeq
<1>8. QED
  BY <1>2, <1>3, <1>4, <1>6, <1>7 DEF SpecMounts, SpecHooks, Edits

\* The components of a symlink's destination.
LEMMA DestTypes ==
  ASSUME job \in Jobs, NEW link \in DOMAIN job.links, link \in Seq(Names)
  PROVE  job.links[link].parts \in Seq(Components) /\ Follow(link) \in Seq(Names)
<1>1. job.links[link].parts \in Seq(Components)
  BY JobAssumption DEF JobOK, Dests
<1>2. QED
  BY <1>1, DirType, EmptySeq DEF Follow

\* Where the loops of runCDIHooks go on.
LEMMA HookMoves ==
  ASSUME NEW h \in HookStates
  PROVE  /\ [h EXCEPT !.stage = h.stage + 1, !.pos = 1] \in HookStates
         /\ [h EXCEPT !.pos = h.pos + 1] \in HookStates
         /\ [h EXCEPT !.proc = "none", !.pos = h.pos + 1] \in HookStates
         /\ [h EXCEPT !.proc = "runs"] \in HookStates
         /\ [h EXCEPT !.proc = "none"] \in HookStates
<1>1. h.stage + 1 \in Nat /\ h.pos + 1 \in Nat
  BY DEF HookStates
<1>2. /\ [h EXCEPT !.proc = "runs"] \in HookStates
      /\ [h EXCEPT !.proc = "none"] \in HookStates
  BY DEF HookStates
<1>3. [h EXCEPT !.pos = h.pos + 1] \in HookStates
  BY <1>1 DEF HookStates
<1>4. [h EXCEPT !.stage = h.stage + 1, !.pos = 1] \in HookStates
  BY <1>1 DEF HookStates
<1>5. [h EXCEPT !.proc = "none", !.pos = h.pos + 1] \in HookStates
  BY <1>1 DEF HookStates
<1>6. QED
  BY <1>2, <1>3, <1>4, <1>5

\* A mount that is being handled is the first one of those left, and a volume that is
\* being linked the last one made.
MountUnderWay ==
  /\ at \in {"clean", "resolve", "volume", "link", "unlink", "unlinkErr"} => mounts # <<>>
  /\ at \in {"link", "unlink", "unlinkErr"} => vols # 0

\* The variables of a CreateContainer call keep their types, and while it works on a
\* mount there is one.
LEMMA TypeInv == Spec => [](TypeOK /\ MountUnderWay)
<1>1. Init => TypeOK /\ MountUnderWay
  BY JobAssumption, BoundAssumption, EmptySeq
     DEF Init, TypeOK, JobOK, Steps, MountUnderWay
<1>2. TypeOK /\ MountUnderWay /\ [Next]_vars => TypeOK'
  <2> SUFFICES ASSUME TypeOK, MountUnderWay, [Next]_vars PROVE TypeOK'
    OBVIOUS
  <2> USE BoundAssumption DEF Steps, Goto, Return, Works, Fails, walkVars, volVars, hookVars
  <2>0. job \in Jobs /\ HandlerOK /\ DevOK /\ WalkOK /\ VolumesOK /\ HooksOK
    BY TypeParts
  <2>1. CASE loadCDISpecs
    <3>1. job' \in Jobs /\ DevOK' /\ WalkOK' /\ VolumesOK' /\ HooksOK'
      BY <2>0, <2>1 DEF loadCDISpecs, DevOK, WalkOK, VolumesOK, HooksOK
    <3>2. HandlerOK'
      BY <2>0, <2>1 DEF loadCDISpecs, HandlerOK
    <3>3. QED
      BY <3>1, <3>2, TypePartsPrimed
  <2>2. CASE resolveCDIDevices
    <3>1. job' \in Jobs /\ HandlerOK' /\ WalkOK' /\ VolumesOK' /\ HooksOK'
      BY <2>0, <2>2 DEF resolveCDIDevices, HandlerOK, WalkOK, VolumesOK, HooksOK
    <3>2. Head(dev.todo) \in Requests /\ Tail(dev.todo) \in Seq(Requests)
      BY <2>0, <2>2, HeadTailProperties DEF resolveCDIDevices, DevOK
    <3>3. CASE Head(dev.todo) \in dev.seen
      <4>1. DevOK'
        BY <2>0, <2>2, <3>2, <3>3 DEF resolveCDIDevices, DevOK
      <4>2. QED
        BY <3>1, <4>1, TypePartsPrimed
    <3>4. CASE Head(dev.todo) \notin dev.seen
      <4> DEFINE d == Head(dev.todo)
      <4>1. CASE ~\E i \in specs(d.kind) : d.name \in DOMAIN job.files[i].devices
        <5>1. DevOK'
          BY <2>0, <2>2, <3>4, <4>1 DEF resolveCDIDevices, DevOK
        <5>2. QED
          BY <3>1, <5>1, TypePartsPrimed
      <4>2. CASE \E i \in specs(d.kind) : d.name \in DOMAIN job.files[i].devices
        <5>1. PICK i \in specs(d.kind) :
                /\ d.name \in DOMAIN job.files[i].devices
                /\ dev' = [todo |-> Tail(dev.todo), seen |-> dev.seen \cup {d},
                           appliedSpecs |-> dev.appliedSpecs \cup {d.kind},
                           edits |-> dev.edits \o DeviceEdits(i, d)]
                /\ mounts' = mounts \o SpecMounts(i, d) \o job.files[i].devices[d.name].mounts
                /\ hooks' = hooks \o SpecHooks(i, d) \o job.files[i].devices[d.name].hooks
          BY <2>2, <3>4, <4>2 DEF resolveCDIDevices
        <5>2. /\ DeviceEdits(i, d) \in Seq(Nat \X (Devices \cup {NoDevice}))
              /\ SpecMounts(i, d) \in Seq(Seq(Components))
              /\ job.files[i].devices[d.name].mounts \in Seq(Seq(Components))
              /\ SpecHooks(i, d) \in Seq(HookNames)
              /\ job.files[i].devices[d.name].hooks \in Seq(HookNames)
          BY <2>0, <3>2, <5>1, EditTypes
        <5>3. mounts' \in Seq(Seq(Components))
          BY <2>0, <5>1, <5>2, ConcatProperties DEF DevOK
        <5>4. hooks' \in Seq(HookNames)
          BY <2>0, <5>1, <5>2, ConcatProperties DEF DevOK
        <5>5. dev.edits \o DeviceEdits(i, d) \in Seq(Nat \X (Devices \cup {NoDevice}))
          BY <2>0, <5>2, ConcatProperties DEF DevOK
        <5>6. d.kind \in Kinds
          BY <3>2 DEF Requests
        <5>7. DevOK'
          BY <2>0, <3>2, <5>1, <5>3, <5>4, <5>5, <5>6 DEF DevOK
        <5>8. QED
          BY <3>1, <5>7, TypePartsPrimed
      <4>3. QED
        BY <4>1, <4>2
    <3>5. QED
      BY <3>3, <3>4
  <2>3. CASE DevicesResolved
    <3>1. job' \in Jobs /\ WalkOK' /\ VolumesOK' /\ HooksOK'
      BY <2>0, <2>3 DEF DevicesResolved, WalkOK, VolumesOK, HooksOK
    <3>2. HandlerOK'
      BY <2>0, <2>3 DEF DevicesResolved, HandlerOK
    <3>3. DevOK'
      BY <2>0, <2>3 DEF DevicesResolved, DevOK
    <3>4. QED
      BY <3>1, <3>2, <3>3, TypePartsPrimed
  <2>4. CASE CreateFromSpec
    <3>1. job' \in Jobs /\ DevOK' /\ WalkOK' /\ HooksOK'
      BY <2>0, <2>4 DEF CreateFromSpec, DevOK, WalkOK, HooksOK
    <3>2. HandlerOK'
      BY <2>0, <2>4 DEF CreateFromSpec, HandlerOK
    <3>3. VolumesOK'
      BY <2>0, <2>4 DEF CreateFromSpec, VolumesOK
    <3>4. QED
      BY <3>1, <3>2, <3>3, TypePartsPrimed
  <2>5. CASE GetRootPath
    <3>1. job' \in Jobs /\ DevOK' /\ VolumesOK' /\ HooksOK'
      BY <2>0, <2>5 DEF GetRootPath, DevOK, VolumesOK, HooksOK
    <3>2. HandlerOK'
      BY <2>0, <2>5 DEF GetRootPath, HandlerOK
    <3>3. WalkOK'
      BY <2>0, <2>5 DEF GetRootPath, WalkOK
    <3>4. QED
      BY <3>1, <3>2, <3>3, TypePartsPrimed
  <2>6. CASE Destroy
    <3>1. job' \in Jobs /\ DevOK' /\ WalkOK' /\ HooksOK'
      BY <2>0, <2>6 DEF Destroy, DevOK, WalkOK, HooksOK
    <3>2. HandlerOK'
      BY <2>0, <2>6 DEF Destroy, HandlerOK
    <3>3. VolumesOK'
      BY <2>0, <2>6 DEF Destroy, VolumesOK
    <3>4. QED
      BY <3>1, <3>2, <3>3, TypePartsPrimed
  <2>7. CASE NextMount
    <3>1. job' \in Jobs /\ HandlerOK' /\ DevOK' /\ VolumesOK' /\ HooksOK'
      BY <2>0, <2>7 DEF NextMount, HandlerOK, DevOK, VolumesOK, HooksOK
    <3>2. mounts # <<>> => Head(mounts) \in Seq(Components)
      BY <2>0, HeadTailProperties DEF DevOK
    <3>3. WalkOK'
      BY <2>0, <2>7, <3>2, EmptySeq DEF NextMount, WalkOK
    <3>4. QED
      BY <3>1, <3>3, TypePartsPrimed
  <2>8. CASE Clean
    <3>1. job' \in Jobs /\ HandlerOK' /\ DevOK' /\ VolumesOK' /\ HooksOK'
      BY <2>0, <2>8 DEF Clean, HandlerOK, DevOK, VolumesOK, HooksOK
    <3>2. Dir(current) \in Seq(Names)
      BY <2>0, DirType DEF WalkOK
    <3>3. CASE parts # <<>>
      <4>1. Head(parts) \in Components /\ Tail(parts) \in Seq(Components)
        BY <2>0, <3>3, HeadTailProperties DEF WalkOK
      <4>2. Head(parts) \in Names \/ Head(parts) = "." \/ Head(parts) = ".."
        BY <4>1 DEF Components
      <4>3. Head(parts) \in Names => Append(current, Head(parts)) \in Seq(Names)
        BY <2>0, AppendProperties DEF WalkOK
      <4>4. WalkOK'
        BY <2>0, <2>8, <3>2, <3>3, <4>1, <4>2, <4>3 DEF Clean, WalkOK
      <4>5. QED
        BY <3>1, <4>4, TypePartsPrimed
    <3>4. CASE parts = <<>>
      <4>1. current # <<>> => current[Len(current)] \in Names
        BY <2>0, EmptySeq, ElementOfSeq DEF WalkOK
      <4>2. base' \in Seq(Names)
        <5>1. base' = IF current = <<>> THEN <<>> ELSE <<current[Len(current)]>>
          BY <2>8, <3>4 DEF Clean
        <5>2. <<>> \in Seq(Names)
          BY EmptySeq
        <5>3. current # <<>> => <<current[Len(current)]>> \in Seq(Names)
          BY <4>1
        <5>4. QED
          BY <5>1, <5>2, <5>3, Zenon
      <4>3. parts' \in Seq(Components)
        BY <2>8, <3>2, <3>4, SeqMonotonic DEF Clean, Components
      <4>4. WalkOK'
        BY <2>0, <2>8, <3>4, <4>2, <4>3, EmptySeq DEF Clean, WalkOK
      <4>5. QED
        BY <3>1, <4>4, TypePartsPrimed
    <3>5. QED
      BY <3>3, <3>4
  <2>9. CASE resolveInRoot
    <3> DEFINE next == Append(current, Head(parts))
    <3>1. job' \in Jobs /\ DevOK' /\ VolumesOK' /\ HooksOK'
      BY <2>0, <2>9 DEF resolveInRoot, DevOK, VolumesOK, HooksOK
    <3>2. HandlerOK'
      BY <2>0, <2>9, SMTT(20) DEF resolveInRoot, HandlerOK
    <3>3. Head(parts) \in Components /\ Tail(parts) \in Seq(Components)
      BY <2>0, <2>9, HeadTailProperties DEF resolveInRoot, WalkOK
    <3>4. Head(parts) \in Names \/ Head(parts) = "." \/ Head(parts) = ".."
      BY <3>3 DEF Components
    <3>5. Head(parts) \in Names => next \in Seq(Names)
      BY <2>0, AppendProperties DEF WalkOK
    <3>6. CASE Head(parts) \in {".", ".."} \/ ~IsLink(next)
      <4>1. Dir(current) \in Seq(Names)
        BY <2>0, DirType DEF WalkOK
      <4>2. parts' \in Seq(Components) /\ current' \in Seq(Names) /\ symlinks' \in 0 .. MaxSymlinks
        <5>1. /\ parts' = Tail(parts) /\ symlinks' = symlinks
              /\ current' = CASE Head(parts) = "."  -> current
                              [] Head(parts) = ".." -> Dir(current)
                              [] OTHER -> next
          BY <2>9, <3>6, NameAssumption DEF resolveInRoot
        <5>2. current' \in Seq(Names)
          BY <2>0, <3>4, <3>5, <4>1, <5>1 DEF WalkOK
        <5>3. QED
          BY <2>0, <3>3, <5>1, <5>2 DEF WalkOK
      <4>3. QED
        BY <2>0, <2>9, <3>1, <3>2, <4>2, TypePartsPrimed DEF resolveInRoot, WalkOK
    <3>7. CASE Head(parts) \in Names /\ IsLink(next) /\ ~IsLastLink
      <4>1. job.links[next].parts \in Seq(Components) /\ Follow(next) \in Seq(Names)
        BY <2>0, <3>5, <3>7, DestTypes DEF IsLink
      <4>2. job.links[next].parts \o Tail(parts) \in Seq(Components)
        BY <3>3, <4>1, ConcatProperties
      <4>3. symlinks + 1 \in 0 .. MaxSymlinks
        BY <2>0, <3>7 DEF WalkOK, IsLastLink
      <4>4. parts' \in Seq(Components) /\ current' \in Seq(Names) /\ symlinks' \in 0 .. MaxSymlinks
        <5>1. /\ symlinks' = symlinks + 1
              /\ \/ current' = Follow(next) /\ parts' = job.links[next].parts \o Tail(parts)
                 \/ UNCHANGED <<parts, current>>
          BY <2>9, <3>7, NameAssumption DEF resolveInRoot
        <5>2. QED
          BY <2>0, <4>1, <4>2, <4>3, <5>1, Zenon DEF WalkOK
      <4>5. QED
        BY <2>0, <2>9, <3>1, <3>2, <4>4, TypePartsPrimed DEF resolveInRoot, WalkOK
    <3>8. CASE Head(parts) \in Names /\ IsLink(next) /\ IsLastLink
      BY <2>0, <2>9, <3>1, <3>2, <3>8, NameAssumption, TypePartsPrimed DEF resolveInRoot, WalkOK
    <3>9. QED
      BY <3>4, <3>6, <3>7, <3>8
  <2>10. CASE cdiMountTarget
    <3>1. job' \in Jobs /\ HandlerOK' /\ VolumesOK' /\ HooksOK'
      BY <2>0, <2>10 DEF cdiMountTarget, HandlerOK, VolumesOK, HooksOK
    <3>2. current \o base \in Seq(Names)
      BY <2>0, ConcatProperties DEF WalkOK
    <3>3. WalkOK'
      BY <2>0, <2>10, <3>2 DEF cdiMountTarget, WalkOK
    <3>4. mounts' \in Seq(Seq(Components))
      <4>1. mounts # <<>>
        BY <2>10 DEF cdiMountTarget, MountUnderWay
      <4>2. Tail(mounts) \in Seq(Seq(Components))
        BY <2>0, <4>1, HeadTailProperties DEF DevOK
      <4>3. QED
        BY <2>0, <2>10, <4>2 DEF cdiMountTarget, DevOK
    <3>5. DevOK'
      BY <2>0, <2>10, <3>4 DEF cdiMountTarget, DevOK
    <3>6. QED
      BY <3>1, <3>3, <3>5, TypePartsPrimed
  <2>11. CASE CreateVolume
    <3>1. job' \in Jobs /\ DevOK' /\ WalkOK' /\ HooksOK'
      BY <2>0, <2>11 DEF CreateVolume, DevOK, WalkOK, HooksOK
    <3>2. HandlerOK'
      BY <2>0, <2>11 DEF CreateVolume, HandlerOK
    <3>3. VolumesOK'
      <4>1. /\ UNCHANGED <<ct, bound>>
            /\ \/ UNCHANGED <<vols, self, lost>>
               \/ /\ vols' = vols + 1 /\ self' = self \cup {vols + 1}
                  /\ lost' = lost \/ lost' = lost \cup {vols + 1}
        BY <2>11 DEF CreateVolume
      <4>2. vols \in Nat /\ 1 .. vols \subseteq 1 .. vols + 1 /\ vols + 1 \in 1 .. vols + 1
        BY <2>0 DEF VolumesOK
      <4>3. CASE UNCHANGED <<vols, self, lost>>
        BY <2>0, <4>1, <4>3 DEF VolumesOK
      <4>4. CASE vols' = vols + 1
        <5>1. self' \subseteq 1 .. vols' /\ lost' \subseteq 1 .. vols'
          BY <2>0, <4>1, <4>2, <4>4 DEF VolumesOK
        <5>2. bound' \subseteq [vol : 1 .. vols', target : Seq(Names)]
          BY <2>0, <4>1, <4>2, <4>4 DEF VolumesOK
        <5>3. QED
          BY <2>0, <4>1, <4>2, <4>4, <5>1, <5>2 DEF VolumesOK
      <4>5. QED
        BY <4>1, <4>3, <4>4
    <3>4. QED
      BY <3>1, <3>2, <3>3, TypePartsPrimed
  <2>12. CASE LinkVolumeTarget
    <3>1. job' \in Jobs /\ DevOK' /\ WalkOK' /\ HooksOK'
      BY <2>0, <2>12 DEF LinkVolumeTarget, DevOK, WalkOK, HooksOK, Bind
    <3>2. HandlerOK'
      BY <2>0, <2>12 DEF LinkVolumeTarget, HandlerOK, Bind
    <3>3. VolumesOK'
      <4>1. /\ UNCHANGED <<ct, vols, self, lost>>
            /\ bound' = bound \/ bound' = bound \cup {[vol |-> vols, target |-> current]}
        BY <2>12 DEF LinkVolumeTarget, Bind
      <4>2. vols \in 1 .. vols
        BY <2>0, <2>12 DEF LinkVolumeTarget, MountUnderWay, VolumesOK
      <4>3. QED
        BY <2>0, <4>1, <4>2 DEF VolumesOK, WalkOK
    <3>4. QED
      BY <3>1, <3>2, <3>3, TypePartsPrimed
  <2>13. CASE UnlinkVolume
    <3>1. job' \in Jobs /\ WalkOK' /\ HooksOK'
      BY <2>0, <2>13 DEF UnlinkVolume, WalkOK, HooksOK
    <3>2. HandlerOK'
      BY <2>0, <2>13 DEF UnlinkVolume, HandlerOK
    <3>3. DevOK'
      <4>1. mounts # <<>>
        BY <2>13 DEF UnlinkVolume, MountUnderWay
      <4>2. Tail(mounts) \in Seq(Seq(Components))
        BY <2>0, <4>1, HeadTailProperties DEF DevOK
      <4>3. UNCHANGED <<dev, hooks>> /\ (mounts' = mounts \/ mounts' = Tail(mounts))
        BY <2>13 DEF UnlinkVolume
      <4>4. QED
        BY <2>0, <4>2, <4>3 DEF DevOK
    <3>4. VolumesOK'
      <4>1. /\ UNCHANGED <<ct, vols, bound>>
            /\ \/ self' = self \ {vols} /\ UNCHANGED lost
               \/ lost' = lost \cup {vols} /\ UNCHANGED self
        BY <2>13 DEF UnlinkVolume
      <4>2. vols \in 1 .. vols
        BY <2>0, <2>13 DEF UnlinkVolume, MountUnderWay, VolumesOK
      <4>3. QED
        BY <2>0, <4>1, <4>2 DEF VolumesOK
    <3>5. QED
      BY <3>1, <3>2, <3>3, <3>4, TypePartsPrimed
  <2>14. CASE PrepareBundle
    BY <2>0, <2>14, TypePartsPrimed
       DEF PrepareBundle, HandlerOK, DevOK, WalkOK, VolumesOK, HooksOK
  <2>15. CASE runCDIHooks
    <3>1. job' \in Jobs /\ DevOK' /\ WalkOK' /\ VolumesOK'
      BY <2>0, <2>15 DEF runCDIHooks, DevOK, WalkOK, VolumesOK
    <3>2. HandlerOK'
      BY <2>0, <2>15 DEF runCDIHooks, HandlerOK
    <3>3. HooksOK'
      <4>1. /\ ran' = ran
            /\ \/ hook' = hook
               \/ hook' = [hook EXCEPT !.stage = hook.stage + 1, !.pos = 1]
               \/ hook' = [hook EXCEPT !.pos = hook.pos + 1]
               \/ hook' = [hook EXCEPT !.proc = "runs"]
        BY <2>15 DEF runCDIHooks
      <4>2. QED
        BY <2>0, <4>1, HookMoves, Zenon DEF HooksOK
    <3>4. QED
      BY <3>1, <3>2, <3>3, TypePartsPrimed
  <2>16. CASE HookTimeout
    BY <2>0, <2>16, TypePartsPrimed
       DEF HookTimeout, HandlerOK, DevOK, WalkOK, VolumesOK, HooksOK, HookStates
  <2>17. CASE runCDIHook
    <3>1. job' \in Jobs /\ HandlerOK' /\ DevOK' /\ WalkOK' /\ VolumesOK'
      BY <2>0, <2>17 DEF runCDIHook, HandlerOK, DevOK, WalkOK, VolumesOK
    <3>2. Append(ran, hook.pos) \in Seq(Nat)
      <4>1. ran \in Seq(Nat) /\ hook.pos \in Nat
        BY <2>0 DEF HooksOK, HookStates
      <4>2. QED
        BY <4>1, AppendProperties
    <3>3. HooksOK'
      <4>1. /\ ran' = ran \/ ran' = Append(ran, hook.pos)
            /\ \/ hook' = [hook EXCEPT !.proc = "none", !.pos = hook.pos + 1]
               \/ hook' = [hook EXCEPT !.proc = "none"]
        BY <2>17 DEF runCDIHook
      <4>2. QED
        BY <2>0, <3>2, <4>1, HookMoves, Zenon DEF HooksOK
    <3>4. QED
      BY <3>1, <3>3, TypePartsPrimed
  <2>18. CASE HookForks
    BY <2>0, <2>18, TypePartsPrimed
       DEF HookForks, HandlerOK, DevOK, WalkOK, VolumesOK, HooksOK, HookStates
  <2>19. CASE HookChildEnds
    BY <2>0, <2>19, TypePartsPrimed
       DEF HookChildEnds, HandlerOK, DevOK, WalkOK, VolumesOK, HooksOK, HookStates
  <2>20. CASE HookExits
    <3>1. job' \in Jobs /\ DevOK' /\ WalkOK' /\ VolumesOK'
      BY <2>0, <2>20 DEF HookExits, DevOK, WalkOK, VolumesOK
    <3>2. HandlerOK'
      BY <2>0, <2>20 DEF HookExits, HandlerOK
    <3>3. HooksOK'
      <4>1. /\ ran' = ran
            /\ \/ hook' = [hook EXCEPT !.proc = "exited"]
               \/ hook' = [hook EXCEPT !.proc = "failed"]
        BY <2>20 DEF HookExits
      <4>2. QED
        BY <2>0, <4>1 DEF HooksOK, HookStates
    <3>4. QED
      BY <3>1, <3>2, <3>3, TypePartsPrimed
  <2>21. CASE Removed
    BY <2>0, <2>21, TypePartsPrimed
       DEF Removed, HandlerOK, DevOK, WalkOK, VolumesOK, HooksOK
  <2>22. CASE Crash
    <3>1. job' \in Jobs /\ DevOK' /\ WalkOK'
      BY <2>0, <2>22 DEF Crash, DevOK, WalkOK
    <3>2. HandlerOK'
      BY <2>0, <2>22 DEF Crash, HandlerOK
    <3>3. VolumesOK'
      BY <2>0, <2>22 DEF Crash, VolumesOK
    <3>4. HooksOK'
      <4>1. /\ ran' = ran
            /\ \/ hook' = [hook EXCEPT !.proc = "none"]
        BY <2>22 DEF Crash
      <4>2. QED
        BY <2>0, <4>1 DEF HooksOK, HookStates
    <3>5. QED
      BY <3>1, <3>2, <3>3, <3>4, TypePartsPrimed
  <2>23. CASE UNCHANGED vars
    BY <2>0, <2>23, TypePartsPrimed DEF vars, HandlerOK, DevOK, WalkOK, VolumesOK, HooksOK
  <2>24. QED
    BY <2>1, <2>2, <2>3, <2>4, <2>5, <2>6, <2>7, <2>8, <2>9, <2>10, <2>11, <2>12, <2>13,
       <2>14, <2>15, <2>16, <2>17, <2>18, <2>19, <2>20, <2>21, <2>22, <2>23
       DEF Next, HandlerStep
<1>3. TypeOK /\ MountUnderWay /\ [Next]_vars => MountUnderWay'
  <2> SUFFICES ASSUME TypeOK, MountUnderWay, [Next]_vars PROVE MountUnderWay'
    OBVIOUS
  <2> USE DEF MountUnderWay, Goto, Return, volVars, walkVars
  <2>1. CASE loadCDISpecs \/ resolveCDIDevices \/ DevicesResolved
    BY <2>1 DEF loadCDISpecs, resolveCDIDevices, DevicesResolved
  <2>2. CASE CreateFromSpec \/ GetRootPath \/ Destroy
    BY <2>2 DEF CreateFromSpec, GetRootPath, Destroy
  <2>3. CASE NextMount \/ Clean \/ resolveInRoot \/ cdiMountTarget
    <3>1. CASE NextMount
      BY <3>1 DEF NextMount
    <3>2. CASE Clean
      BY <3>2 DEF Clean
    <3>3. CASE resolveInRoot
      BY <3>3 DEF resolveInRoot
    <3>4. CASE cdiMountTarget
      BY <3>4 DEF cdiMountTarget
    <3>5. QED
      BY <2>3, <3>1, <3>2, <3>3, <3>4
  <2>4. CASE CreateVolume \/ LinkVolumeTarget \/ UnlinkVolume
    <3>1. vols \in Nat
      BY DEF TypeOK
    <3>2. QED
      BY <2>4, <3>1 DEF CreateVolume, LinkVolumeTarget, UnlinkVolume
  <2>5. CASE PrepareBundle \/ runCDIHooks \/ HookTimeout \/ runCDIHook
    BY <2>5 DEF PrepareBundle, runCDIHooks, HookTimeout, runCDIHook
  <2>6. CASE HookForks \/ HookChildEnds \/ HookExits \/ Removed \/ Crash
    BY <2>6 DEF HookForks, HookChildEnds, HookExits, Removed, Crash
  <2>7. CASE UNCHANGED vars
    BY <2>7 DEF vars
  <2>8. QED
    BY <2>1, <2>2, <2>3, <2>4, <2>5, <2>6, <2>7 DEF Next, HandlerStep
<1>4. QED
  BY <1>1, <1>2, <1>3, PTL DEF Spec

\* The variables of a CreateContainer call keep their types.
THEOREM TypeCorrect == Spec => []TypeOK
BY TypeInv, PTL

-----------------------------------------------------------------------------
(* The mounts *)

\* The last component of a mount is one name, or the mount is the root.
BaseShort == base = <<>> \/ \E name \in Names : base = <<name>>

\* The target of the volume that is being made crosses no symlink, is one of those
\* used, and no volume is bound there yet.
TargetFree ==
  at \in {"volume", "link"} =>
    /\ LinkFree(current)
    /\ current \in linked
    /\ \A b \in bound : b.target # current

TargetsUsed == \A b \in bound : b.target \in linked

\* The only volume linked to portoshim that no failure left behind is the one that is
\* being handed over.
SelfHeld ==
  self \subseteq lost \cup (IF at \in {"link", "unlink", "unlinkErr"} THEN {vols} ELSE {})

\* Lstat and Readlink of resolveInRoot and cdiMountTarget are given a host path, in
\* which the host follows symlinks: the directories of what they look at contain none.
LooksInsideRoot == at = "resolve" => LinkFree(current)

IInv ==
  /\ TypeOK /\ MountUnderWay
  /\ LooksInsideRoot
  /\ BaseShort
  /\ TargetFree
  /\ TargetsUsed
  /\ TargetsAreNoLinks
  /\ OneMountPerTarget
  /\ SelfHeld

\* What IInv says of the walk: preserved by the steps that leave it, and the volumes, alone.
WalkInv == LooksInsideRoot /\ BaseShort

\* What IInv says of the volumes.
VolumeInv == TargetFree /\ TargetsUsed /\ TargetsAreNoLinks /\ OneMountPerTarget /\ SelfHeld

\* Steps outside of the handling of a mount keep what it relies on: they bind no volume.
LEMMA OtherSteps ==
  ASSUME WalkInv, VolumeInv, UNCHANGED <<job, base, linked, self, vols>>,
         at' \notin {"resolve", "volume", "link", "unlink", "unlinkErr"} \/ UNCHANGED <<at, current>>,
         bound' \subseteq bound, lost \subseteq lost',
         at \in {"link", "unlink", "unlinkErr"} => at' = at \/ self \subseteq lost'
  PROVE  WalkInv' /\ VolumeInv'
<1>1. WalkInv'
  BY DEF WalkInv, LooksInsideRoot, BaseShort, LinkFree
<1>2. TargetFree'
  BY DEF VolumeInv, TargetFree, LinkFree
<1>3. TargetsUsed' /\ TargetsAreNoLinks' /\ OneMountPerTarget'
  BY DEF VolumeInv, TargetsUsed, TargetsAreNoLinks, OneMountPerTarget, LinkFree
<1>4. SelfHeld'
  BY DEF VolumeInv, SelfHeld
<1>5. QED
  BY <1>1, <1>2, <1>3, <1>4 DEF VolumeInv

\* The walk changes no volume.
LEMMA WalkSteps ==
  ASSUME VolumeInv, UNCHANGED <<linked, volVars, job>>,
         at \notin {"link", "unlink", "unlinkErr"}, at' \notin {"volume", "link"}
  PROVE  VolumeInv'
<1>1. TargetFree' /\ TargetsUsed' /\ TargetsAreNoLinks' /\ OneMountPerTarget'
  BY DEF VolumeInv, TargetFree, TargetsUsed, TargetsAreNoLinks, OneMountPerTarget, LinkFree, volVars
<1>2. SelfHeld'
  BY DEF VolumeInv, SelfHeld, volVars
<1>3. QED
  BY <1>1, <1>2 DEF VolumeInv

\* IInv holds in every reachable state.
THEOREM IInvHolds == Spec => []IInv
<1>1. Init => IInv
  <2> SUFFICES ASSUME Init PROVE IInv
    OBVIOUS
  <2>1. TypeOK /\ MountUnderWay
    BY JobAssumption, BoundAssumption, EmptySeq DEF Init, TypeOK, JobOK, Steps, MountUnderWay
  <2>2. QED
    BY <2>1 DEF Init, IInv, LooksInsideRoot, BaseShort, TargetFree, TargetsUsed,
                TargetsAreNoLinks, OneMountPerTarget, SelfHeld
<1>2. IInv /\ TypeOK' /\ MountUnderWay' /\ [Next]_vars => IInv'
  <2> SUFFICES ASSUME IInv, [Next]_vars PROVE WalkInv' /\ VolumeInv'
    BY DEF IInv, WalkInv, VolumeInv
  <2> USE DEF Goto, Return, walkVars, volVars
  <2>0. TypeOK /\ WalkInv /\ VolumeInv
    BY DEF IInv, WalkInv, VolumeInv
  <2>1. CASE loadCDISpecs \/ resolveCDIDevices \/ DevicesResolved
    BY <2>0, <2>1, OtherSteps DEF loadCDISpecs, resolveCDIDevices, DevicesResolved
  <2>2. CASE CreateFromSpec \/ GetRootPath \/ Destroy
    BY <2>0, <2>2, OtherSteps DEF CreateFromSpec, GetRootPath, Destroy
  <2>3. CASE NextMount
    <3>1. WalkInv'
      BY <2>0, <2>3 DEF NextMount, WalkInv, LooksInsideRoot, BaseShort
    <3>2. QED
      BY <2>0, <2>3, <3>1, WalkSteps DEF NextMount
  <2>4. CASE Clean
    <3>1. VolumeInv'
      BY <2>0, <2>4, WalkSteps DEF Clean
    <3>2. CASE parts # <<>>
      BY <2>0, <2>4, <3>1, <3>2 DEF Clean, WalkInv, LooksInsideRoot, BaseShort
    <3>3. CASE parts = <<>>
      <4>1. current' = <<>> /\ job' = job
        BY <2>4, <3>3 DEF Clean
      <4>2. LooksInsideRoot'
        BY <4>1, RootLinkFree DEF LooksInsideRoot, LinkFree
      <4>3. current # <<>> => current[Len(current)] \in Names
        BY <2>0, EmptySeq, ElementOfSeq DEF TypeOK
      <4>4. base' = IF current = <<>> THEN <<>> ELSE <<current[Len(current)]>>
        BY <2>4, <3>3 DEF Clean
      <4>5. BaseShort'
        BY <4>3, <4>4, Zenon DEF BaseShort
      <4>6. QED
        BY <3>1, <4>2, <4>5 DEF WalkInv
    <3>4. QED
      BY <3>2, <3>3
  <2>5. CASE resolveInRoot
    <3> DEFINE next == Append(current, Head(parts))
    <3>1. VolumeInv'
      BY <2>0, <2>5, WalkSteps DEF resolveInRoot
    <3>2. BaseShort' /\ UNCHANGED job
      BY <2>0, <2>5 DEF resolveInRoot, WalkInv, BaseShort
    <3>3. LinkFree(current) /\ current \in Seq(Names)
      BY <2>0, <2>5 DEF resolveInRoot, WalkInv, LooksInsideRoot, TypeOK
    <3>4. Dir(current) \in Seq(Names) /\ LinkFree(Dir(current))
      BY <3>3, DirType, DirLinkFree
    <3>5. Head(parts) \in Components
      BY <2>0, <2>5, HeadTailProperties DEF resolveInRoot, TypeOK
    <3>6. CASE Head(parts) \in {".", ".."} \/ ~IsLink(next)
      <4>1. current' = CASE Head(parts) = "."  -> current
                         [] Head(parts) = ".." -> Dir(current)
                         [] OTHER -> next
        BY <2>5, <3>6, NameAssumption DEF resolveInRoot
      <4>2. Head(parts) \notin {".", ".."} => LinkFree(next)
        BY <3>3, <3>5, <3>6, AppendLinkFree DEF Components, IsLink
      <4>3. LinkFree(current')
        BY <3>3, <3>4, <4>1, <4>2
      <4>4. QED
        BY <3>1, <3>2, <4>3 DEF WalkInv, LooksInsideRoot, LinkFree
    <3>7. CASE Head(parts) \in Names /\ IsLink(next)
      <4>1. Dir(next) = current
        BY <3>3, <3>7, DirOfAppend
      <4>2. LinkFree(Follow(next))
        BY <3>3, <4>1, RootLinkFree DEF Follow
      <4>3. current' = Follow(next) \/ current' = current
        BY <2>5, <3>7, NameAssumption DEF resolveInRoot
      <4>4. LinkFree(current')
        BY <3>3, <4>2, <4>3
      <4>5. QED
        BY <3>1, <3>2, <4>4 DEF WalkInv, LooksInsideRoot, LinkFree
    <3>8. QED
      BY <3>5, <3>6, <3>7 DEF Components
  <2>6. CASE cdiMountTarget
    <3> DEFINE target == current \o base
    <3>1. LinkFree(current) /\ current \in Seq(Names)
      BY <2>0, <2>6 DEF cdiMountTarget, WalkInv, LooksInsideRoot, TypeOK
    <3>2. CASE IsLink(target) \/ IsUsed(target)
      BY <2>0, <2>6, <3>2, WalkSteps DEF cdiMountTarget, WalkInv, LooksInsideRoot, BaseShort
    <3>3. CASE ~IsLink(target) /\ ~IsUsed(target)
      <4>1. /\ linked' = linked \cup {target}
            /\ current' = target
            /\ at' = "volume"
            /\ UNCHANGED <<job, base, volVars>>
        BY <2>6, <3>3 DEF cdiMountTarget
      <4>2. LinkFree(target)
        <5>1. CASE base = <<>>
          <6>1. target = current
            BY <3>1, <5>1, ConcatEmptySeq
          <6>2. QED
            BY <3>1, <6>1
        <5>2. CASE base # <<>>
          <6>1. PICK name \in Names : base = <<name>>
            BY <2>0, <5>2 DEF WalkInv, BaseShort
          <6>2. target = Append(current, name)
            BY <3>1, <6>1, AppendIsConcat
          <6>3. QED
            BY <3>1, <3>3, <6>2, AppendLinkFree DEF IsLink
        <5>3. QED
          BY <5>1, <5>2
      <4>3. WalkInv'
        BY <2>0, <4>1 DEF WalkInv, LooksInsideRoot, BaseShort
      <4>4. TargetFree'
        <5>1. \A b \in bound : b.target # target
          BY <2>0, <3>3 DEF VolumeInv, TargetsUsed, IsUsed
        <5>2. QED
          BY <4>1, <4>2, <5>1 DEF TargetFree, LinkFree
      <4>5. TargetsUsed' /\ TargetsAreNoLinks' /\ OneMountPerTarget'
        BY <2>0, <4>1 DEF VolumeInv, TargetsUsed, TargetsAreNoLinks, OneMountPerTarget, LinkFree
      <4>6. SelfHeld'
        BY <2>0, <2>6, <4>1 DEF cdiMountTarget, VolumeInv, SelfHeld
      <4>7. QED
        BY <4>3, <4>4, <4>5, <4>6 DEF VolumeInv
    <3>4. QED
      BY <3>2, <3>3
  <2>7. CASE CreateVolume
    <3>1. UNCHANGED <<job, base, current, linked, bound>> /\ at = "volume" /\ at' \in {"link", "destroy"}
      BY <2>7 DEF CreateVolume
    <3>2. WalkInv'
      BY <2>0, <3>1 DEF WalkInv, LooksInsideRoot, BaseShort
    <3>3. TargetFree' /\ TargetsUsed' /\ TargetsAreNoLinks' /\ OneMountPerTarget'
      BY <2>0, <3>1
         DEF VolumeInv, TargetFree, TargetsUsed, TargetsAreNoLinks, OneMountPerTarget, LinkFree
    <3>4. SelfHeld'
      <4>1. self \subseteq lost
        BY <2>0, <3>1 DEF VolumeInv, SelfHeld
      <4>2. QED
        BY <2>7, <4>1 DEF CreateVolume, SelfHeld
    <3>5. QED
      BY <3>2, <3>3, <3>4 DEF VolumeInv
  <2>8. CASE LinkVolumeTarget
    <3>1. /\ UNCHANGED <<job, base, linked, vols, self, lost>>
          /\ at = "link" /\ at' \in {"unlink", "unlinkErr"}
          /\ bound' = bound \/ bound' = bound \cup {[vol |-> vols, target |-> current]}
      BY <2>8 DEF LinkVolumeTarget, Bind
    <3>2. WalkInv'
      BY <2>0, <3>1 DEF WalkInv, LooksInsideRoot, BaseShort
    <3>3. LinkFree(current) /\ current \in linked /\ \A b \in bound : b.target # current
      BY <2>0, <3>1 DEF VolumeInv, TargetFree
    <3>4. TargetFree' /\ SelfHeld'
      BY <2>0, <3>1 DEF VolumeInv, TargetFree, SelfHeld
    <3>5. TargetsUsed' /\ TargetsAreNoLinks' /\ OneMountPerTarget'
      BY <2>0, <3>1, <3>3
         DEF VolumeInv, TargetsUsed, TargetsAreNoLinks, OneMountPerTarget, LinkFree
    <3>6. QED
      BY <3>2, <3>4, <3>5 DEF VolumeInv
  <2>9. CASE UnlinkVolume
    <3>1. /\ UNCHANGED <<job, base, linked, vols, bound>>
          /\ at \in {"unlink", "unlinkErr"} /\ at' \in {"mount", "destroy"}
          /\ \/ self' = self \ {vols} /\ lost' = lost
             \/ lost' = lost \cup {vols} /\ self' = self
      BY <2>9 DEF UnlinkVolume
    <3>2. WalkInv'
      BY <2>0, <3>1 DEF WalkInv, LooksInsideRoot, BaseShort
    <3>3. TargetFree' /\ TargetsUsed' /\ TargetsAreNoLinks' /\ OneMountPerTarget'
      BY <2>0, <3>1
         DEF VolumeInv, TargetFree, TargetsUsed, TargetsAreNoLinks, OneMountPerTarget, LinkFree
    <3>4. SelfHeld'
      BY <2>0, <3>1 DEF VolumeInv, SelfHeld
    <3>5. QED
      BY <3>2, <3>3, <3>4 DEF VolumeInv
  <2>10. CASE PrepareBundle \/ runCDIHooks \/ HookTimeout \/ runCDIHook
    BY <2>0, <2>10, OtherSteps DEF PrepareBundle, runCDIHooks, HookTimeout, runCDIHook
  <2>11. CASE HookForks \/ HookChildEnds \/ HookExits \/ Removed
    BY <2>0, <2>11, OtherSteps DEF HookForks, HookChildEnds, HookExits, Removed
  <2>12. CASE Crash
    BY <2>0, <2>12, OtherSteps DEF Crash
  <2>13. CASE UNCHANGED vars
    BY <2>0, <2>13, OtherSteps DEF vars
  <2>14. QED
    BY <2>1, <2>2, <2>3, <2>4, <2>5, <2>6, <2>7, <2>8, <2>9, <2>10, <2>11, <2>12, <2>13
       DEF Next, HandlerStep
<1>3. QED
  BY <1>1, <1>2, TypeInv, PTL DEF Spec

\* resolveInRoot never hands the host a path that leads over a symlink of the image,
\* for every container root.
THEOREM InsideRoot == Spec => []LooksInsideRoot
BY IInvHolds, PTL DEF IInv

\* Volumes are bound at no symlink and beneath none, for every container root.
THEOREM NoLinkTargets == Spec => []TargetsAreNoLinks
BY IInvHolds, PTL DEF IInv

\* Two volumes never have the same target, for every list of mounts.
THEOREM SingleMounts == Spec => []OneMountPerTarget
BY IInvHolds, PTL DEF IInv

\* portoshim hands every volume over, unless a call failed or it went down.
THEOREM VolumesGone == Spec => []VolumesHandedOver
<1>1. IInv => VolumesHandedOver
  BY DEF IInv, SelfHeld, VolumesHandedOver
<1>2. QED
  BY <1>1, IInvHolds, PTL

-----------------------------------------------------------------------------
(* The hooks *)

Stages == 1 .. 3

\* The loops of runCDIHooks have passed a hook when they stand at this stage and
\* position.
Passed(h, stage, pos) ==
  \E s \in Stages : hooks[h] = cdiHookStages[s] /\ (s < stage \/ (s = stage /\ h < pos))

\* The loops stay within stages and hooks, and wait only for a hook that is due.
LoopInv ==
  /\ at \notin {"hook", "wait", "destroy", "idle"} =>
       ran = <<>> /\ hook.stage = 1 /\ hook.pos = 1
  /\ at \in {"hook", "wait"} =>
       hook.stage \in 1 .. 4 /\ hook.pos \in 1 .. Len(hooks) + 1
  /\ at = "wait" =>
       /\ hook.stage \in Stages /\ hook.pos \in DOMAIN hooks
       /\ hooks[hook.pos] = cdiHookStages[hook.stage]

\* What ran has been passed, in the order in which it is passed.
RanPassed ==
  /\ \A x \in DOMAIN ran : ran[x] \in DOMAIN hooks /\ Passed(ran[x], hook.stage, hook.pos)
  /\ \A x, y \in DOMAIN ran : x < y =>
       \E s, t \in Stages :
         /\ hooks[ran[x]] = cdiHookStages[s] /\ hooks[ran[y]] = cdiHookStages[t]
         /\ s < t \/ (s = t /\ ran[x] < ran[y])

HasRun(h) == \E x \in DOMAIN ran : ran[x] = h

\* What was passed ran: the loops go on only after a hook that succeeded.
PassedRan ==
  /\ at \in {"hook", "wait"} =>
       \A h \in DOMAIN hooks : Passed(h, hook.stage, hook.pos) => HasRun(h)
  /\ result = "ok" => \A h \in DOMAIN hooks : hooks[h] # "startContainer" => HasRun(h)
  /\ result # "none" => at = "idle"

HookInv == LoopInv /\ RanPassed /\ PassedRan

\* The stages are three different ones, and the fourth kind of hook is not among them.
LEMMA StageNames ==
  /\ DOMAIN cdiHookStages = Stages /\ Len(cdiHookStages) = 3
  /\ \A s, t \in Stages : cdiHookStages[s] = cdiHookStages[t] => s = t
  /\ \A s \in Stages : cdiHookStages[s] # "startContainer"
  /\ \A name \in HookNames : name # "startContainer" =>
       \E s \in Stages : cdiHookStages[s] = name
<1>1. /\ cdiHookStages[1] = "prestart" /\ cdiHookStages[2] = "createRuntime"
      /\ cdiHookStages[3] = "createContainer"
      /\ DOMAIN cdiHookStages = Stages /\ Len(cdiHookStages) = 3
  BY DEF cdiHookStages, Stages
<1>2. \A s \in Stages : s = 1 \/ s = 2 \/ s = 3
  BY DEF Stages
<1>3. 1 \in Stages /\ 2 \in Stages /\ 3 \in Stages
  BY DEF Stages
<1>4. QED
  BY <1>1, <1>2, <1>3 DEF HookNames

\* A step that leaves the loops where they are, or leaves them.
LEMMA OutsideLoops ==
  ASSUME HookInv, UNCHANGED <<hooks, ran>>,
         hook'.stage = hook.stage, hook'.pos = hook.pos,
         at' \in {"hook", "wait"} => at' = at,
         at' \in {"hook", "wait", "destroy", "idle"}
           \/ at \notin {"hook", "wait", "destroy", "idle"},
         result' = "ok" => result = "ok" \/ hooks = <<>>,
         result' # "none" => at' = "idle"
  PROVE  HookInv'
<1>1. LoopInv'
  BY DEF HookInv, LoopInv
<1>2. RanPassed'
  BY DEF HookInv, RanPassed, Passed
<1>3. PassedRan'
  BY DEF HookInv, PassedRan, Passed, HasRun
<1>4. QED
  BY <1>1, <1>2, <1>3 DEF HookInv

\* Before the loops begin no hook has run, whatever the hooks are.
LEMMA BeforeLoops ==
  ASSUME HookInv, at \notin {"hook", "wait", "destroy", "idle"}, UNCHANGED <<ran, hook, result>>,
         at' \notin {"wait", "destroy", "idle"},
         Len(hooks') \in Nat /\ DOMAIN hooks' = 1 .. Len(hooks')
  PROVE  HookInv'
<1>1. ran = <<>> /\ hook.stage = 1 /\ hook.pos = 1 /\ result = "none"
  BY DEF HookInv, LoopInv, PassedRan
<1>2. DOMAIN ran = {}
  BY <1>1
<1>3. LoopInv'
  BY <1>1 DEF LoopInv
<1>4. RanPassed'
  BY <1>2 DEF RanPassed
<1>5. \A h \in DOMAIN hooks' : ~Passed(h, 1, 1)'
  BY DEF Passed, Stages
<1>6. PassedRan'
  BY <1>1, <1>5 DEF PassedRan, Passed
<1>7. QED
  BY <1>3, <1>4, <1>6 DEF HookInv

\* A round of the loops of runCDIHooks passes what the next position is behind.
LEMMA LoopRound == TypeOK /\ HookInv /\ runCDIHooks => HookInv'
<1> SUFFICES ASSUME TypeOK, HookInv, runCDIHooks PROVE HookInv'
  OBVIOUS
<1> USE StageNames DEF Goto, Return
<1>1. /\ hook \in HookStates /\ Len(hooks) \in Nat /\ DOMAIN hooks = 1 .. Len(hooks)
      /\ \A h \in DOMAIN hooks : hooks[h] \in HookNames
  BY LenProperties, ElementOfSeq DEF TypeOK, HookStates
<1>2. /\ at = "hook" /\ UNCHANGED <<hooks, ran>> /\ result = "none"
      /\ hook.stage \in 1 .. 4 /\ hook.pos \in 1 .. Len(hooks) + 1
  BY DEF runCDIHooks, HookInv, LoopInv, PassedRan
<1>3. CASE hook.stage > 3
  <2>1. at' = "idle" /\ result' = "ok" /\ UNCHANGED hook
    BY <1>2, <1>3 DEF runCDIHooks
  <2>2. ASSUME NEW h \in DOMAIN hooks, hooks[h] # "startContainer"
        PROVE  Passed(h, hook.stage, hook.pos)
    <3>1. PICK s \in Stages : hooks[h] = cdiHookStages[s]
      BY <1>1, <2>2
    <3>2. s < hook.stage
      BY <1>2, <1>3, <3>1 DEF Stages
    <3>3. QED
      BY <3>1, <3>2 DEF Passed
  <2>3. PassedRan'
    BY <1>2, <2>1, <2>2 DEF HookInv, PassedRan, HasRun
  <2>4. LoopInv' /\ RanPassed'
    BY <1>2, <2>1 DEF HookInv, LoopInv, RanPassed, Passed
  <2>5. QED
    BY <2>3, <2>4 DEF HookInv
<1>4. CASE hook.stage <= 3 /\ hook.pos > Len(hooks)
  <2>1. /\ at' = "hook" /\ result' = "none"
        /\ hook'.stage = hook.stage + 1 /\ hook'.pos = 1
    <3>1. /\ at' = "hook" /\ UNCHANGED result
          /\ hook' = [hook EXCEPT !.stage = hook.stage + 1, !.pos = 1]
      BY <1>1, <1>2, <1>4 DEF runCDIHooks
    <3>2. QED
      BY <1>1, <1>2, <3>1 DEF HookStates
  <2>2. \A h \in DOMAIN hooks : Passed(h, hook.stage, hook.pos) <=> Passed(h, hook.stage + 1, 1)
    BY <1>1, <1>2, <1>4 DEF Passed, Stages
  <2>3. LoopInv'
    BY <1>1, <1>2, <1>4, <2>1 DEF LoopInv
  <2>4. RanPassed' /\ PassedRan'
    BY <1>2, <2>1, <2>2 DEF HookInv, RanPassed, PassedRan, Passed, HasRun
  <2>5. QED
    BY <2>3, <2>4 DEF HookInv
<1>5. CASE hook.stage <= 3 /\ hook.pos <= Len(hooks) /\ hooks[hook.pos] # cdiHookStages[hook.stage]
  <2>1. /\ at' = "hook" /\ result' = "none"
        /\ hook'.stage = hook.stage /\ hook'.pos = hook.pos + 1
    BY <1>1, <1>2, <1>5 DEF runCDIHooks, HookStates
  <2>2. \A h \in DOMAIN hooks :
          Passed(h, hook.stage, hook.pos) <=> Passed(h, hook.stage, hook.pos + 1)
    BY <1>1, <1>2, <1>5 DEF Passed, Stages
  <2>3. LoopInv'
    BY <1>1, <1>2, <1>5, <2>1 DEF LoopInv
  <2>4. RanPassed' /\ PassedRan'
    BY <1>2, <2>1, <2>2 DEF HookInv, RanPassed, PassedRan, Passed, HasRun
  <2>5. QED
    BY <2>3, <2>4 DEF HookInv
<1>6. CASE hook.stage <= 3 /\ hook.pos <= Len(hooks) /\ hooks[hook.pos] = cdiHookStages[hook.stage]
  <2>1. /\ at' \in {"wait", "destroy"} /\ result' = "none"
        /\ hook'.stage = hook.stage /\ hook'.pos = hook.pos
    BY <1>1, <1>2, <1>6 DEF runCDIHooks, HookStates
  <2>2. LoopInv'
    BY <1>1, <1>2, <1>6, <2>1 DEF LoopInv, Stages
  <2>3. RanPassed' /\ PassedRan'
    BY <1>2, <2>1 DEF HookInv, RanPassed, PassedRan, Passed, HasRun
  <2>4. QED
    BY <2>2, <2>3 DEF HookInv
<1>7. QED
  BY <1>1, <1>2, <1>3, <1>4, <1>5, <1>6

\* A hook that succeeded is the next one in the order, and is passed.
LEMMA HookDone == TypeOK /\ HookInv /\ runCDIHook => HookInv'
<1> SUFFICES ASSUME TypeOK, HookInv, runCDIHook PROVE HookInv'
  OBVIOUS
<1> USE StageNames DEF Goto
<1>1. /\ hook \in HookStates /\ Len(hooks) \in Nat /\ DOMAIN hooks = 1 .. Len(hooks)
      /\ Len(ran) \in Nat /\ DOMAIN ran = 1 .. Len(ran) /\ ran \in Seq(Nat)
  BY LenProperties DEF TypeOK, HookStates
<1>2. /\ at = "wait" /\ UNCHANGED hooks /\ result = "none" /\ result' = "none"
      /\ hook.stage \in Stages /\ hook.pos \in DOMAIN hooks
      /\ hooks[hook.pos] = cdiHookStages[hook.stage]
  BY DEF runCDIHook, HookInv, LoopInv, PassedRan
<1>3. CASE hook.proc = "failed"
  <2>1. at' = "destroy" /\ UNCHANGED ran /\ hook'.stage = hook.stage /\ hook'.pos = hook.pos
    BY <1>1, <1>3 DEF runCDIHook, HookStates
  <2>2. QED
    BY <1>2, <2>1, OutsideLoops
<1>4. CASE hook.proc = "exited"
  <2>1. /\ at' = "hook" /\ ran' = Append(ran, hook.pos)
        /\ hook'.stage = hook.stage /\ hook'.pos = hook.pos + 1
    <3>1. /\ at' = "hook" /\ ran' = Append(ran, hook.pos)
          /\ hook' = [hook EXCEPT !.proc = "none", !.pos = hook.pos + 1]
      BY <1>4 DEF runCDIHook
    <3>2. QED
      BY <1>1, <3>1 DEF HookStates
  <2>2. /\ DOMAIN ran' = 1 .. Len(ran) + 1
        /\ ran'[Len(ran) + 1] = hook.pos
        /\ \A x \in DOMAIN ran : ran'[x] = ran[x]
    BY <1>1, <1>2, <2>1, AppendProperties
  <2>3. LoopInv'
    BY <1>1, <1>2, <2>1 DEF LoopInv, Stages
  <2>4. \A h \in DOMAIN hooks :
          Passed(h, hook.stage, hook.pos + 1) <=> Passed(h, hook.stage, hook.pos) \/ h = hook.pos
    BY <1>1, <1>2 DEF Passed, Stages
  <2>5. RanPassed'
    <3>1. \A x \in DOMAIN ran' :
            ran'[x] \in DOMAIN hooks /\ Passed(ran'[x], hook.stage, hook.pos + 1)
      <4>1. \A x \in DOMAIN ran' : x \in DOMAIN ran \/ x = Len(ran) + 1
        BY <1>1, <2>2
      <4>2. \A x \in DOMAIN ran : ran[x] \in DOMAIN hooks /\ Passed(ran[x], hook.stage, hook.pos)
        BY DEF HookInv, RanPassed
      <4>3. QED
        BY <1>2, <2>2, <2>4, <4>1, <4>2
    <3>2. ASSUME NEW x \in DOMAIN ran', NEW y \in DOMAIN ran', x < y
          PROVE  \E s, t \in Stages :
                   /\ hooks[ran'[x]] = cdiHookStages[s] /\ hooks[ran'[y]] = cdiHookStages[t]
                   /\ s < t \/ (s = t /\ ran'[x] < ran'[y])
      <4>1. x \in DOMAIN ran /\ ran'[x] = ran[x]
        BY <1>1, <2>2, <3>2
      <4>2. CASE y \in DOMAIN ran
        BY <2>2, <3>2, <4>1, <4>2 DEF HookInv, RanPassed
      <4>3. CASE y = Len(ran) + 1
        <5>1. PICK s \in Stages :
                /\ hooks[ran[x]] = cdiHookStages[s]
                /\ s < hook.stage \/ (s = hook.stage /\ ran[x] < hook.pos)
          BY <4>1 DEF HookInv, RanPassed, Passed
        <5>2. ran'[y] = hook.pos
          BY <2>2, <4>3
        <5>3. QED
          BY <1>2, <4>1, <5>1, <5>2
      <4>4. QED
        BY <1>1, <2>2, <4>2, <4>3
    <3>3. QED
      BY <1>2, <2>1, <3>1, <3>2 DEF RanPassed, Passed
  <2>6. PassedRan'
    <3>1. \A h \in DOMAIN hooks : Passed(h, hook.stage, hook.pos) => HasRun(h)'
      BY <1>1, <1>2, <2>2 DEF HookInv, PassedRan, HasRun
    <3>2. \E x \in DOMAIN ran' : ran'[x] = hook.pos
      BY <1>1, <2>2
    <3>3. \A h \in DOMAIN hooks : Passed(h, hook.stage, hook.pos + 1) => HasRun(h)'
      BY <2>4, <3>1, <3>2 DEF HasRun
    <3>4. QED
      BY <1>2, <2>1, <3>3 DEF PassedRan, Passed, HasRun
  <2>7. QED
    BY <2>3, <2>5, <2>6 DEF HookInv
<1>5. QED
  BY <1>3, <1>4 DEF runCDIHook

\* HookInv holds in every reachable state.
THEOREM HookInvHolds == Spec => []HookInv
<1>1. Init => HookInv
  <2> SUFFICES ASSUME Init PROVE HookInv
    OBVIOUS
  <2>1. /\ at = "load" /\ result = "none" /\ ran = <<>> /\ hook.stage = 1 /\ hook.pos = 1
    BY DEF Init
  <2>2. DOMAIN ran = {}
    BY <2>1
  <2>3. QED
    BY <2>1, <2>2 DEF HookInv, LoopInv, RanPassed, PassedRan
<1>2. TypeOK /\ TypeOK' /\ HookInv /\ [Next]_vars => HookInv'
  <2> SUFFICES ASSUME TypeOK, TypeOK', HookInv, [Next]_vars PROVE HookInv'
    OBVIOUS
  <2> USE DEF Goto, Return, hookVars
  <2>0. hook \in HookStates /\ (result # "none" => at = "idle")
    BY DEF TypeOK, HookStates, HookInv, PassedRan
  <2>1. CASE loadCDISpecs \/ DevicesResolved
    BY <2>0, <2>1, OutsideLoops DEF loadCDISpecs, DevicesResolved
  <2>2. CASE resolveCDIDevices
    <3>1. at = "device" /\ UNCHANGED <<ran, hook>> /\ at' \in {"device", "idle"}
      BY <2>2 DEF resolveCDIDevices
    <3>2. CASE at' = "idle"
      BY <2>0, <2>2, <3>1, <3>2, OutsideLoops DEF resolveCDIDevices
    <3>3. CASE at' = "device"
      <4>1. UNCHANGED result
        BY <2>2, <3>3 DEF resolveCDIDevices
      <4>2. hooks' \in Seq(HookNames)
        BY DEF TypeOK
      <4>3. QED
        BY <3>1, <3>3, <4>1, <4>2, LenProperties, BeforeLoops
    <3>4. QED
      BY <3>1, <3>2, <3>3
  <2>3. CASE CreateFromSpec
    BY <2>0, <2>3, OutsideLoops DEF CreateFromSpec
  <2>4. CASE GetRootPath \/ Destroy
    BY <2>0, <2>4, OutsideLoops DEF GetRootPath, Destroy
  <2>5. CASE NextMount \/ Clean
    BY <2>0, <2>5, OutsideLoops DEF NextMount, Clean
  <2>6. CASE resolveInRoot \/ cdiMountTarget
    BY <2>0, <2>6, OutsideLoops DEF resolveInRoot, cdiMountTarget
  <2>7. CASE CreateVolume \/ LinkVolumeTarget \/ UnlinkVolume
    BY <2>0, <2>7, OutsideLoops DEF CreateVolume, LinkVolumeTarget, UnlinkVolume
  <2>8. CASE PrepareBundle
    <3>1. /\ at = "bundle" /\ at' \in {"hook", "destroy"} /\ UNCHANGED <<hooks, ran, hook, result>>
      BY <2>8 DEF PrepareBundle
    <3>2. Len(hooks) \in Nat /\ DOMAIN hooks = 1 .. Len(hooks)
      BY LenProperties DEF TypeOK
    <3>3. QED
      BY <2>0, <3>1, <3>2, OutsideLoops, BeforeLoops
  <2>9. CASE runCDIHooks
    BY <2>9, LoopRound
  <2>10. CASE runCDIHook
    BY <2>10, HookDone
  <2>11. CASE HookTimeout \/ HookForks \/ HookChildEnds \/ HookExits
    BY <2>0, <2>11, OutsideLoops DEF HookTimeout, HookForks, HookChildEnds, HookExits, HookStates
  <2>12. CASE Removed
    BY <2>0, <2>12, OutsideLoops DEF Removed
  <2>13. CASE Crash
    BY <2>0, <2>13, OutsideLoops DEF Crash, HookStates
  <2>14. CASE UNCHANGED vars
    BY <2>0, <2>14, OutsideLoops DEF vars
  <2>15. QED
    BY <2>1, <2>2, <2>3, <2>4, <2>5, <2>6, <2>7, <2>8, <2>9, <2>10, <2>11, <2>12, <2>13, <2>14
       DEF Next, HandlerStep
<1>3. QED
  BY <1>1, <1>2, TypeCorrect, PTL DEF Spec

\* The hooks run in the order of their stages and of the edits, each once, and with
\* success all of them, for every list of hooks.
THEOREM HooksOrdered == Spec => []HooksInOrder
<1>1. HookInv => HooksInOrder
  BY StageNames DEF HookInv, RanPassed, PassedRan, HasRun, HooksInOrder
<1>2. QED
  BY <1>1, HookInvHolds, PTL

-----------------------------------------------------------------------------
(* The edits *)

Members(s) == {s[n] : n \in DOMAIN s}

\* The last of the files for a kind, as EditsAsRequested has it.
LastFile(kind) == CHOOSE i \in DOMAIN job.files :
                    /\ job.files[i].kind = kind
                    /\ ~\E k \in i + 1 .. Len(job.files) : job.files[k].kind = kind

\* What a set of devices brings along.
EditsOf(devices) == {<<LastFile(d.kind), NoDevice>> : d \in devices}
                       \cup {<<LastFile(d.kind), d.name>> : d \in devices}

\* Each edit is there once, and that of a spec before those of its devices.
SpecEditsFirst(edits) ==
  \A m, n \in DOMAIN edits :
    /\ edits[m] = edits[n] => m = n
    /\ edits[m][1] = edits[n][1] /\ edits[m][2] = NoDevice => m <= n

\* resolveCDIDevices has the edits of the devices it has seen, and knows the rest.
DevInv ==
  /\ Members(job.requested) = dev.seen \cup Members(dev.todo)
  /\ dev.appliedSpecs = {d.kind : d \in dev.seen}
  /\ \A d \in dev.seen :
       /\ LastFile(d.kind) \in DOMAIN job.files
       /\ job.files[LastFile(d.kind)].kind = d.kind
       /\ d.name \in DOMAIN job.files[LastFile(d.kind)].devices
  /\ Members(dev.edits) = EditsOf(dev.seen)
  /\ SpecEditsFirst(dev.edits)

\* An element more at the end of a sequence.
LEMMA MembersOfAppend ==
  ASSUME NEW S, NEW s \in Seq(S), NEW e \in S
  PROVE  Members(Append(s, e)) = Members(s) \cup {e}
<1>1. /\ Len(s) \in Nat /\ DOMAIN s = 1 .. Len(s)
      /\ DOMAIN Append(s, e) = 1 .. Len(s) + 1
      /\ \A n \in 1 .. Len(s) : Append(s, e)[n] = s[n]
      /\ Append(s, e)[Len(s) + 1] = e
  BY LenProperties, AppendProperties
<1>2. 1 .. Len(s) + 1 = 1 .. Len(s) \cup {Len(s) + 1}
  BY <1>1
<1>3. QED
  BY <1>1, <1>2 DEF Members

\* An element less at its head.
LEMMA MembersOfTail ==
  ASSUME NEW S, NEW s \in Seq(S), s # <<>>
  PROVE  Members(s) = {Head(s)} \cup Members(Tail(s))
<1>1. /\ Len(s) \in Nat \ {0} /\ DOMAIN s = 1 .. Len(s)
      /\ Head(s) = s[1]
      /\ DOMAIN Tail(s) = 1 .. Len(s) - 1
      /\ \A n \in 1 .. Len(s) - 1 : Tail(s)[n] = s[n + 1]
  BY LenProperties, HeadTailProperties, EmptySeq
<1> DEFINE rest == Tail(s)
           len == Len(s)
<1> HIDE DEF rest, len
<1>2. /\ len \in Nat \ {0} /\ DOMAIN s = 1 .. len /\ Head(s) = s[1]
      /\ DOMAIN rest = 1 .. len - 1 /\ \A n \in 1 .. len - 1 : rest[n] = s[n + 1]
  BY <1>1 DEF rest, len
<1>3. ASSUME NEW e \in Members(s) PROVE e \in {Head(s)} \cup Members(rest)
  <2>1. PICK n \in DOMAIN s : e = s[n]
    BY DEF Members
  <2>2. CASE n = 1
    BY <1>2, <2>1, <2>2
  <2>3. CASE n # 1
    <3>1. n - 1 \in DOMAIN rest /\ rest[n - 1] = e
      BY <1>2, <2>1, <2>3
    <3>2. QED
      BY <3>1 DEF Members
  <2>4. QED
    BY <2>2, <2>3
<1>4. ASSUME NEW e \in {Head(s)} \cup Members(rest) PROVE e \in Members(s)
  <2>1. CASE e = Head(s)
    BY <1>2, <2>1 DEF Members
  <2>2. CASE e \in Members(rest)
    <3>1. PICK n \in DOMAIN rest : e = rest[n]
      BY <2>2 DEF Members
    <3>2. n + 1 \in DOMAIN s /\ s[n + 1] = e
      BY <1>2, <3>1
    <3>3. QED
      BY <3>2 DEF Members
  <2>3. QED
    BY <2>1, <2>2
<1>5. QED
  BY <1>3, <1>4 DEF rest

\* An edit that is not there yet goes to the end; that of a spec comes before any edit
\* from its file.
LEMMA AddEdit ==
  ASSUME NEW S, NEW edits \in Seq(S), NEW e \in S,
         SpecEditsFirst(edits), e \notin Members(edits),
         e[2] = NoDevice => \A n \in DOMAIN edits : edits[n][1] # e[1]
  PROVE  SpecEditsFirst(Append(edits, e))
<1> DEFINE more == Append(edits, e)
<1>1. /\ Len(edits) \in Nat /\ DOMAIN edits = 1 .. Len(edits)
      /\ DOMAIN more = 1 .. Len(edits) + 1
      /\ \A n \in 1 .. Len(edits) : more[n] = edits[n]
      /\ more[Len(edits) + 1] = e
  BY LenProperties, AppendProperties
<1>2. \A n \in DOMAIN edits : edits[n] # e
  BY DEF Members
<1> HIDE DEF more
<1>3. ASSUME NEW m \in DOMAIN more, NEW n \in DOMAIN more
      PROVE  /\ more[m] = more[n] => m = n
             /\ more[m][1] = more[n][1] /\ more[m][2] = NoDevice => m <= n
  <2>1. CASE m \in DOMAIN edits /\ n \in DOMAIN edits
    BY <1>1, <2>1 DEF SpecEditsFirst
  <2>2. CASE m \in DOMAIN edits /\ n = Len(edits) + 1
    BY <1>1, <1>2, <2>2
  <2>3. CASE m = Len(edits) + 1 /\ n \in DOMAIN edits
    BY <1>1, <1>2, <2>3
  <2>4. CASE m = Len(edits) + 1 /\ n = Len(edits) + 1
    BY <1>1, <2>4
  <2>5. QED
    BY <1>1, <1>3, <2>1, <2>2, <2>3, <2>4
<1>4. QED
  BY <1>3 DEF SpecEditsFirst, more

\* Two elements at the end are one and one.
LEMMA ConcatTwo ==
  ASSUME NEW S, NEW s \in Seq(S), NEW e \in S, NEW f \in S
  PROVE  s \o <<e, f>> = Append(Append(s, e), f)
<1>1. /\ Len(s) \in Nat
      /\ Append(s, e) \in Seq(S) /\ Len(Append(s, e)) = Len(s) + 1
      /\ \A n \in 1 .. Len(s) : Append(s, e)[n] = s[n]
      /\ Append(s, e)[Len(s) + 1] = e
  BY LenProperties, AppendProperties
<1>2. /\ Append(Append(s, e), f) \in Seq(S)
      /\ Len(Append(Append(s, e), f)) = Len(s) + 2
      /\ \A n \in 1 .. Len(s) + 1 : Append(Append(s, e), f)[n] = Append(s, e)[n]
      /\ Append(Append(s, e), f)[Len(s) + 2] = f
  BY <1>1, AppendProperties
<1>3. <<e, f>> \in Seq(S) /\ Len(<<e, f>>) = 2 /\ <<e, f>>[1] = e /\ <<e, f>>[2] = f
  OBVIOUS
<1>4. /\ s \o <<e, f>> \in Seq(S)
      /\ Len(s \o <<e, f>>) = Len(s) + 2
      /\ \A n \in 1 .. Len(s) + 2 :
           (s \o <<e, f>>)[n] = IF n <= Len(s) THEN s[n] ELSE <<e, f>>[n - Len(s)]
  BY <1>1, <1>3, ConcatProperties
<1>5. \A n \in 1 .. Len(s) + 2 : n \in 1 .. Len(s) \/ n = Len(s) + 1 \/ n = Len(s) + 2
  BY <1>1
<1>6. \A n \in 1 .. Len(s) + 2 : (s \o <<e, f>>)[n] = Append(Append(s, e), f)[n]
  BY <1>1, <1>2, <1>3, <1>4, <1>5
<1>7. QED
  BY <1>2, <1>4, <1>6, SeqEqual

\* The file that counts for a kind is the last one.
LEMMA SpecsIsLast ==
  ASSUME job \in Jobs, NEW kind, NEW i \in specs(kind)
  PROVE  i = LastFile(kind) /\ i \in DOMAIN job.files /\ job.files[i].kind = kind
<1>1. Len(job.files) \in Nat /\ DOMAIN job.files = 1 .. Len(job.files)
  BY JobAssumption DEF JobOK
<1>2. /\ i \in DOMAIN job.files /\ job.files[i].kind = kind
      /\ \A k \in DOMAIN job.files : job.files[k].kind = kind => k <= i
  BY DEF specs
<1> DEFINE IsLast(l) == /\ job.files[l].kind = kind
                        /\ ~\E k \in l + 1 .. Len(job.files) : job.files[k].kind = kind
<1>3. IsLast(i)
  BY <1>1, <1>2
<1>4. \A l \in DOMAIN job.files : IsLast(l) => l = i
  BY <1>1, <1>2
<1>5. QED
  BY <1>2, <1>3, <1>4 DEF LastFile

\* The edits of a device not seen before are new.
LEMMA EditsAreNew ==
  ASSUME DevInv, dev.seen \subseteq Requests, NEW d \in Requests, d \notin dev.seen,
         LastFile(d.kind) \in DOMAIN job.files,
         job.files[LastFile(d.kind)].kind = d.kind
  PROVE  /\ <<LastFile(d.kind), d.name>> \notin Members(dev.edits)
         /\ d.kind \notin dev.appliedSpecs =>
              /\ <<LastFile(d.kind), NoDevice>> \notin Members(dev.edits)
              /\ \A n \in DOMAIN dev.edits : dev.edits[n][1] # LastFile(d.kind)
<1>1. \A e \in dev.seen : LastFile(e.kind) = LastFile(d.kind) => e.kind = d.kind
  BY DEF DevInv
<1>2. \A e \in dev.seen : ~(e.kind = d.kind /\ e.name = d.name)
  BY DEF Requests
<1>3. d.name # NoDevice
  BY NameAssumption DEF Requests
<1>4. \A m \in Members(dev.edits) : \E e \in dev.seen :
        m[1] = LastFile(e.kind) /\ (m[2] = NoDevice \/ m[2] = e.name)
  BY DEF DevInv, EditsOf
<1>5. d.kind \notin dev.appliedSpecs => \A m \in Members(dev.edits) : m[1] # LastFile(d.kind)
  BY <1>1, <1>4 DEF DevInv
<1>6. <<LastFile(d.kind), d.name>> \notin Members(dev.edits)
  BY <1>1, <1>2, <1>3, <1>4
<1>7. QED
  BY <1>5, <1>6 DEF Members

\* What a round of resolveCDIDevices adds for a device it has not seen.
LEMMA DeviceAdded ==
  ASSUME DevInv, job \in Jobs, DevOK, NEW d \in Requests, d \notin dev.seen,
         NEW i \in specs(d.kind), d.name \in DOMAIN job.files[i].devices
  PROVE  /\ SpecEditsFirst(dev.edits \o DeviceEdits(i, d))
         /\ Members(dev.edits \o DeviceEdits(i, d)) = EditsOf(dev.seen \cup {d})
<1> DEFINE S == Nat \X (Devices \cup {NoDevice})
           spec == <<i, NoDevice>>
           own == <<i, d.name>>
<1>1. i = LastFile(d.kind) /\ i \in DOMAIN job.files /\ job.files[i].kind = d.kind
  BY SpecsIsLast
<1>2. dev.edits \in Seq(S) /\ dev.seen \subseteq Requests
  BY DEF DevOK
<1>3. spec \in S /\ own \in S
  <2>1. i \in Nat
    BY EditTypes
  <2>2. QED
    BY <2>1 DEF Requests
<1>4. /\ own \notin Members(dev.edits)
      /\ d.kind \notin dev.appliedSpecs =>
           spec \notin Members(dev.edits) /\ \A n \in DOMAIN dev.edits : dev.edits[n][1] # i
  BY <1>1, <1>2, EditsAreNew
<1>5. own # spec /\ own[2] # NoDevice /\ spec[1] = i
  BY NameAssumption DEF Requests
<1>6. EditsOf(dev.seen \cup {d}) = Members(dev.edits) \cup {spec, own}
  BY <1>1 DEF DevInv, EditsOf
<1>7. SpecEditsFirst(dev.edits)
  BY DEF DevInv
<1> HIDE DEF S, spec, own
<1>8. CASE d.kind \in dev.appliedSpecs
  <2>1. dev.edits \o DeviceEdits(i, d) = Append(dev.edits, own)
    <3>1. DeviceEdits(i, d) = <<own>>
      BY <1>8 DEF DeviceEdits, own
    <3>2. QED
      BY <1>2, <1>3, <3>1, AppendIsConcat
  <2>2. spec \in Members(dev.edits)
    BY <1>1, <1>8 DEF DevInv, EditsOf, spec
  <2>3. Members(Append(dev.edits, own)) = EditsOf(dev.seen \cup {d})
    <3>1. Members(Append(dev.edits, own)) = Members(dev.edits) \cup {own}
      BY <1>2, <1>3, MembersOfAppend
    <3>2. QED
      BY <1>6, <2>2, <3>1
  <2>4. SpecEditsFirst(Append(dev.edits, own))
    BY <1>2, <1>3, <1>4, <1>5, <1>7, AddEdit
  <2>5. QED
    BY <2>1, <2>3, <2>4
<1>9. CASE d.kind \notin dev.appliedSpecs
  <2>1. dev.edits \o DeviceEdits(i, d) = Append(Append(dev.edits, spec), own)
    <3>1. DeviceEdits(i, d) = <<spec, own>>
      BY <1>9 DEF DeviceEdits, spec, own
    <3>2. QED
      BY <1>2, <1>3, <3>1, ConcatTwo
  <2>2. Append(dev.edits, spec) \in Seq(S)
    BY <1>2, <1>3, AppendProperties
  <2>3. Members(Append(dev.edits, spec)) = Members(dev.edits) \cup {spec}
    BY <1>2, <1>3, MembersOfAppend
  <2>4. SpecEditsFirst(Append(dev.edits, spec))
    BY <1>2, <1>3, <1>4, <1>5, <1>7, <1>9, AddEdit
  <2>5. own \notin Members(Append(dev.edits, spec))
    BY <1>4, <1>5, <2>3
  <2>6. SpecEditsFirst(Append(Append(dev.edits, spec), own))
    BY <1>3, <1>5, <2>2, <2>4, <2>5, AddEdit
  <2>7. Members(Append(Append(dev.edits, spec), own)) = Members(dev.edits) \cup {spec, own}
    <3>1. Members(Append(Append(dev.edits, spec), own))
            = Members(Append(dev.edits, spec)) \cup {own}
      BY <1>3, <2>2, MembersOfAppend
    <3>2. QED
      BY <2>3, <3>1
  <2>8. QED
    BY <1>6, <2>1, <2>6, <2>7
<1>10. QED
  BY <1>8, <1>9

\* Steps that leave the job and the devices alone.
LEMMA DevKept == ASSUME DevInv, UNCHANGED <<job, dev>> PROVE DevInv'
<1>1. dev' = dev /\ job' = job
  OBVIOUS
<1>2. \A kind : LastFile(kind)' = LastFile(kind)
  BY <1>1 DEF LastFile
<1>3. EditsOf(dev.seen)' = EditsOf(dev.seen)
  BY <1>1, <1>2 DEF EditsOf
<1>4. SpecEditsFirst(dev.edits)'
  BY <1>1 DEF DevInv, SpecEditsFirst
<1>5. \A d \in dev'.seen :
        /\ LastFile(d.kind)' \in DOMAIN job'.files
        /\ job'.files[LastFile(d.kind)'].kind = d.kind
        /\ d.name \in DOMAIN job'.files[LastFile(d.kind)'].devices
  BY <1>1, <1>2 DEF DevInv
<1>6. QED
  BY <1>1, <1>3, <1>4, <1>5 DEF DevInv

\* A round of resolveCDIDevices.
LEMMA DeviceRound == TypeOK /\ DevInv /\ resolveCDIDevices => DevInv'
<1> SUFFICES ASSUME TypeOK, DevInv, resolveCDIDevices PROVE DevInv'
  OBVIOUS
<1> DEFINE d == Head(dev.todo)
<1>1. job \in Jobs /\ DevOK /\ UNCHANGED job
  BY DEF TypeOK, DevOK, resolveCDIDevices
<1>2. dev.todo \in Seq(Requests) /\ dev.todo # <<>> /\ d \in Requests
  BY <1>1, HeadTailProperties DEF resolveCDIDevices, DevOK
<1>3. Members(dev.todo) = {d} \cup Members(Tail(dev.todo))
  BY <1>2, MembersOfTail
<1>4. \A kind : LastFile(kind)' = LastFile(kind)
  BY <1>1 DEF LastFile
<1> HIDE DEF d
<1>5. CASE UNCHANGED dev
  BY <1>1, <1>5, DevKept
<1>6. CASE d \in dev.seen /\ dev' = [dev EXCEPT !.todo = Tail(dev.todo)]
  <2>1. /\ dev'.todo = Tail(dev.todo)
        /\ dev'.seen = dev.seen /\ dev'.appliedSpecs = dev.appliedSpecs /\ dev'.edits = dev.edits
    BY <1>1, <1>6 DEF DevOK
  <2>2. QED
    BY <1>1, <1>3, <1>4, <1>6, <2>1 DEF DevInv, EditsOf
<1>7. ASSUME d \notin dev.seen,
             NEW i \in specs(d.kind), d.name \in DOMAIN job.files[i].devices,
             dev' = [todo |-> Tail(dev.todo), seen |-> dev.seen \cup {d},
                     appliedSpecs |-> dev.appliedSpecs \cup {d.kind},
                     edits |-> dev.edits \o DeviceEdits(i, d)]
      PROVE  DevInv'
  <2>1. /\ dev'.todo = Tail(dev.todo) /\ dev'.seen = dev.seen \cup {d}
        /\ dev'.appliedSpecs = dev.appliedSpecs \cup {d.kind}
        /\ dev'.edits = dev.edits \o DeviceEdits(i, d)
    BY <1>7
  <2>2. /\ SpecEditsFirst(dev'.edits)
        /\ Members(dev'.edits) = EditsOf(dev'.seen)
    BY <1>1, <1>2, <1>7, <2>1, DeviceAdded
  <2>3. i = LastFile(d.kind) /\ i \in DOMAIN job.files /\ job.files[i].kind = d.kind
    BY <1>1, SpecsIsLast
  <2>4. Members(job.requested) = dev'.seen \cup Members(dev'.todo)
    BY <1>3, <2>1 DEF DevInv
  <2>5. dev'.appliedSpecs = {e.kind : e \in dev'.seen}
    BY <2>1 DEF DevInv
  <2>6. \A e \in dev'.seen :
          /\ LastFile(e.kind) \in DOMAIN job.files
          /\ job.files[LastFile(e.kind)].kind = e.kind
          /\ e.name \in DOMAIN job.files[LastFile(e.kind)].devices
    BY <1>7, <2>1, <2>3 DEF DevInv
  <2>7. EditsOf(dev.seen)' = EditsOf(dev'.seen)
    BY <1>4 DEF EditsOf
  <2>8. QED
    BY <1>1, <1>4, <2>2, <2>4, <2>5, <2>6, <2>7 DEF DevInv
<1>8. QED
  BY <1>5, <1>6, <1>7 DEF resolveCDIDevices, d

\* DevInv holds in every reachable state.
THEOREM DevInvHolds == Spec => []DevInv
<1>1. Init => DevInv
  <2> SUFFICES ASSUME Init PROVE DevInv
    OBVIOUS
  <2>1. /\ dev.todo = job.requested /\ dev.seen = {} /\ dev.appliedSpecs = {}
        /\ dev.edits = <<>>
    BY DEF Init
  <2>2. DOMAIN dev.edits = {}
    BY <2>1
  <2>3. QED
    BY <2>1, <2>2 DEF DevInv, Members, EditsOf, SpecEditsFirst
<1>2. TypeOK /\ DevInv /\ [Next]_vars => DevInv'
  <2> SUFFICES ASSUME TypeOK, DevInv, [Next]_vars, ~resolveCDIDevices PROVE UNCHANGED <<job, dev>>
    <3>1. DevInv /\ UNCHANGED <<job, dev>> => DevInv'
      BY DevKept
    <3>2. QED
      BY <3>1, DeviceRound
  <2>1. CASE loadCDISpecs \/ DevicesResolved \/ CreateFromSpec \/ GetRootPath \/ Destroy
    BY <2>1 DEF loadCDISpecs, DevicesResolved, CreateFromSpec, GetRootPath, Destroy
  <2>2. CASE NextMount \/ Clean \/ resolveInRoot \/ cdiMountTarget
    BY <2>2 DEF NextMount, Clean, resolveInRoot, cdiMountTarget
  <2>3. CASE CreateVolume \/ LinkVolumeTarget \/ UnlinkVolume
    BY <2>3 DEF CreateVolume, LinkVolumeTarget, UnlinkVolume
  <2>4. CASE PrepareBundle \/ runCDIHooks \/ HookTimeout \/ runCDIHook
    BY <2>4 DEF PrepareBundle, runCDIHooks, HookTimeout, runCDIHook
  <2>5. CASE HookForks \/ HookChildEnds \/ HookExits \/ Removed \/ Crash
    BY <2>5 DEF HookForks, HookChildEnds, HookExits, Removed, Crash
  <2>6. CASE UNCHANGED vars
    BY <2>6 DEF vars
  <2>7. QED
    BY <2>1, <2>2, <2>3, <2>4, <2>5, <2>6 DEF Next, HandlerStep
<1>3. QED
  BY <1>1, <1>2, TypeCorrect, PTL DEF Spec

\* A container has the edits of all its devices and their specs, each once and from the
\* file that counts, for every request and every list of spec files.
THEOREM EditsComplete == Spec => []EditsAsRequested
<1>1. DevInv => EditsAsRequested
  <2> SUFFICES ASSUME DevInv, dev.todo = <<>> PROVE EditsAsRequested
    BY DEF EditsAsRequested
  <2>1. Members(dev.todo) = {}
    BY DEF Members
  <2>2. Members(job.requested) = dev.seen
    BY <2>1 DEF DevInv
  <2>3. QED
    BY <2>2 DEF DevInv, EditsAsRequested, Members, EditsOf, LastFile, SpecEditsFirst
<1>2. QED
  BY <1>1, DevInvHolds, PTL

-----------------------------------------------------------------------------
(* The end of the call *)

\* Tuples of five in their order.
LEMMA LessBy ==
  ASSUME NEW x1, NEW x2, NEW x3, NEW x4, NEW x5,
         NEW y1, NEW y2, NEW y3, NEW y4, NEW y5,
         \/ x1 \in Nat /\ x1 < y1
         \/ x1 = y1 /\ x2 \in Nat /\ x2 < y2
         \/ x1 = y1 /\ x2 = y2 /\ x3 \in Nat /\ x3 < y3
         \/ x1 = y1 /\ x2 = y2 /\ x3 = y3 /\ x4 \in Nat /\ x4 < y4
         \/ x1 = y1 /\ x2 = y2 /\ x3 = y3 /\ x4 = y4 /\ x5 \in Nat /\ x5 < y5
  PROVE  Less(<<x1, x2, x3, x4, x5>>, <<y1, y2, y3, y4, y5>>)
<1> DEFINE x == <<x1, x2, x3, x4, x5>>
           y == <<y1, y2, y3, y4, y5>>
<1>1. /\ x[1] = x1 /\ x[2] = x2 /\ x[3] = x3 /\ x[4] = x4 /\ x[5] = x5
      /\ y[1] = y1 /\ y[2] = y2 /\ y[3] = y3 /\ y[4] = y4 /\ y[5] = y5
  OBVIOUS
<1> HIDE DEF x, y
<1>2. /\ 1 .. 0 = {} /\ \A m \in 1 .. 1 : m = 1
      /\ \A m \in 1 .. 2 : m = 1 \/ m = 2
      /\ \A m \in 1 .. 3 : m = 1 \/ m = 2 \/ m = 3
      /\ \A m \in 1 .. 4 : m = 1 \/ m = 2 \/ m = 3 \/ m = 4
  OBVIOUS
<1>3. SUFFICES Less(x, y)
  BY DEF x, y
<1>4. CASE x1 \in Nat /\ x1 < y1
  <2>1. 1 \in 1 .. 5 /\ 1 - 1 = 0
    OBVIOUS
  <2>2. QED
    BY <1>1, <1>2, <1>4, <2>1 DEF Less
<1>5. CASE x1 = y1 /\ x2 \in Nat /\ x2 < y2
  <2>1. 2 \in 1 .. 5 /\ 2 - 1 = 1
    OBVIOUS
  <2>2. QED
    BY <1>1, <1>2, <1>5, <2>1 DEF Less
<1>6. CASE x1 = y1 /\ x2 = y2 /\ x3 \in Nat /\ x3 < y3
  <2>1. 3 \in 1 .. 5 /\ 3 - 1 = 2
    OBVIOUS
  <2>2. QED
    BY <1>1, <1>2, <1>6, <2>1 DEF Less
<1>7. CASE x1 = y1 /\ x2 = y2 /\ x3 = y3 /\ x4 \in Nat /\ x4 < y4
  <2>1. 4 \in 1 .. 5 /\ 4 - 1 = 3
    OBVIOUS
  <2>2. QED
    BY <1>1, <1>2, <1>7, <2>1 DEF Less
<1>8. CASE x1 = y1 /\ x2 = y2 /\ x3 = y3 /\ x4 = y4 /\ x5 \in Nat /\ x5 < y5
  <2>1. 5 \in 1 .. 5 /\ 5 - 1 = 4
    OBVIOUS
  <2>2. QED
    BY <1>1, <1>2, <1>8, <2>1 DEF Less
<1>9. QED
  BY <1>4, <1>5, <1>6, <1>7, <1>8

MountSteps == {"mount", "clean", "resolve", "volume", "link", "unlink", "unlinkErr"}

LEMMA MountingValues ==
  /\ DOMAIN Mounting = MountSteps
  /\ Mounting["mount"] = 5 /\ Mounting["clean"] = 4 /\ Mounting["resolve"] = 3
  /\ Mounting["volume"] = 2 /\ Mounting["link"] = 1
  /\ Mounting["unlink"] = 0 /\ Mounting["unlinkErr"] = 0
BY DEF Mounting, MountSteps

\* The phases, and what is ahead in each.
Phase(step) ==
  CASE step = "load" -> 8 [] step = "device" -> 7 [] step = "create" -> 6
    [] step = "root" -> 5 [] step \in MountSteps -> 4 [] step = "bundle" -> 3
    [] step \in {"hook", "wait"} -> 2 [] step = "destroy" -> 1 [] step = "idle" -> 0

Round ==
  CASE at = "device" -> Len(dev.todo)
    [] at \in MountSteps -> Len(mounts)
    [] at \in {"hook", "wait"} -> 4 - hook.stage
    [] OTHER -> 0
Step ==
  CASE at \in MountSteps -> Mounting[at]
    [] at \in {"hook", "wait"} -> Len(hooks) + 1 - hook.pos
    [] OTHER -> 0
Inner ==
  CASE at \in MountSteps -> MaxSymlinks - symlinks
    [] at = "hook" -> 1
    [] OTHER -> 0
Innermost ==
  CASE at \in MountSteps -> Len(parts)
    [] at \in {"hook", "wait"} /\ hook.proc = "runs" -> 1
    [] OTHER -> 0

LEMMA AheadParts ==
  ASSUME at \in Steps PROVE Ahead = <<Phase(at), Round, Step, Inner, Innermost>>
BY MountingValues DEF Ahead, Phase, Round, Step, Inner, Innermost, Steps, MountSteps

LEMMA AheadPartsPrimed ==
  ASSUME at' \in Steps
  PROVE  Ahead' = <<Phase(at'), Round', Step', Inner', Innermost'>>
BY MountingValues DEF Ahead, Phase, Round, Step, Inner, Innermost, Steps, MountSteps

\* A step that leads to a later phase, or in a loop further on.
LEMMA Nearer ==
  ASSUME at \in Steps, at' \in Steps,
         \/ Phase(at') < Phase(at)
         \/ /\ Phase(at') = Phase(at)
            /\ \/ Round' \in Nat /\ Round' < Round
               \/ Round' = Round /\ Step' \in Nat /\ Step' < Step
               \/ /\ Round' = Round /\ Step' = Step
                  /\ Inner' \in Nat /\ Inner' < Inner
               \/ /\ Round' = Round /\ Step' = Step /\ Inner' = Inner
                  /\ Innermost' \in Nat /\ Innermost' < Innermost
  PROVE  Less(Ahead', Ahead)
<1>1. Phase(at') \in Nat
  BY DEF Phase, Steps, MountSteps
<1>2. QED
  BY <1>1, AheadParts, AheadPartsPrimed, LessBy

\* What is left below a limit.
LEMMA Below ==
  ASSUME NEW n \in Nat, NEW a \in 0 .. n, NEW b \in 0 .. n
  PROVE  n - b \in Nat /\ (a < b => n - b < n - a)
OBVIOUS

\* The mounting goes on, with the numbers that count there.
LEMMA MountNearer ==
  ASSUME TypeOK, TypeOK', at \in MountSteps, at' \in MountSteps,
         \/ Len(mounts') < Len(mounts)
         \/ Len(mounts') = Len(mounts) /\ Mounting[at'] < Mounting[at]
         \/ /\ Len(mounts') = Len(mounts) /\ at' = at /\ symlinks < symlinks'
         \/ /\ Len(mounts') = Len(mounts) /\ at' = at /\ symlinks' = symlinks
            /\ Len(parts') < Len(parts)
  PROVE  Less(Ahead', Ahead)
<1>1. /\ Round = Len(mounts) /\ Round' = Len(mounts')
      /\ Step = Mounting[at] /\ Step' = Mounting[at']
      /\ Inner = MaxSymlinks - symlinks /\ Inner' = MaxSymlinks - symlinks'
      /\ Innermost = Len(parts) /\ Innermost' = Len(parts')
  BY DEF Round, Step, Inner, Innermost, MountSteps
<1>2. /\ Len(mounts') \in Nat /\ Len(parts') \in Nat /\ MaxSymlinks - symlinks' \in Nat
      /\ symlinks < symlinks' => MaxSymlinks - symlinks' < MaxSymlinks - symlinks
  <2>1. symlinks \in 0 .. MaxSymlinks /\ symlinks' \in 0 .. MaxSymlinks
    BY DEF TypeOK
  <2>2. mounts' \in Seq(Seq(Components)) /\ parts' \in Seq(Components)
    BY DEF TypeOK
  <2>3. Len(mounts') \in Nat /\ Len(parts') \in Nat
    BY <2>2, LenProperties
  <2>4. QED
    BY <2>1, <2>3, BoundAssumption, Below
<1>3. Mounting[at'] \in Nat
  BY MountingValues DEF MountSteps
<1>4. Phase(at') = Phase(at)
  BY DEF Phase, MountSteps
<1>5. at \in Steps /\ at' \in Steps
  BY DEF TypeOK
<1>6. QED
  BY <1>1, <1>2, <1>3, <1>4, <1>5, Nearer

\* The hooks go on.
LEMMA HookNearer ==
  ASSUME TypeOK, TypeOK', HookInv, HookInv', hooks' = hooks,
         at \in {"hook", "wait"}, at' \in {"hook", "wait"},
         \/ hook'.stage > hook.stage
         \/ hook'.stage = hook.stage /\ hook'.pos > hook.pos
         \/ hook'.stage = hook.stage /\ hook'.pos = hook.pos /\ at = "hook" /\ at' = "wait"
         \/ /\ hook'.stage = hook.stage /\ hook'.pos = hook.pos /\ at' = at
            /\ hook.proc = "runs" /\ hook'.proc # "runs"
  PROVE  Less(Ahead', Ahead)
<1>1. /\ Round = 4 - hook.stage /\ Round' = 4 - hook'.stage
      /\ Step = Len(hooks) + 1 - hook.pos /\ Step' = Len(hooks) + 1 - hook'.pos
      /\ Inner = (IF at = "hook" THEN 1 ELSE 0) /\ Inner' = (IF at' = "hook" THEN 1 ELSE 0)
      /\ Innermost = (IF hook.proc = "runs" THEN 1 ELSE 0)
      /\ Innermost' = (IF hook'.proc = "runs" THEN 1 ELSE 0)
  BY DEF Round, Step, Inner, Innermost, MountSteps
<1>2. /\ hook.stage \in 1 .. 4 /\ hook'.stage \in 1 .. 4
      /\ hook.pos \in 1 .. Len(hooks) + 1 /\ hook'.pos \in 1 .. Len(hooks) + 1
      /\ Len(hooks) \in Nat
  BY LenProperties DEF HookInv, LoopInv, TypeOK
<1>3. Phase(at') = Phase(at)
  BY DEF Phase, MountSteps
<1>4. at \in Steps /\ at' \in Steps
  BY DEF TypeOK
<1>5. Round' \in Nat /\ Step' \in Nat /\ Inner' \in Nat /\ Innermost' \in Nat
  <2>1. \A s \in 1 .. 4 : 4 - s \in Nat
    OBVIOUS
  <2>2. \A n \in Nat : \A k \in 1 .. n + 1 : n + 1 - k \in Nat
    OBVIOUS
  <2>3. Round' \in Nat
    BY <1>1, <1>2, <2>1
  <2>4. Step' \in Nat
    BY <1>1, <1>2, <2>2
  <2>5. Inner' \in Nat /\ Innermost' \in Nat
    BY <1>1
  <2>6. QED
    BY <2>3, <2>4, <2>5
<1>6. hook'.stage > hook.stage => Round' < Round
  <2>1. \A s, t \in 1 .. 4 : t > s => 4 - t < 4 - s
    OBVIOUS
  <2>2. QED
    BY <1>1, <1>2, <2>1
<1>7. hook'.stage = hook.stage => Round' = Round
  BY <1>1
<1>8. hook'.pos > hook.pos => Step' < Step
  BY <1>1, <1>2
<1>9. hook'.pos = hook.pos => Step' = Step
  BY <1>1
<1>10. at = "hook" /\ at' = "wait" => Inner' < Inner
  BY <1>1
<1>11. at' = at /\ hook.proc = "runs" /\ hook'.proc # "runs" =>
         Inner' = Inner /\ Innermost' < Innermost
  BY <1>1
<1>12. QED
  BY <1>3, <1>4, <1>5, <1>6, <1>7, <1>8, <1>9, <1>10, <1>11, Nearer

\* From one phase to a later one.
LEMMA PhaseNearer ==
  ASSUME TypeOK, TypeOK', Phase(at') < Phase(at) PROVE Less(Ahead', Ahead)
<1>1. at \in Steps /\ at' \in Steps
  BY DEF TypeOK
<1>2. QED
  BY <1>1, Nearer

\* A step of the call.
LEMMA HandlerNearer ==
  ASSUME TypeOK, TypeOK', MountUnderWay, HookInv, HookInv', HandlerStep
  PROVE  Less(Ahead', Ahead)
<1> USE DEF Goto, Return
<1>0. hook \in HookStates /\ \A s \in MountSteps : Phase(s) = 4
  BY DEF TypeOK, HookStates, Phase, MountSteps
<1>1. CASE loadCDISpecs
  BY <1>1, PhaseNearer DEF loadCDISpecs, Phase, MountSteps
<1>2. CASE resolveCDIDevices
  <2>1. at = "device" /\ at' \in {"device", "idle"}
    BY <1>2 DEF resolveCDIDevices
  <2>2. CASE at' = "idle"
    BY <2>1, <2>2, PhaseNearer DEF Phase, MountSteps
  <2>3. CASE at' = "device"
    <3>1. dev'.todo = Tail(dev.todo) /\ dev.todo # <<>> /\ dev.todo \in Seq(Requests)
      <4>1. /\ dev.todo # <<>>
            /\ \/ dev' = [dev EXCEPT !.todo = Tail(dev.todo)]
               \/ \E S, A, E : dev' = [todo |-> Tail(dev.todo), seen |-> S,
                                      appliedSpecs |-> A, edits |-> E]
        BY <1>2, <2>3 DEF resolveCDIDevices
      <4>2. dev \in [todo : Seq(Requests), seen : SUBSET Requests,
                    appliedSpecs : SUBSET Kinds,
                    edits : Seq(Nat \X (Devices \cup {NoDevice}))]
        BY DEF TypeOK
      <4>3. QED
        BY <4>1, <4>2
    <3>2. Len(dev'.todo) \in Nat /\ Len(dev'.todo) < Len(dev.todo)
      BY <3>1, EmptySeq, LenProperties, HeadTailProperties
    <3>3. Round = Len(dev.todo) /\ Round' = Len(dev'.todo)
      BY <2>1, <2>3 DEF Round, MountSteps
    <3>4. at \in Steps /\ at' \in Steps /\ Phase(at') = Phase(at)
      BY <2>1, <2>3 DEF TypeOK
    <3>5. QED
      BY <3>2, <3>3, <3>4, Nearer
  <2>4. QED
    BY <2>1, <2>2, <2>3
<1>3. CASE DevicesResolved \/ CreateFromSpec \/ GetRootPath
  BY <1>3, PhaseNearer DEF DevicesResolved, CreateFromSpec, GetRootPath, Phase, MountSteps
<1>4. CASE Destroy \/ PrepareBundle
  BY <1>4, PhaseNearer DEF Destroy, PrepareBundle, Phase, MountSteps
<1>5. CASE at \in MountSteps /\ at' \in {"idle", "destroy", "bundle"}
  BY <1>5, PhaseNearer DEF Phase, MountSteps
<1>6. /\ mounts \in Seq(Seq(Components)) /\ parts \in Seq(Components)
      /\ mounts # <<>> => Len(Tail(mounts)) < Len(mounts)
      /\ parts # <<>> => Len(Tail(parts)) < Len(parts)
  <2>1. mounts \in Seq(Seq(Components)) /\ parts \in Seq(Components)
    BY DEF TypeOK
  <2>2. ASSUME NEW S, NEW s \in Seq(S), s # <<>> PROVE Len(Tail(s)) < Len(s)
    BY <2>2, EmptySeq, LenProperties, HeadTailProperties
  <2>3. QED
    BY <2>1, <2>2
<1>7. CASE (NextMount \/ Clean) /\ at' \in MountSteps
  <2>1. UNCHANGED mounts /\ at \in MountSteps
    BY <1>7 DEF NextMount, Clean, MountSteps
  <2>2. \/ Mounting[at'] < Mounting[at]
        \/ at' = at /\ symlinks' = symlinks /\ Len(parts') < Len(parts)
    BY <1>6, <1>7, MountingValues DEF NextMount, Clean, MountSteps
  <2>3. QED
    BY <1>7, <2>1, <2>2, MountNearer
<1>8. CASE resolveInRoot /\ at' \in MountSteps
  <2>1. UNCHANGED mounts /\ at = "resolve" /\ at' = "resolve"
    BY <1>8 DEF resolveInRoot, MountSteps
  <2>2. \/ symlinks' = symlinks + 1
        \/ symlinks' = symlinks /\ Len(parts') < Len(parts)
    BY <1>6, <1>8, <2>1 DEF resolveInRoot
  <2>3. symlinks \in Nat
    BY BoundAssumption DEF TypeOK
  <2>4. symlinks < symlinks' \/ (symlinks' = symlinks /\ Len(parts') < Len(parts))
    BY <2>2, <2>3
  <2>5. QED
    BY <1>8, <2>1, <2>4, MountNearer
<1>9. CASE (cdiMountTarget \/ CreateVolume \/ LinkVolumeTarget \/ UnlinkVolume)
             /\ at' \in MountSteps
  <2>1. at \in MountSteps /\ mounts # <<>>
    BY <1>9 DEF cdiMountTarget, CreateVolume, LinkVolumeTarget, UnlinkVolume, MountSteps,
                MountUnderWay
  <2>2. \/ mounts' = Tail(mounts)
        \/ mounts' = mounts /\ Mounting[at'] < Mounting[at]
    BY <1>9, MountingValues
       DEF cdiMountTarget, CreateVolume, LinkVolumeTarget, UnlinkVolume, MountSteps
  <2>3. QED
    BY <1>6, <1>9, <2>1, <2>2, MountNearer
<1>10. CASE runCDIHooks
  <2>1. at = "hook" /\ at' \in {"hook", "wait", "destroy", "idle"} /\ UNCHANGED hooks
    BY <1>10 DEF runCDIHooks
  <2>2. CASE at' \in {"destroy", "idle"}
    BY <2>1, <2>2, PhaseNearer DEF Phase, MountSteps
  <2>3. CASE at' = "hook"
    <3>1. \/ hook' = [hook EXCEPT !.stage = hook.stage + 1, !.pos = 1]
          \/ hook' = [hook EXCEPT !.pos = hook.pos + 1]
      BY <1>10, <2>3 DEF runCDIHooks
    <3>2. hook.stage \in Nat /\ hook.pos \in Nat
      BY <1>0 DEF HookStates
    <3>3. hook' = [hook EXCEPT !.stage = hook.stage + 1, !.pos = 1] =>
            hook'.stage = hook.stage + 1
      BY <1>0 DEF HookStates
    <3>4. hook' = [hook EXCEPT !.pos = hook.pos + 1] =>
            hook'.stage = hook.stage /\ hook'.pos = hook.pos + 1
      BY <1>0 DEF HookStates
    <3>5. \/ hook'.stage > hook.stage
          \/ hook'.stage = hook.stage /\ hook'.pos > hook.pos
      BY <3>1, <3>2, <3>3, <3>4
    <3>6. QED
      BY <2>1, <2>3, <3>5, HookNearer
  <2>4. CASE at' = "wait"
    <3>1. hook' = [hook EXCEPT !.proc = "runs"]
      BY <1>10, <2>4 DEF runCDIHooks
    <3>2. hook'.stage = hook.stage /\ hook'.pos = hook.pos
      BY <1>0, <3>1 DEF HookStates
    <3>3. QED
      BY <2>1, <2>4, <3>2, HookNearer
  <2>5. QED
    BY <2>1, <2>2, <2>3, <2>4
<1>11. CASE HookTimeout
  <2>1. /\ at = "wait" /\ at' = at /\ UNCHANGED hooks
        /\ hook.proc = "runs" /\ hook' = [hook EXCEPT !.proc = "failed"]
    BY <1>11 DEF HookTimeout
  <2>2. hook'.stage = hook.stage /\ hook'.pos = hook.pos /\ hook'.proc # "runs"
    BY <1>0, <2>1 DEF HookStates
  <2>3. QED
    BY <2>1, <2>2, HookNearer
<1>12. CASE runCDIHook
  <2>1. at = "wait" /\ at' \in {"hook", "destroy"} /\ UNCHANGED hooks
    BY <1>12 DEF runCDIHook
  <2>2. CASE at' = "destroy"
    BY <2>1, <2>2, PhaseNearer DEF Phase, MountSteps
  <2>3. CASE at' = "hook"
    <3>1. hook' = [hook EXCEPT !.proc = "none", !.pos = hook.pos + 1]
      BY <1>12, <2>3 DEF runCDIHook
    <3>2. hook'.stage = hook.stage /\ hook'.pos > hook.pos
      BY <1>0, <3>1 DEF HookStates
    <3>3. QED
      BY <2>1, <2>3, <3>2, HookNearer
  <2>4. QED
    BY <2>1, <2>2, <2>3
<1>13. NextMount \/ Clean \/ resolveInRoot \/ cdiMountTarget \/ CreateVolume
         \/ LinkVolumeTarget \/ UnlinkVolume =>
           /\ at \in MountSteps
           /\ at' \in MountSteps \cup {"idle", "destroy", "bundle"}
  BY DEF NextMount, Clean, resolveInRoot, cdiMountTarget, CreateVolume, LinkVolumeTarget,
         UnlinkVolume, MountSteps
<1>14. QED
  BY <1>1, <1>2, <1>3, <1>4, <1>5, <1>7, <1>8, <1>9, <1>10, <1>11, <1>12, <1>13
     DEF HandlerStep

\* A step beside the call.
LEMMA BesideTheCall ==
  ASSUME TypeOK, TypeOK', HookInv, HookInv',
         HookForks \/ HookChildEnds \/ HookExits \/ Removed \/ Crash \/ UNCHANGED vars
  PROVE  Ahead' = Ahead \/ Less(Ahead', Ahead)
<1>0. hook \in HookStates /\ at \in Steps /\ at' \in Steps
  BY DEF TypeOK, HookStates
<1>1. CASE Crash
  BY <1>0, <1>1, PhaseNearer DEF Crash, Return, Phase, MountSteps, Steps
<1>2. CASE ~Crash
  <2>1. UNCHANGED <<at, dev, mounts, hooks, symlinks, parts>>
    BY <1>2 DEF HookForks, HookChildEnds, HookExits, Removed, walkVars, vars
  <2>2. hook'.stage = hook.stage /\ hook'.pos = hook.pos
    <3>1. \/ hook' = hook
          \/ \E b \in BOOLEAN : hook' = [hook EXCEPT !.holder = b]
          \/ \E p \in {"exited", "failed"} : hook' = [hook EXCEPT !.proc = p]
      BY <1>2 DEF HookForks, HookChildEnds, HookExits, Removed, hookVars, vars
    <3>2. QED
      BY <1>0, <3>1 DEF HookStates
  <2>3. hook'.proc = hook.proc \/ (hook.proc = "runs" /\ hook'.proc # "runs")
    BY <1>0, <1>2 DEF HookForks, HookChildEnds, HookExits, Removed, hookVars, vars, HookStates
  <2>4. CASE hook'.proc = hook.proc \/ at \notin {"hook", "wait"}
    BY <2>1, <2>2, <2>4 DEF Ahead, Mounting
  <2>5. CASE hook'.proc # hook.proc /\ at \in {"hook", "wait"}
    BY <2>1, <2>2, <2>3, <2>5, HookNearer
  <2>6. QED
    BY <2>4, <2>5
<1>3. QED
  BY <1>1, <1>2

\* The call takes finitely many steps: each one lowers Ahead, whatever the limit of
\* symlinks, the devices, the mounts and the hooks.
THEOREM CallComesNearer == Spec => NearerTheEnd
<1> DEFINE Nearby == Less(Ahead', Ahead) \/ (Ahead' = Ahead /\ ~HandlerStep)
<1>1. ASSUME TypeOK, TypeOK', MountUnderWay, HookInv, HookInv', [Next]_vars PROVE Nearby
  <2>1. CASE HandlerStep
    BY <1>1, <2>1, HandlerNearer
  <2>2. CASE ~HandlerStep
    <3>1. HookForks \/ HookChildEnds \/ HookExits \/ Removed \/ Crash \/ UNCHANGED vars
      BY <1>1, <2>2 DEF Next
    <3>2. QED
      BY <1>1, <2>2, <3>1, BesideTheCall
  <2>3. QED
    BY <2>1, <2>2
<1>2. QED
  BY <1>1, TypeInv, HookInvHolds, PTL DEF Spec, NearerTheEnd
=============================================================================
