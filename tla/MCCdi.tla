-------------------------------- MODULE MCCdi --------------------------------
EXTENDS CdiReference, TLC

MCNames == {"usr", "lib"}
MCKinds == {"gpu", "nic"}
MCDevices == {"0", "1"}

Edit(ms, hs) == [mounts |-> ms, hooks |-> hs]
NoEdit == Edit(<<>>, <<>>)

\* Mounts and hooks: one device, and every root with at most two symlinks from
\* LinkPaths to LinkDests.
LinkPaths == {<<"lib">>, <<"usr">>, <<"usr", "lib">>, <<"lib", "usr">>}
LinkDests == [abs : BOOLEAN, parts : {<<"usr">>, <<"lib">>, <<"..", "lib">>, <<"usr", ".", "lib">>,
                                      <<"..", "..", "usr", "lib">>}]

Roots == UNION {[P -> LinkDests] : P \in {P \in SUBSET LinkPaths :
             /\ \A p, q \in P : p = <<q[1]>> => p = q
             /\ \E p, q \in LinkPaths : P \subseteq {p, q}}}

MountLists == {<<<<"lib", "lib">>, <<"usr", "lib", "lib">>>>,
               <<<<"lib", "usr", "..", "usr", "lib">>, <<"lib", ".", "usr", "lib">>>>,
               <<<<"usr">>, <<"usr", "lib", "usr">>, <<"..">>>>}

MountJobs ==
  {[requested |-> <<[kind |-> "gpu", name |-> "0"]>>,
    files |-> <<[kind |-> "gpu", edits |-> Edit(ms, <<>>), devices |-> ("0" :> NoEdit)]>>,
    links |-> root] : ms \in MountLists, root \in Roots}

\* Hooks and devices: lists of spec files and requests without symlinks.
HookEdit == Edit(<<<<"lib">>>>, <<"createContainer", "startContainer", "prestart">>)
FileLists == {<<[kind |-> "gpu", edits |-> HookEdit, devices |-> [d \in D |-> Edit(<<>>, <<"prestart">>)]],
                [kind |-> k, edits |-> NoEdit, devices |-> [d \in {"1"} |-> NoEdit]]>> :
                  D \in SUBSET MCDevices, k \in MCKinds}
RequestLists == UNION {[1 .. n -> [kind : MCKinds, name : MCDevices]] : n \in 0 .. 3}
DeviceJobs == [requested : RequestLists, files : FileLists, links : {<<>>}]

MCJobs == MountJobs \cup DeviceJobs
=============================================================================
