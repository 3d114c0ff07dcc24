---------------------------- MODULE CdiReference ----------------------------
(***************************************************************************)
(* What a path inside a container root means, defined over the structure   *)
(* of the path: a reference for resolveInRoot and cdiMountTarget of        *)
(* cdi.go, which work through a list of components.                        *)
(***************************************************************************)
EXTENDS Cdi, Integers

\* The outcome of a walk: a place and the symlinks that may still be followed, or
\* none when there were too many.
Place(path, left) == [path |-> path, left |-> left]
TooMany == [path |-> <<>>, left |-> -1]
Places == [path : Seq(Names), left : Nat] \cup {TooMany}

\* Where a component leads from the place dir.  A symlink is resolved completely, by
\* walk, before the next component.
Enter(links, walk, dir, last) ==
  LET here == Append(dir.path, last)
      dest == links[here]
  IN  IF dir = TooMany THEN TooMany
      ELSE CASE last = "."  -> dir
             [] last = ".." -> Place(Dir(dir.path), dir.left)
             [] last \in Names /\ here \notin DOMAIN links -> Place(here, dir.left)
             [] last \in Names /\ here \in DOMAIN links ->
                  IF dir.left = 0 THEN TooMany
                  ELSE walk[<<Place(IF dest.abs THEN <<>> ELSE dir.path, dir.left - 1),
                              dest.parts>>]

\* All walks in a root with these symlinks.
Walks(links) ==
  LET walk[w \in Places \X Seq(Components)] ==
        IF w[2] = <<>> THEN w[1]
        ELSE Enter(links, walk, walk[<<w[1], Dir(w[2])>>], w[2][Len(w[2])])
  IN  walk

\* Where the walk from a place along a path ends.
Walk(links, place, path) == Walks(links)[<<place, path>>]

\* A path without "." and "..": where it leads when there are no symlinks.
Lexical(path) == Walk(<<>>, Place(<<>>, 0), path).path

\* The directory of the mount under way.
MountDir == Walk(job.links, Place(<<>>, MaxSymlinks), Dir(Lexical(Head(mounts))))

\* When a volume is about to be made for a mount, its directory is the one its path
\* leads to inside the container root, and the last component is its own; and a
\* mount is given up, while all calls work, only if it leads over too many symlinks.
ResolvesAsInRoot ==
  /\ at = "volume" =>
       /\ MountDir # TooMany
       /\ current = MountDir.path \o base
       /\ Dir(Lexical(Head(mounts))) \o base = Lexical(Head(mounts))
  /\ at = "destroy" /\ faults = 0 /\ ct = "created" /\ mounts # <<>> => MountDir = TooMany
=============================================================================
