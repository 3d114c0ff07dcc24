---------------------------- MODULE ContainerLife ----------------------------
(***************************************************************************)
(* What the container calls promise the kubelet about the process of a     *)
(* container it knows.  The process starts once and ends once; whatever    *)
(* calls are repeated, overlap or fail, no container goes back to an       *)
(* earlier stage of its life, and one that is gone does not return.  The   *)
(* exception is the removal of the pod, which stops its containers first:  *)
(* if it gets no further, they can be started again.  The exit the kubelet *)
(* is told of is final, and a removal is confirmed only when the container *)
(* is gone.                                                                *)
(***************************************************************************)
CONSTANT Cnts          \* the ids CreateContainer may answer with

VARIABLES status,      \* status[c]: how far the container c has come
          told,        \* the containers whose exit the kubelet was told
          confirmed,   \* the containers whose removal was confirmed
          removing     \* the removal of the pod has begun

lifeVars == <<status, told, confirmed, removing>>

Stages == {"unborn", "created", "starting", "running", "exited", "gone"}

LifeTypeOK ==
  /\ status \in [Cnts -> Stages]
  /\ told \subseteq Cnts
  /\ confirmed \subseteq Cnts
  /\ removing \in BOOLEAN

LifeInit ==
  /\ status = [c \in Cnts |-> "unborn"]
  /\ told = {} /\ confirmed = {}
  /\ removing = FALSE

Moves(c, stage) ==
  /\ status' = [status EXCEPT ![c] = stage]
  /\ UNCHANGED <<told, confirmed, removing>>

\* The kubelet learns of the container, which may be gone already.
Appear(c) ==
  /\ status[c] = "unborn"
  /\ Moves(c, "created") \/ Moves(c, "gone")

\* StartContainer; a privileged container has its process in a second step.
Start(c) == status[c] = "created" /\ (Moves(c, "starting") \/ Moves(c, "running"))
StartProcess(c) == status[c] = "starting" /\ Moves(c, "running")

\* The process ends, or can no longer be started.
End(c) == status[c] \in {"starting", "running"} /\ Moves(c, "exited")

\* The container is destroyed, in whatever stage it is.
Vanish(c) == status[c] # "unborn" /\ Moves(c, "gone")

\* The removal of the pod stops all its containers ...
StopAll ==
  /\ status' = [c \in Cnts |-> IF status[c] \in {"unborn", "gone"} THEN status[c]
                                                              ELSE "created"]
  /\ removing' = TRUE
  /\ UNCHANGED <<told, confirmed>>

\* ... and destroys them.
VanishAll ==
  /\ removing
  /\ status' = [c \in Cnts |-> IF status[c] = "unborn" THEN "unborn" ELSE "gone"]
  /\ UNCHANGED <<told, confirmed, removing>>

\* ContainerStatus answers with the exit code.
Tell(c) ==
  /\ status[c] \in {"exited", "gone"}
  /\ told' = told \cup {c}
  /\ UNCHANGED <<status, confirmed, removing>>

\* RemoveContainer answers.
Confirm(c) ==
  /\ status[c] = "gone"
  /\ confirmed' = confirmed \cup {c}
  /\ UNCHANGED <<status, told, removing>>

LifeNext ==
  \/ \E c \in Cnts : \/ Appear(c) \/ Start(c) \/ StartProcess(c) \/ End(c) \/ Vanish(c)
                     \/ Tell(c) \/ Confirm(c)
  \/ StopAll \/ VanishAll

LifeSpec == LifeInit /\ [][LifeNext]_lifeVars
=============================================================================
