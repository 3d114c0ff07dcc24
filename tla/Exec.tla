-------------------------------- MODULE Exec --------------------------------
(***************************************************************************)
(* Commands run in a container for a client: ExecSync (runtime_mapper.go)  *)
(* and the streaming Exec (streaming.go).                                  *)
(*                                                                         *)
(* Each call makes a weak porto container inside the container, waits for  *)
(* it and destroys it; ExecSync waits with a timeout and then asks porto   *)
(* for exit code and output, Exec copies input and output between pipes,   *)
(* or a terminal, and the client.  A weak container goes when the          *)
(* connection it was made on is closed.  The code closes none: a           *)
(* connection is closed when it is garbage, or with the process.           *)
(* Of the two output streams, which are alike, there is stdout.            *)
(***************************************************************************)
EXTENDS Naturals

CONSTANTS
  Calls,      \* calls, all for one container
  Kinds,      \* Kinds[c]: a subset of {"sync", "pipe", "tty"}
  PipeSize,   \* what a pipe or a terminal holds
  TailSize,   \* how much of an output porto returns
  MaxOut,     \* bound on what a command writes
  MaxFaults,  \* bound on failing calls
  MaxCrashes  \* bound on restarts of portoshim

ASSUME KindAssumption == Kinds \in [Calls -> SUBSET {"sync", "pipe", "tty"}]
ASSUME BoundAssumption == /\ PipeSize \in Nat \ {0} /\ TailSize \in Nat /\ MaxOut \in Nat
                          /\ MaxFaults \in Nat /\ MaxCrashes \in Nat

VARIABLES
  call,     \* call[c]: the handler, and the result it gave
  conn,     \* conn[c]: its connection to portod
  cont,     \* cont[c]: the porto container of the command
  parent,   \* the container the commands run in exists
  out,      \* out[c]: what the command wrote, what is in the pipe, what the client got
  copier,   \* copier[c]: the goroutines copying stdin and stdout
  client,   \* client[c]: the streams of the client
  undone,   \* calls whose container portoshim failed to destroy or never knew of
  faults,   \* failing calls so far
  crashes   \* restarts so far

streamVars == <<out, copier, client>>
vars == <<call, conn, cont, parent, out, copier, client, undone, faults, crashes>>

Steps == {"idle", "labels", "env", "command", "create", "closeEnds", "wait",
          "code", "streams", "destroy", "closeFiles", "ended"}
Copier == {"off", "copies", "ended"}

TypeOK ==
  /\ call \in [Calls -> [at : Steps, kind : {"sync", "pipe", "tty"}, stdin : BOOLEAN,
                         rsp : {"none", "ok", "err"}, result : {"none", "ok", "err", "lost"}]]
  /\ conn \in [Calls -> {"none", "open", "closed"}]
  /\ cont \in [Calls -> {"none", "runs", "dead"}]
  /\ parent \in BOOLEAN
  /\ out \in [Calls -> [wrote : 0 .. MaxOut, pipe : 0 .. PipeSize, got : 0 .. MaxOut]]
  /\ copier \in [Calls -> [in : Copier, out : Copier]]
  /\ client \in [Calls -> {"open", "gone", "closed"}]
  /\ undone \subseteq Calls
  /\ faults \in 0 .. MaxFaults
  /\ crashes \in 0 .. MaxCrashes

Init ==
  /\ \E kind \in [Calls -> UNION {Kinds[c] : c \in Calls}], stdin \in [Calls -> BOOLEAN] :
       /\ \A c \in Calls : kind[c] \in Kinds[c] /\ (kind[c] = "sync" => ~stdin[c])
       /\ call = [c \in Calls |-> [at |-> "idle", kind |-> kind[c], stdin |-> stdin[c],
                                   rsp |-> "none", result |-> "none"]]
  /\ conn = [c \in Calls |-> "none"]
  /\ cont = [c \in Calls |-> "none"]
  /\ parent = TRUE
  /\ out = [c \in Calls |-> [wrote |-> 0, pipe |-> 0, got |-> 0]]
  /\ copier = [c \in Calls |-> [in |-> "off", out |-> "off"]]
  /\ client = [c \in Calls |-> "open"]
  /\ undone = {}
  /\ faults = 0 /\ crashes = 0

-----------------------------------------------------------------------------
Works == UNCHANGED faults
Fails == faults < MaxFaults /\ faults' = faults + 1

Goto(c, step) == call' = [call EXCEPT ![c].at = step]

\* The call returns before it has a container.
ReturnError(c) == call' = [call EXCEPT ![c].at = "ended", ![c].result = "err"]

\* The deferred calls are next, whatever the answer will be.
Leave(c, rsp) == call' = [call EXCEPT ![c].at = "destroy", ![c].rsp = rsp]

\* A question to portod about a container: the answer comes, there is no such
\* container, or the call fails.
Ask(c, exists, next) ==
  \/ exists /\ Works /\ Goto(c, next)
  \/ ~exists /\ Works /\ ReturnError(c)
  \/ Fails /\ ReturnError(c)

-----------------------------------------------------------------------------
(* Until the container is made *)

\* serverInterceptor and StreamingRuntime.Exec connect to portod; Exec does so
\* without the context of its request.
Connect(c) ==
  /\ call[c].at = "idle"
  /\ \/ /\ Works
        /\ conn' = [conn EXCEPT ![c] = "open"]
        /\ Goto(c, IF call[c].kind = "sync" THEN "env" ELSE "labels")
     \/ Fails /\ ReturnError(c) /\ UNCHANGED conn
  /\ UNCHANGED <<cont, parent, streamVars, undone, crashes>>

\* The labels say whether the command gets the capabilities of a privileged one.
GetLabels(c) ==
  /\ call[c].at = "labels"
  /\ Ask(c, parent, "env")
  /\ UNCHANGED <<conn, cont, parent, streamVars, undone, crashes>>

GetEnv(c) ==
  /\ call[c].at = "env"
  /\ Ask(c, parent, "command")
  /\ UNCHANGED <<conn, cont, parent, streamVars, undone, crashes>>

\* prepareExecEnv and prepareCommand, which refuses an empty command; then, for
\* Exec, the pipes or the terminal.
prepareCommand(c) ==
  /\ call[c].at = "command"
  /\ \/ Works /\ Goto(c, "create")
     \/ Fails /\ ReturnError(c)
  /\ UNCHANGED <<conn, cont, parent, streamVars, undone, crashes>>

\* CreateFromSpec makes the container and starts the command.  When its answer is
\* lost the call returns and does not destroy what it has made.
CreateFromSpec(c) ==
  /\ call[c].at = "create"
  /\ \/ /\ parent /\ Works
        /\ cont' = [cont EXCEPT ![c] = "runs"]
        /\ Goto(c, IF call[c].kind = "sync" THEN "wait" ELSE "closeEnds")
        /\ UNCHANGED undone
     \/ ~parent /\ Works /\ ReturnError(c) /\ UNCHANGED <<cont, undone>>
     \/ Fails /\ ReturnError(c) /\ UNCHANGED <<cont, undone>>
     \/ /\ parent /\ Fails
        /\ cont' = [cont EXCEPT ![c] = "runs"]
        /\ undone' = undone \cup {c}
        /\ ReturnError(c)
  /\ UNCHANGED <<conn, parent, streamVars, crashes>>

\* Exec closes the ends of the pipes that are the command's and starts to copy.
StartCopying(c) ==
  /\ call[c].at = "closeEnds"
  /\ copier' = [copier EXCEPT ![c] = [in |-> IF call[c].stdin THEN "copies" ELSE "off",
                                      out |-> "copies"]]
  /\ Goto(c, "wait")
  /\ UNCHANGED <<conn, cont, parent, out, client, undone, faults, crashes>>

-----------------------------------------------------------------------------
(* Until the command has ended *)

\* Mutant: Exec waits for its copiers too, so that no output is lost.
EndedForWaitCopiers(c) ==
  cont[c] # "runs" /\ (call[c].kind # "sync" => copier[c].in # "copies" /\ copier[c].out # "copies")

\* porto answers a Wait when the container does not run.
EndedForWait(c) == cont[c] # "runs"

\* Exec waits without a limit, and only logs an error.
ExecWait(c) ==
  /\ call[c].at = "wait" /\ call[c].kind # "sync"
  /\ \/ EndedForWait(c) /\ Works
     \/ Fails
  /\ Leave(c, "ok")
  /\ UNCHANGED <<conn, cont, parent, streamVars, undone, crashes>>

\* Mutant: an error of Wait is returned past Destroy.
SyncWaitReturns(c) ==
  /\ call[c].at = "wait" /\ call[c].kind = "sync"
  /\ \/ cont[c] = "dead" /\ Works /\ Goto(c, "code")
     \/ cont[c] = "runs" /\ Works /\ (Goto(c, "code") \/ ReturnError(c))
     \/ cont[c] = "none" /\ Works /\ ReturnError(c)
     \/ Fails /\ ReturnError(c)
  /\ UNCHANGED <<conn, cont, parent, streamVars, undone, crashes>>

\* Wait of ExecSync ends with the command or with the timeout, which may be an error
\* of Wait or not.
SyncWait(c) ==
  /\ call[c].at = "wait" /\ call[c].kind = "sync"
  /\ \/ cont[c] = "dead" /\ Works /\ Goto(c, "code")
     \/ cont[c] = "runs" /\ Works /\ (Goto(c, "code") \/ Leave(c, "err"))
     \/ cont[c] = "none" /\ Works /\ Leave(c, "err")
     \/ Fails /\ Leave(c, "err")
  /\ UNCHANGED <<conn, cont, parent, streamVars, undone, crashes>>

\* Mutant: an exit code that cannot be read is taken for 0.
HasExitCodeAlways(c) == cont[c] # "none"

\* A running container has no exit code.
HasExitCode(c) == cont[c] = "dead"

GetExitCode(c) ==
  /\ call[c].at = "code"
  /\ \/ HasExitCode(c) /\ Works /\ Goto(c, "streams")
     \/ ~HasExitCode(c) /\ Works /\ Leave(c, "err")
     \/ Fails /\ Leave(c, "err")
  /\ UNCHANGED <<conn, cont, parent, streamVars, undone, crashes>>

\* What porto returns of an output of this length: its end.
Tail(length) == IF length <= TailSize THEN length ELSE TailSize

\* stdout and stderr, which porto keeps in files of the container.
GetStreams(c) ==
  /\ call[c].at = "streams"
  /\ \/ /\ cont[c] # "none" /\ Works
        /\ out' = [out EXCEPT ![c].got = Tail(out[c].wrote)]
        /\ Leave(c, "ok")
     \/ cont[c] = "none" /\ Works /\ Leave(c, "err") /\ UNCHANGED out
     \/ Fails /\ Leave(c, "err") /\ UNCHANGED out
  /\ UNCHANGED <<conn, cont, parent, copier, client, undone, crashes>>

-----------------------------------------------------------------------------
(* The deferred calls *)

\* Destroy, whose error is ignored.
Destroy(c) ==
  /\ call[c].at = "destroy"
  /\ \/ Works /\ cont' = [cont EXCEPT ![c] = "none"] /\ UNCHANGED undone
     \/ Fails /\ cont' = [cont EXCEPT ![c] = "none"] /\ UNCHANGED undone
     \/ Fails /\ undone' = undone \cup {c} /\ UNCHANGED cont
  /\ IF call[c].kind = "sync"
     THEN call' = [call EXCEPT ![c].at = "ended", ![c].result = call[c].rsp]
     ELSE Goto(c, "closeFiles")
  /\ UNCHANGED <<conn, parent, streamVars, crashes>>

\* Exec closes its ends, with what is left in the pipe, and returns nil.
CloseFiles(c) ==
  /\ call[c].at = "closeFiles"
  /\ out' = [out EXCEPT ![c].pipe = 0]
  /\ call' = [call EXCEPT ![c].at = "ended", ![c].result = call[c].rsp]
  /\ UNCHANGED <<conn, cont, parent, copier, client, undone, faults, crashes>>

-----------------------------------------------------------------------------
(* Copying *)

FilesOpen(c) == call[c].at \in {"wait", "destroy", "closeFiles"}

\* Mutant: copyStream does not wait for output.
CopyOutBusy(c) ==
  /\ copier[c].out = "copies"
  /\ FilesOpen(c)
  /\ out' = [out EXCEPT ![c].pipe = @ - 1, ![c].got = IF client[c] = "open" THEN @ + 1 ELSE @]
  /\ copier' = [copier EXCEPT ![c].out = IF client[c] = "open" THEN @ ELSE "ended"]
  /\ UNCHANGED <<call, conn, cont, parent, client, undone, faults, crashes>>

\* Mutant: copyStream copies once.
CopyOutOnce(c) ==
  /\ copier[c].out = "copies"
  /\ FilesOpen(c)
  /\ out[c].pipe > 0
  /\ out' = [out EXCEPT ![c].pipe = @ - 1, ![c].got = IF client[c] = "open" THEN @ + 1 ELSE @]
  /\ copier' = [copier EXCEPT ![c].out = "ended"]
  /\ UNCHANGED <<call, conn, cont, parent, client, undone, faults, crashes>>

\* copyStream from the command to the client.
CopyOut(c) ==
  /\ copier[c].out = "copies"
  /\ FilesOpen(c)
  /\ out[c].pipe > 0
  /\ out' = [out EXCEPT ![c].pipe = @ - 1, ![c].got = IF client[c] = "open" THEN @ + 1 ELSE @]
  /\ copier' = [copier EXCEPT ![c].out = IF client[c] = "open" THEN @ ELSE "ended"]
  /\ UNCHANGED <<call, conn, cont, parent, client, undone, faults, crashes>>

\* The end of the output: nobody has the write end of the pipe open, which Exec has
\* closed, or the read end is closed.  A terminal has no end before all have closed
\* it, Exec too: its files are in blocking mode, and Close does not end a Read.
CopyOutEnds(c) ==
  /\ copier[c].out = "copies"
  /\ \/ call[c].kind = "pipe" /\ out[c].pipe = 0 /\ cont[c] # "runs"
     \/ call[c].kind = "pipe" /\ ~FilesOpen(c)
     \/ call[c].kind = "tty" /\ ~FilesOpen(c) /\ cont[c] # "runs"
  /\ copier' = [copier EXCEPT ![c].out = "ended"]
  /\ UNCHANGED <<call, conn, cont, parent, out, client, undone, faults, crashes>>

\* copyStream from the client ends with the stream.  It does not close the pipe, so
\* that the command is not told.
CopyInEnds(c) ==
  /\ copier[c].in = "copies"
  /\ client[c] # "open"
  /\ copier' = [copier EXCEPT ![c].in = "ended"]
  /\ UNCHANGED <<call, conn, cont, parent, out, client, undone, faults, crashes>>

-----------------------------------------------------------------------------
(* The command, the client, portod, the garbage collector *)

\* ExecSync's output goes to a file, which takes all.
CommandWrites(c) ==
  /\ cont[c] = "runs"
  /\ out[c].wrote < MaxOut
  /\ \/ /\ call[c].kind = "sync" \/ ~FilesOpen(c)
        /\ out' = [out EXCEPT ![c].wrote = @ + 1]
     \/ /\ call[c].kind # "sync" /\ FilesOpen(c) /\ out[c].pipe < PipeSize
        /\ out' = [out EXCEPT ![c].wrote = @ + 1, ![c].pipe = @ + 1]
  /\ UNCHANGED <<call, conn, cont, parent, copier, client, undone, faults, crashes>>

CommandEnds(c) ==
  /\ cont[c] = "runs"
  /\ cont' = [cont EXCEPT ![c] = "dead"]
  /\ UNCHANGED <<call, conn, parent, streamVars, undone, faults, crashes>>

ClientLeaves(c) ==
  /\ call[c].kind # "sync"
  /\ client[c] = "open"
  /\ call[c].result = "none"
  /\ client' = [client EXCEPT ![c] = "gone"]
  /\ UNCHANGED <<call, conn, cont, parent, out, copier, undone, faults, crashes>>

\* The streaming server closes the streams behind Exec.
StreamsClosed(c) ==
  /\ call[c].kind # "sync"
  /\ call[c].result # "none"
  /\ client[c] # "closed"
  /\ client' = [client EXCEPT ![c] = "closed"]
  /\ UNCHANGED <<call, conn, cont, parent, out, copier, undone, faults, crashes>>

\* RemoveContainer or RemovePodSandbox, and everything inside goes.
ParentRemoved ==
  /\ parent
  /\ parent' = FALSE
  /\ cont' = [c \in Calls |-> "none"]
  /\ UNCHANGED <<call, conn, streamVars, undone, faults, crashes>>

\* No goroutine of the call is left that has its context.
IsGarbage(c) ==
  /\ conn[c] = "open"
  /\ call[c].at = "ended"
  /\ copier[c].in # "copies" /\ copier[c].out # "copies"

\* The garbage collector finalises the connection, which closes it.
Collect(c) ==
  /\ IsGarbage(c)
  /\ conn' = [conn EXCEPT ![c] = "closed"]
  /\ UNCHANGED <<call, cont, parent, streamVars, undone, faults, crashes>>

\* Mutant: the container is not made weak.
WeakGoesNot(c) ==
  /\ FALSE
  /\ UNCHANGED vars

\* portod destroys a weak container whose connection is closed.
WeakGoes(c) ==
  /\ conn[c] = "closed"
  /\ cont[c] # "none"
  /\ cont' = [cont EXCEPT ![c] = "none"]
  /\ UNCHANGED <<call, conn, parent, streamVars, undone, faults, crashes>>

\* portoshim goes down with all calls and connections.
Crash ==
  /\ crashes < MaxCrashes
  /\ crashes' = crashes + 1
  /\ call' = [c \in Calls |-> IF call[c].at \in {"idle", "ended"} THEN call[c]
                              ELSE [call[c] EXCEPT !.at = "ended", !.result = "lost"]]
  /\ conn' = [c \in Calls |-> IF conn[c] = "open" THEN "closed" ELSE conn[c]]
  /\ copier' = [c \in Calls |-> [in |-> IF copier[c].in = "copies" THEN "ended" ELSE copier[c].in,
                                 out |-> IF copier[c].out = "copies" THEN "ended" ELSE copier[c].out]]
  /\ out' = [c \in Calls |-> IF call[c].kind = "sync" THEN out[c] ELSE [out[c] EXCEPT !.pipe = 0]]
  /\ UNCHANGED <<cont, parent, client, undone, faults>>

-----------------------------------------------------------------------------
HandlerStep(c) ==
  \/ GetLabels(c) \/ GetEnv(c) \/ prepareCommand(c) \/ CreateFromSpec(c) \/ StartCopying(c)
  \/ ExecWait(c) \/ SyncWait(c) \/ GetExitCode(c) \/ GetStreams(c)
  \/ Destroy(c) \/ CloseFiles(c)

Next ==
  \/ \E c \in Calls :
       \/ Connect(c) \/ HandlerStep(c)
       \/ CopyOut(c) \/ CopyOutEnds(c) \/ CopyInEnds(c)
       \/ CommandWrites(c) \/ CommandEnds(c) \/ ClientLeaves(c) \/ StreamsClosed(c)
       \/ Collect(c) \/ WeakGoes(c)
  \/ ParentRemoved \/ Crash

\* Goroutines run, the streaming server closes what it served, the garbage collector
\* runs every two minutes at the latest, and portod looks after weak containers.
\* Nothing makes a command end, a client leave or a call fail.
Fairness == \A c \in Calls :
  /\ WF_vars(Works /\ HandlerStep(c))
  /\ WF_vars(CopyOut(c)) /\ WF_vars(CopyOutEnds(c)) /\ WF_vars(CopyInEnds(c))
  /\ WF_vars(StreamsClosed(c)) /\ WF_vars(Collect(c)) /\ WF_vars(WeakGoes(c))

Spec == Init /\ [][Next]_vars
LiveSpec == Spec /\ Fairness

-----------------------------------------------------------------------------
(* Properties *)

\* When a call is over its container is gone, whether it ended, failed or timed out,
\* unless the call that makes or destroys it failed.
GoneAtReturn ==
  \A c \in Calls : call[c].result \in {"ok", "err"} /\ c \notin undone => cont[c] = "none"

\* ExecSync that answers answers for a command that ended by itself, and with the end
\* of all it wrote: the tail porto returns is not that of a command that still writes,
\* and whatever is killed by the timeout or goes with the container is an error.
SyncAnswerIsFinal ==
  \A c \in Calls : call[c].kind = "sync" /\ call[c].rsp = "ok" =>
    cont[c] # "runs" /\ out[c].got = Tail(out[c].wrote)

\* Neither Wait nor Destroy worked for a command on a terminal.  Reading the terminal
\* goes on until the command ends, and the reader keeps the connection.
HeldByTerminal(c) == call[c].kind = "tty" /\ c \in undone /\ cont[c] = "runs"

\* The container of a call that is over goes, also when Destroy failed, the answer
\* to CreateFromSpec was lost or portoshim went down: it is weak, and the connection
\* it was made on does not outlive the call, but for a terminal.
GoesInTheEnd ==
  \A c \in Calls : call[c].at = "ended" ~> (cont[c] = "none" \/ HeldByTerminal(c))

\* A call ends when its command has ended, and ExecSync in any case; a client that
\* neither sends nor goes away does not keep it.
CallEnds ==
  \A c \in Calls :
    []<>(call[c].at \in {"idle", "ended"} \/ (call[c].kind # "sync" /\ cont[c] = "runs"))

\* What the command writes does not stay in the pipe, so that the command is not
\* stuck, as long as the client takes it.
OutputFlows ==
  \A c \in Calls : (out[c].pipe > 0 /\ client[c] = "open")
                     ~> (out[c].pipe = 0 \/ client[c] # "open")
=============================================================================
