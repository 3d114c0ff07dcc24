---------------------------- MODULE ServerProofs ----------------------------
(***************************************************************************)
(* Proofs about Server, for any requests and any number of rotations,      *)
(* failing calls and crashes: the log follows its path, the file in the    *)
(* sink is open, and no end but a crash cuts a request off.                *)
(***************************************************************************)
EXTENDS Server, TLAPS

-----------------------------------------------------------------------------
(* The inductive invariant *)

ReqStates == [at : {"idle", "dial", "log", "write", "handler"}, fd : Descriptors]
Files == 1 .. MaxRotates + 1
ListenerSteps == {"none", "wait", "open", "store", "close"}

MainTyped ==
  /\ at \in Steps /\ exit \in {"none", "clean", "failed"}
  /\ stopped \in BOOLEAN /\ term \in BOOLEAN
  /\ grpc \in {"none", "new", "serves", "stopped", "refused"}
  /\ socket \in {"none", "stale", "live"}
  /\ req \in [Requests -> ReqStates] /\ cut \subseteq Requests

SinkTyped ==
  /\ log \in Seq(Files)
  /\ fd \in 0 .. Len(log) /\ closed \subseteq 1 .. Len(log)
  /\ path \in 0 .. MaxRotates + 1
  /\ notifier \in BOOLEAN /\ missed \in BOOLEAN
  /\ listener \in [at : ListenerSteps, fd : Nat] /\ listener.fd <= Len(log)

CountsTyped ==
  /\ renames \in 0 .. MaxRotates /\ hup \in 0 .. renames
  /\ faults \in 0 .. MaxFaults /\ crashes \in 0 .. MaxCrashes

Typed == MainTyped /\ SinkTyped /\ CountsTyped

\* There is a gRPC server from Chmod to the end, and it is asked to stop once.
GrpcAsMain ==
  /\ at \notin {"serve", "stopping"} <=> grpc = "none"
  /\ grpc \in {"stopped", "refused"} => at = "stopping"

\* Requests are under way only while a server serves, or has closed its listener.
ServedOnly ==
  \A r \in Requests :
    req[r].at # "idle" => grpc = "serves" \/ (grpc = "stopped" /\ socket # "live")

NothingCut == cut = {}

\* The sink has a file from newSink to the end.
SinkAsMain ==
  /\ fd = 0 <=> listener.at = "none"
  /\ fd = 0 => log = << >> /\ closed = {} /\ listener.fd = 0 /\ ~missed
  /\ fd # 0 => at \notin {"down", "config", "notify", "open"}

\* An open is due, or two.
OneDue == notifier \/ listener.at = "open"
TwoDue == notifier /\ (listener.at = "open" \/ fd = 0)

\* Every open but the first is the answer to a SIGHUP.
OpensBounded ==
  /\ Len(log) <= hup + 1
  /\ OneDue => Len(log) <= hup
  /\ TwoDue => Len(log) + 1 <= hup

\* The sink's file is open, and so is the one that takes its place.
FilesOpen ==
  /\ fd \notin closed
  /\ listener.at = "store" => listener.fd \notin closed /\ listener.fd # fd /\ listener.fd # 0
  /\ listener.at = "close" => listener.fd # fd /\ listener.fd # 0

\* The file that stays in the sink when the listener is done.
Latest == IF listener.at = "store" THEN listener.fd ELSE fd

\* It is the one at the path, unless a rotation still makes itself heard.
LatestAtPath ==
  fd # 0 /\ hup = renames /\ ~notifier /\ ~missed /\ listener.at # "open" => log[Latest] = path

MainInv == MainTyped /\ GrpcAsMain /\ ServedOnly /\ NothingCut
SinkInv == SinkTyped /\ SinkAsMain /\ OpensBounded /\ FilesOpen /\ LatestAtPath

IInv == MainInv /\ SinkInv /\ CountsTyped

-----------------------------------------------------------------------------
(* What the steps have in common *)

\* The counts of failing calls.
LEMMA Faults ==
  ASSUME CountsTyped, Works \/ Fails \/ UNCHANGED faults
  PROVE  faults' \in 0 .. MaxFaults
BY BoundAssumption DEF CountsTyped, Works, Fails

\* Counts that stay as they are, but for a failing call.
LEMMA Counted ==
  ASSUME CountsTyped, Works \/ Fails \/ UNCHANGED faults, UNCHANGED <<rotateVars, crashes>>
  PROVE  CountsTyped'
BY Faults DEF CountsTyped, rotateVars

\* The sink stays as it is, and the process does not go where it has none.
LEMMA SinkFrame ==
  ASSUME SinkInv, UNCHANGED <<sinkVars, rotateVars>>,
         fd # 0 => at' \notin {"down", "config", "notify", "open"}
  PROVE  SinkInv'
<1>1. UNCHANGED <<log, fd, closed, path, notifier, listener, missed, renames, hup>>
  BY DEF sinkVars, rotateVars
<1>2. QED
  BY <1>1 DEF SinkInv, SinkTyped, SinkAsMain, OpensBounded, OneDue, TwoDue, FilesOpen,
             LatestAtPath, Latest

\* The process and its requests stay as they are.
LEMMA MainFrame ==
  ASSUME MainInv, UNCHANGED <<procVars, req, cut>>
  PROVE  MainInv'
<1>1. UNCHANGED <<at, exit, stopped, term, grpc, socket, req, cut>>
  BY DEF procVars
<1>2. QED
  BY <1>1 DEF MainInv, MainTyped, GrpcAsMain, ServedOnly, NothingCut

\* One request goes on.
OnlyMoves(r) ==
  req' \in [Requests -> ReqStates] /\ \A q \in Requests \ {r} : req'[q] = req[q]

\* A step of a handler leaves the sink alone.
LEMMA RequestFrame ==
  ASSUME IInv, NEW r \in Requests, OnlyMoves(r),
         req[r].at # "idle" \/ grpc = "serves",
         UNCHANGED <<procVars, cut, sinkVars, rotateVars, crashes>>,
         Works \/ Fails \/ UNCHANGED faults
  PROVE  IInv'
<1>1. UNCHANGED <<at, exit, stopped, term, grpc, socket, cut>>
  BY DEF procVars
<1>2. req' \in [Requests -> ReqStates] /\ \A q \in Requests \ {r} : req'[q] = req[q]
  BY DEF OnlyMoves
<1>3. MainInv'
  BY <1>1, <1>2 DEF IInv, MainInv, MainTyped, GrpcAsMain, ServedOnly, NothingCut
<1>4. SinkInv'
  BY <1>1, SinkFrame DEF IInv, SinkInv, SinkAsMain
<1>5. QED
  BY <1>3, <1>4, Counted DEF IInv

\* Nothing is under way while there is no gRPC server, or it has not begun.
LEMMA NobodyServed ==
  ASSUME MainInv, grpc \notin {"serves", "stopped"}
  PROVE  Pending = {}
BY DEF MainInv, ServedOnly, Pending

LEMMA EarlyIdle ==
  ASSUME MainInv, at \notin {"serve", "stopping"}
  PROVE  grpc = "none" /\ Pending = {}
<1>1. grpc = "none"
  BY DEF MainInv, GrpcAsMain
<1>2. QED
  BY <1>1, NobodyServed

\* The files go with the process.
LEMMA Forgotten ==
  ASSUME SinkInv, ForgetFiles, CountsTyped'
  PROVE  SinkInv'
<1>1. log' = << >> /\ fd' = 0 /\ closed' = {} /\ notifier' = FALSE /\ missed' = FALSE
      /\ listener' = [at |-> "none", fd |-> 0] /\ path' = path
  BY DEF ForgetFiles
<1>0. << >> \in Seq(Files) /\ Len(<< >>) = 0
  OBVIOUS
<1>2. SinkTyped'
  <2>1. log' \in Seq(Files) /\ Len(log') = 0
    BY <1>0, <1>1
  <2>2. listener' \in [at : ListenerSteps, fd : Nat] /\ listener'.fd = 0
    BY <1>1 DEF ListenerSteps
  <2>3. notifier' \in BOOLEAN /\ missed' \in BOOLEAN
    BY <1>1
  <2>4. fd' \in 0 .. Len(log') /\ closed' \subseteq 1 .. Len(log') /\ listener'.fd <= Len(log')
    BY <1>1, <2>1, <2>2
  <2>5. QED
    BY <1>1, <2>1, <2>2, <2>3, <2>4 DEF SinkInv, SinkTyped
<1>3. SinkAsMain' /\ FilesOpen' /\ LatestAtPath'
  BY <1>1 DEF SinkAsMain, FilesOpen, LatestAtPath, Latest
<1>4. OpensBounded'
  <2>1. PICK h \in Nat : hup' = h
    BY BoundAssumption DEF CountsTyped
  <2>2. ~OneDue' /\ ~TwoDue'
    BY <1>1 DEF OneDue, TwoDue
  <2>3. Len(log') = 0
    BY <1>0, <1>1
  <2>4. QED
    BY <2>1, <2>2, <2>3 DEF OpensBounded
<1>5. QED
  BY <1>2, <1>3, <1>4 DEF SinkInv

\* The process ends with nothing under way, or by a crash.
LEMMA EndInv ==
  ASSUME IInv, NEW status \in {"none", "clean", "failed"}, NEW lost, lost = {},
         End(status, lost), CountsTyped'
  PROVE  IInv'
<1>1. /\ at' = "down" /\ exit' = status /\ term' = FALSE /\ grpc' = "none"
      /\ socket' = IF socket = "live" THEN "stale" ELSE socket
      /\ req' = [r \in Requests |-> [at |-> "idle", fd |-> 0]]
      /\ stopped' = stopped /\ cut' = cut
  BY DEF End
<1>2. [at |-> "idle", fd |-> 0] \in ReqStates
  BY BoundAssumption DEF ReqStates, Descriptors, Opens
<1>3. MainTyped'
  BY <1>1, <1>2 DEF IInv, MainInv, MainTyped, Steps
<1>4. GrpcAsMain' /\ ServedOnly' /\ NothingCut'
  BY <1>1 DEF IInv, MainInv, GrpcAsMain, ServedOnly, NothingCut
<1>5. SinkInv'
  BY Forgotten DEF IInv, End
<1>6. QED
  BY <1>3, <1>4, <1>5 DEF IInv, MainInv

\* main comes to another step before there is a server, and leaves the sink alone.
LEMMA MainMoves ==
  ASSUME IInv, NEW to \in Steps \ {"serve", "stopping"}, at' = to,
         at \notin {"serve", "stopping"},
         fd # 0 => to \notin {"down", "config", "notify", "open"},
         UNCHANGED <<exit, term, grpc, req, cut, sinkVars, rotateVars, crashes>>,
         stopped' \in BOOLEAN, socket' \in {"none", "stale", "live"},
         Works \/ Fails \/ UNCHANGED faults
  PROVE  IInv'
<1>1. MainTyped'
  BY DEF IInv, MainInv, MainTyped
<1>2. Pending = {} /\ grpc = "none"
  BY EarlyIdle DEF IInv
<1>3. GrpcAsMain' /\ ServedOnly' /\ NothingCut'
  BY <1>2 DEF IInv, MainInv, GrpcAsMain, ServedOnly, NothingCut, Pending
<1>4. SinkInv'
  BY SinkFrame DEF IInv
<1>5. QED
  BY <1>1, <1>3, <1>4, Counted DEF IInv, MainInv

\* A step of the start.
LEMMA StepMoves ==
  ASSUME IInv, NEW from \in Steps \ {"down", "serve", "stopping"},
         NEW to \in Steps \ {"down", "config", "serve", "stopping"},
         NEW status \in {"clean", "failed"},
         from \in {"config", "notify"} \/ to \notin {"notify", "open"},
         Step(from, to, status)
  PROVE  IInv'
<1>1. at = from /\ UNCHANGED <<rotateVars, crashes>> /\ (Works \/ Fails)
  BY DEF Step
<1>2. CASE Works /\ at' = to /\ UNCHANGED <<exit, stopped, term, grpc, socket, req, cut, sinkVars>>
  <2>1. fd # 0 => to \notin {"down", "config", "notify", "open"}
    BY <1>1 DEF IInv, SinkInv, SinkAsMain
  <2>2. stopped' \in BOOLEAN /\ socket' \in {"none", "stale", "live"}
    BY <1>2 DEF IInv, MainInv, MainTyped
  <2>3. QED
    BY <1>1, <1>2, <2>1, <2>2, MainMoves
<1>3. CASE Fails /\ End(status, Pending)
  <2>1. Pending = {}
    BY <1>1, EarlyIdle DEF IInv
  <2>2. CountsTyped'
    BY <1>1, Counted DEF IInv
  <2>3. QED
    BY <1>3, <2>1, <2>2, EndInv
<1>4. QED
  BY <1>2, <1>3 DEF Step

-----------------------------------------------------------------------------
(* The start *)

\* The first state.
LEMMA InitInv == Init => IInv
<1> SUFFICES ASSUME Init PROVE IInv
  OBVIOUS
<1>0. << >> \in Seq(Files) /\ Len(<< >>) = 0
  OBVIOUS
<1>1. [at |-> "idle", fd |-> 0] \in ReqStates
  BY BoundAssumption DEF ReqStates, Descriptors, Opens
<1>2. MainInv
  BY <1>1 DEF Init, MainInv, MainTyped, Steps, GrpcAsMain, ServedOnly, NothingCut
<1>3. CountsTyped
  BY BoundAssumption DEF Init, CountsTyped
<1>4. SinkTyped
  <2>1. log \in Seq(Files) /\ Len(log) = 0
    BY <1>0 DEF Init
  <2>2. listener \in [at : ListenerSteps, fd : Nat] /\ listener.fd = 0
    BY DEF Init, ListenerSteps
  <2>3. fd \in 0 .. Len(log) /\ closed \subseteq 1 .. Len(log) /\ listener.fd <= Len(log)
    BY <2>1, <2>2 DEF Init
  <2>4. notifier \in BOOLEAN /\ missed \in BOOLEAN
    BY DEF Init
  <2>5. path \in 0 .. MaxRotates + 1
    BY BoundAssumption DEF Init
  <2>6. QED
    BY <2>1, <2>2, <2>3, <2>4, <2>5 DEF SinkTyped
<1>5. SinkAsMain /\ FilesOpen /\ LatestAtPath
  BY DEF Init, SinkAsMain, FilesOpen, LatestAtPath, Latest
<1>6. OpensBounded
  <2>1. ~OneDue /\ ~TwoDue
    BY DEF Init, OneDue, TwoDue
  <2>2. Len(log) = 0 /\ hup = 0
    BY <1>0 DEF Init
  <2>3. QED
    BY <2>1, <2>2 DEF OpensBounded
<1>7. QED
  BY <1>2, <1>3, <1>4, <1>5, <1>6 DEF IInv, SinkInv

\* The service manager, or the administrator, starts the process.
LEMMA StartInv == ASSUME IInv, Start \/ StartAgain PROVE IInv'
<1>1. /\ at = "down" /\ at' = "config"
      /\ UNCHANGED <<exit, term, grpc, socket, req, cut, sinkVars, rotateVars, faults, crashes>>
      /\ stopped' = stopped \/ stopped' = FALSE
  BY DEF Start, StartAgain
<1>2. "config" \in Steps \ {"serve", "stopping"}
  BY DEF Steps
<1>3. fd = 0
  BY <1>1 DEF IInv, SinkInv, SinkAsMain
<1>4. stopped' \in BOOLEAN /\ socket' \in {"none", "stale", "live"}
  BY <1>1 DEF IInv, MainInv, MainTyped
<1>5. QED
  BY <1>1, <1>2, <1>3, <1>4, MainMoves

\* The steps that go on, or end the process.
LEMMA StepsInv ==
  ASSUME IInv,
         InitConfig \/ InitLogger \/ InitKnownRegistries \/ NewPortoshimRuntimeMapper
  PROVE  IInv'
<1>1. CASE InitConfig
  BY <1>1, StepMoves DEF InitConfig, Steps
<1>2. CASE InitLogger
  BY <1>2, StepMoves DEF InitLogger, Steps
<1>3. CASE InitKnownRegistries
  BY <1>3, StepMoves DEF InitKnownRegistries, Steps
<1>4. CASE NewPortoshimRuntimeMapper
  BY <1>4, StepMoves DEF NewPortoshimRuntimeMapper, Steps
<1>5. QED
  BY <1>1, <1>2, <1>3, <1>4

\* SIGTERM is expected from here on.
LEMMA ShutdownCtxInv == ASSUME IInv, ShutdownCtx PROVE IInv'
<1>1. at = "term" /\ at' = "mapper" /\ "mapper" \in Steps \ {"serve", "stopping"}
  BY DEF ShutdownCtx, Steps
<1>2. stopped' \in BOOLEAN /\ socket' \in {"none", "stale", "live"}
  BY DEF ShutdownCtx, IInv, MainInv, MainTyped
<1>3. QED
  BY <1>1, <1>2, MainMoves DEF ShutdownCtx

\* The steps with the socket.
LEMMA SocketInv == ASSUME IInv, unlinkStaleSocket \/ Listen PROVE IInv'
<1>1. /\ at \in {"socket", "listen"} /\ UNCHANGED <<rotateVars, crashes>>
      /\ Works \/ Fails
  BY DEF unlinkStaleSocket, Listen
<1>2. CASE End("failed", Pending)
  BY <1>1, <1>2, EarlyIdle, Counted, EndInv DEF IInv
<1>3. CASE ~End("failed", Pending)
  <2>1. PICK to \in {"listen", "chmod"} :
          /\ Works /\ at' = to /\ socket' \in {"none", "live"}
          /\ UNCHANGED <<exit, stopped, term, grpc, req, cut, sinkVars>>
    BY <1>3 DEF unlinkStaleSocket, Listen
  <2>2. to \in Steps \ {"down", "config", "notify", "open", "serve", "stopping"}
    BY DEF Steps
  <2>3. stopped' \in BOOLEAN
    BY <2>1 DEF IInv, MainInv, MainTyped
  <2>4. QED
    BY <1>1, <2>1, <2>2, <2>3, MainMoves
<1>4. QED
  BY <1>2, <1>3

\* There is a gRPC server.
LEMMA ChmodInv == ASSUME IInv, Chmod PROVE IInv'
<1>1. /\ at = "chmod" /\ UNCHANGED <<rotateVars, crashes>> /\ (Works \/ Fails)
  BY DEF Chmod
<1>2. grpc = "none" /\ Pending = {}
  BY <1>1, EarlyIdle DEF IInv
<1>3. CASE End("failed", Pending)
  BY <1>1, <1>2, <1>3, Counted, EndInv DEF IInv
<1>4. CASE ~End("failed", Pending)
  <2>1. /\ at' = "serve" /\ grpc' = "new"
        /\ UNCHANGED <<exit, stopped, term, socket, req, cut, sinkVars>>
    BY <1>4 DEF Chmod
  <2>2. MainTyped'
    BY <2>1 DEF IInv, MainInv, MainTyped, Steps
  <2>3. GrpcAsMain' /\ ServedOnly' /\ NothingCut'
    BY <1>2, <2>1 DEF IInv, MainInv, GrpcAsMain, ServedOnly, NothingCut, Pending
  <2>4. SinkInv' /\ CountsTyped'
    BY <1>1, <2>1, SinkFrame, Counted DEF IInv
  <2>5. QED
    BY <2>2, <2>3, <2>4 DEF IInv, MainInv
<1>5. QED
  BY <1>3, <1>4

-----------------------------------------------------------------------------
(* Serve and Shutdown *)

\* The goroutine of Serve.
LEMMA GrpcServeInv == ASSUME IInv, GrpcServe PROVE IInv'
<1>0. CountsTyped'
  BY Counted DEF IInv, GrpcServe
<1>1. CASE /\ grpc = "new" /\ grpc' = "serves"
           /\ UNCHANGED <<at, exit, stopped, term, socket, req, cut, sinkVars>>
  <2>1. MainTyped' /\ GrpcAsMain' /\ NothingCut'
    BY <1>1 DEF IInv, MainInv, MainTyped, GrpcAsMain, NothingCut
  <2>2. ServedOnly'
    BY <1>1 DEF ServedOnly
  <2>3. SinkInv'
    BY <1>1, SinkFrame DEF IInv, SinkInv, SinkAsMain, GrpcServe
  <2>4. QED
    BY <1>0, <2>1, <2>2, <2>3 DEF IInv, MainInv
<1>2. CASE /\ grpc = "stopped" /\ socket = "live" /\ grpc' = "refused" /\ socket' = "none"
           /\ UNCHANGED <<at, exit, stopped, term, req, cut, sinkVars>>
  <2>1. MainTyped' /\ GrpcAsMain' /\ NothingCut'
    BY <1>2 DEF IInv, MainInv, MainTyped, GrpcAsMain, NothingCut
  <2>2. ServedOnly'
    BY <1>2 DEF IInv, MainInv, ServedOnly
  <2>3. SinkInv'
    BY <1>2, SinkFrame DEF IInv, SinkInv, SinkAsMain, GrpcServe
  <2>4. QED
    BY <1>0, <2>1, <2>2, <2>3 DEF IInv, MainInv
<1>3. CASE grpc = "refused" /\ End("failed", Pending)
  BY <1>0, <1>3, NobodyServed, EndInv DEF IInv
<1>4. QED
  BY <1>1, <1>2, <1>3 DEF GrpcServe

\* GracefulStop closes the listener.
LEMMA ShutdownInv == ASSUME IInv, Shutdown PROVE IInv'
<1>1. /\ at = "serve" /\ at' = "stopping" /\ grpc' = "stopped"
      /\ socket' = IF grpc = "serves" THEN "none" ELSE socket
      /\ UNCHANGED <<exit, stopped, term, req, cut, sinkVars, rotateVars, faults, crashes>>
  BY DEF Shutdown
<1>2. MainTyped' /\ GrpcAsMain' /\ NothingCut'
  BY <1>1 DEF IInv, MainInv, MainTyped, Steps, GrpcAsMain, NothingCut
<1>3. ServedOnly'
  BY <1>1 DEF IInv, MainInv, ServedOnly, GrpcAsMain
<1>4. SinkInv' /\ CountsTyped'
  BY <1>1, SinkFrame, Counted DEF IInv
<1>5. QED
  BY <1>2, <1>3, <1>4 DEF IInv, MainInv

\* GracefulStop has waited.
LEMMA ShutDownInv == ASSUME IInv, ShutDown PROVE IInv'
<1>1. CountsTyped' /\ Pending = {} /\ End("clean", Pending)
  BY Counted DEF IInv, ShutDown, Drained
<1>2. QED
  BY <1>1, EndInv

\* SIGTERM, expected or not.
LEMMA TerminateInv == ASSUME IInv, Terminate PROVE IInv'
<1>0. CountsTyped'
  BY Counted DEF IInv, Terminate
<1>1. CASE at \in {"config", "notify", "open", "registries", "term"}
  <2>1. /\ cut' = cut \cup Pending /\ at' = "down" /\ exit' = "clean" /\ stopped' = TRUE
        /\ ForgetFiles /\ UNCHANGED <<term, grpc, socket, req>>
    BY <1>1 DEF Terminate
  <2>2. Pending = {} /\ grpc = "none"
    BY <1>1, EarlyIdle DEF IInv
  <2>3. MainTyped'
    BY <2>1, <2>2 DEF IInv, MainInv, MainTyped, Steps
  <2>4. GrpcAsMain' /\ ServedOnly' /\ NothingCut'
    BY <2>1, <2>2 DEF IInv, MainInv, GrpcAsMain, ServedOnly, NothingCut, Pending
  <2>5. SinkInv'
    BY <1>0, <2>1, Forgotten DEF IInv
  <2>6. QED
    BY <1>0, <2>3, <2>4, <2>5 DEF IInv, MainInv
<1>2. CASE at \notin {"config", "notify", "open", "registries", "term"}
  <2>1. /\ stopped' = TRUE /\ term' = TRUE
        /\ UNCHANGED <<at, exit, grpc, socket, req, cut, sinkVars, rotateVars>>
    BY <1>2 DEF Terminate
  <2>2. MainTyped' /\ GrpcAsMain' /\ ServedOnly' /\ NothingCut'
    BY <2>1 DEF IInv, MainInv, MainTyped, GrpcAsMain, ServedOnly, NothingCut
  <2>3. SinkInv'
    BY <2>1, SinkFrame DEF IInv, SinkInv, SinkAsMain
  <2>4. QED
    BY <1>0, <2>2, <2>3 DEF IInv, MainInv
<1>3. QED
  BY <1>1, <1>2

\* A crash, which is no end of its own.
LEMMA CrashInv == ASSUME IInv, Crash PROVE IInv'
<1>1. End("failed", {})
  BY DEF Crash
<1>2. CountsTyped'
  <2>1. UNCHANGED <<renames, hup, faults>> /\ crashes < MaxCrashes /\ crashes' = crashes + 1
    BY DEF Crash, rotateVars
  <2>2. QED
    BY <2>1, BoundAssumption DEF IInv, CountsTyped
<1>3. QED
  BY <1>1, <1>2, EndInv

-----------------------------------------------------------------------------
(* Requests *)

\* What becomes of the record of a request.
LEMMA Goes ==
  ASSUME IInv, NEW r \in Requests, NEW a \in {"idle", "dial", "log", "write", "handler"}
  PROVE  /\ req' = [req EXCEPT ![r].at = a] => OnlyMoves(r)
         /\ \A d \in Descriptors :
              req' = [req EXCEPT ![r].at = a, ![r].fd = d] => OnlyMoves(r)
<1>1. req \in [Requests -> ReqStates]
  BY DEF IInv, MainInv, MainTyped
<1>2. ASSUME req' = [req EXCEPT ![r].at = a] PROVE OnlyMoves(r)
  BY <1>1, <1>2 DEF OnlyMoves, ReqStates
<1>3. ASSUME NEW d \in Descriptors, req' = [req EXCEPT ![r].at = a, ![r].fd = d]
      PROVE  OnlyMoves(r)
  BY <1>1, <1>3 DEF OnlyMoves, ReqStates
<1>4. QED
  BY <1>2, <1>3

\* The sink has no more files than there can be.
LEMMA FewFiles == ASSUME IInv PROVE fd \in Descriptors
<1>1. Len(log) <= hup + 1 /\ fd \in 0 .. Len(log) /\ hup <= MaxRotates
  BY BoundAssumption DEF IInv, SinkInv, SinkTyped, OpensBounded, CountsTyped
<1>2. QED
  BY <1>1, BoundAssumption DEF IInv, SinkInv, SinkTyped, CountsTyped, Descriptors, Opens

\* A request goes one step on.
LEMMA RequestInv ==
  ASSUME IInv, NEW r \in Requests, Accept(r) \/ RequestStep(r)
  PROVE  IInv'
<1>1. 0 \in Descriptors /\ fd \in Descriptors
  BY FewFiles, BoundAssumption DEF Descriptors, Opens
<1>2. OnlyMoves(r)
  <2>1. CASE Accept(r)
    BY <1>1, <2>1, Goes DEF Accept
  <2>2. CASE Dial(r)
    BY <1>1, <2>2, Goes DEF Dial
  <2>3. CASE LoadFile(r)
    BY <1>1, <2>3, Goes DEF LoadFile
  <2>4. CASE WriteFile(r)
    BY <1>1, <2>4, Goes DEF WriteFile
  <2>5. CASE Answer(r)
    BY <1>1, <2>5, Goes DEF Answer
  <2>6. QED
    BY <2>1, <2>2, <2>3, <2>4, <2>5 DEF RequestStep
<1>3. /\ req[r].at # "idle" \/ grpc = "serves"
      /\ UNCHANGED <<procVars, cut, sinkVars, rotateVars, crashes>>
      /\ Works \/ Fails \/ UNCHANGED faults
  BY DEF Accept, RequestStep, Dial, LoadFile, WriteFile, Answer
<1>4. QED
  BY <1>2, <1>3, RequestFrame

-----------------------------------------------------------------------------
(* The log *)

\* A file is opened once more.
LEMMA Opening ==
  ASSUME IInv, OpenLog
  PROVE  /\ log' \in Seq(Files) /\ Len(log') = Len(log) + 1 /\ Len(log) \in Nat
         /\ log'[Len(log) + 1] = path' /\ path' \in Files
         /\ \A d \in 1 .. Len(log) : log'[d] = log[d]
<1>1. Opened \in Files
  BY BoundAssumption DEF IInv, SinkInv, SinkTyped, CountsTyped, Opened, Files
<1>2. log' = Append(log, Opened) /\ path' = Opened /\ log \in Seq(Files)
  BY DEF OpenLog, IInv, SinkInv, SinkTyped
<1>3. QED
  BY <1>1, <1>2

\* The sink opens its first file.
LEMMA newSinkInv == ASSUME IInv, newSink PROVE IInv'
<1>1. at = "open" /\ UNCHANGED <<rotateVars, crashes>> /\ (Works \/ Fails)
  BY DEF newSink
<1>2. CountsTyped' /\ Pending = {} /\ grpc = "none"
  BY <1>1, Counted, EarlyIdle DEF IInv
<1>3. CASE End("clean", Pending)
  BY <1>2, <1>3, EndInv
<1>4. CASE ~End("clean", Pending)
  <2>1. /\ OpenLog /\ fd' = Len(log) + 1 /\ listener' = [at |-> "wait", fd |-> 0]
        /\ at' = "registries"
        /\ UNCHANGED <<exit, stopped, term, grpc, socket, req, cut, closed, notifier, missed>>
    BY <1>4 DEF newSink
  <2>2. fd = 0 /\ log = << >> /\ closed = {}
    BY <1>1 DEF IInv, SinkInv, SinkAsMain
  <2>3. Len(log) = 0 /\ fd' = 1 /\ Len(log') = 1
    BY <2>1, <2>2, Opening
  <2>4. MainTyped'
    BY <2>1 DEF IInv, MainInv, MainTyped, Steps
  <2>5. GrpcAsMain' /\ ServedOnly' /\ NothingCut'
    BY <1>1, <2>1 DEF IInv, MainInv, GrpcAsMain, ServedOnly, NothingCut
  <2>6. SinkTyped'
    <3>1. log' \in Seq(Files) /\ path' \in 0 .. MaxRotates + 1
      BY <2>1, Opening, BoundAssumption DEF Files
    <3>2. listener' \in [at : ListenerSteps, fd : Nat] /\ listener'.fd = 0
      BY <2>1 DEF ListenerSteps
    <3>3. notifier' \in BOOLEAN /\ missed' \in BOOLEAN
      BY <2>1 DEF IInv, SinkInv, SinkTyped
    <3>4. fd' \in 0 .. Len(log') /\ closed' \subseteq 1 .. Len(log') /\ listener'.fd <= Len(log')
      BY <2>1, <2>2, <2>3, <3>2
    <3>5. QED
      BY <3>1, <3>2, <3>3, <3>4 DEF SinkTyped
  <2>7. SinkAsMain' /\ FilesOpen'
    BY <2>1, <2>2, <2>3 DEF SinkAsMain, FilesOpen
  <2>8. OpensBounded'
    <3>1. hup' = hup /\ hup \in Nat
      BY <1>1, BoundAssumption DEF rotateVars, IInv, CountsTyped
    <3>2. OneDue' => TwoDue
      BY <2>1, <2>2 DEF OneDue, TwoDue
    <3>3. ~TwoDue'
      BY <2>1, <2>3 DEF TwoDue
    <3>4. TwoDue => 1 <= hup
      BY <2>3 DEF IInv, SinkInv, OpensBounded
    <3>5. QED
      BY <2>3, <3>1, <3>2, <3>3, <3>4 DEF OpensBounded
  <2>9. LatestAtPath'
    BY <2>1, <2>2, <2>3, Opening DEF LatestAtPath, Latest
  <2>10. QED
    BY <1>2, <2>4, <2>5, <2>6, <2>7, <2>8, <2>9 DEF IInv, MainInv, SinkInv
<1>5. QED
  BY <1>3, <1>4

\* logrotate renames the file: from now on it has a SIGHUP to send.
LEMMA RenameInv == ASSUME IInv, Rename PROVE IInv'
<1>1. /\ renames < MaxRotates /\ hup = renames /\ path' = 0 /\ renames' = renames + 1
      /\ UNCHANGED <<procVars, req, cut, log, fd, closed, notifier, listener, missed, hup,
                     faults, crashes>>
  BY DEF Rename
<1>2. CountsTyped'
  BY <1>1, BoundAssumption DEF IInv, CountsTyped
<1>3. SinkTyped' /\ SinkAsMain' /\ FilesOpen'
  BY <1>1, BoundAssumption
     DEF IInv, SinkInv, SinkTyped, SinkAsMain, FilesOpen, procVars
<1>4. OpensBounded'
  BY <1>1 DEF IInv, SinkInv, OpensBounded, OneDue, TwoDue
<1>5. LatestAtPath'
  <2>1. hup' # renames'
    BY <1>1, BoundAssumption DEF IInv, CountsTyped
  <2>2. QED
    BY <2>1 DEF LatestAtPath
<1>6. QED
  BY <1>1, <1>2, <1>3, <1>4, <1>5, MainFrame DEF IInv, SinkInv

\* logrotate sends SIGHUP, which comes into the channel.
LEMMA HangupInv == ASSUME IInv, Hangup PROVE IInv'
<1>1. hup < renames /\ hup' = renames /\ UNCHANGED <<renames, faults, crashes>>
  BY DEF Hangup
<1>2. CountsTyped'
  BY <1>1, BoundAssumption DEF IInv, CountsTyped
<1>3. CASE at \in {"config", "notify"} /\ End("clean", Pending)
  BY <1>2, <1>3, EarlyIdle, EndInv DEF IInv
<1>4. ASSUME at \notin {"config", "notify"}, NEW n \in BOOLEAN, notifier' = n,
             at # "down" => n = TRUE, at = "down" => n = notifier,
             UNCHANGED <<procVars, req, cut, log, fd, closed, path, listener, missed>>
      PROVE  IInv'
  <2>1. SinkTyped' /\ SinkAsMain' /\ FilesOpen'
    BY <1>4 DEF IInv, SinkInv, SinkTyped, SinkAsMain, FilesOpen, procVars
  <2>2. OpensBounded'
    <3>1. Len(log) \in Nat /\ hup \in Nat /\ renames \in Nat /\ Len(log) <= hup + 1
      BY BoundAssumption DEF IInv, SinkInv, SinkTyped, OpensBounded, CountsTyped
    <3>2. TwoDue' => listener.at = "open" \/ fd = 0
      BY <1>4 DEF TwoDue
    <3>3. fd = 0 => Len(log) = 0
      BY DEF IInv, SinkInv, SinkAsMain
    <3>4. listener.at = "open" => Len(log) <= hup
      BY DEF IInv, SinkInv, OpensBounded, OneDue
    <3>5. Len(log') = Len(log)
      BY <1>4
    <3>6. QED
      BY <1>1, <3>1, <3>2, <3>3, <3>4, <3>5 DEF OpensBounded
  <2>3. LatestAtPath'
    BY <1>4 DEF LatestAtPath, IInv, SinkInv, SinkAsMain
  <2>4. QED
    BY <1>2, <1>4, <2>1, <2>2, <2>3, MainFrame DEF IInv, SinkInv
<1>5. CASE at \notin {"config", "notify", "down"}
  <2>1. /\ notifier' = (notifier \/ ChannelTakes)
        /\ UNCHANGED <<procVars, req, cut, log, fd, closed, path, listener, missed>>
    BY <1>5 DEF Hangup
  <2>2. notifier' = TRUE
    BY <2>1 DEF ChannelTakes
  <2>3. QED
    BY <1>4, <1>5, <2>1, <2>2
<1>6. CASE at = "down"
  <2>1. UNCHANGED <<procVars, req, cut, sinkVars>>
    BY <1>6 DEF Hangup
  <2>2. notifier \in BOOLEAN
    BY DEF IInv, SinkInv, SinkTyped
  <2>3. QED
    BY <1>4, <1>6, <2>1, <2>2 DEF sinkVars
<1>7. QED
  BY <1>3, <1>5, <1>6 DEF Hangup

\* The listener takes the signal out of the channel.
LEMMA TakeSignalInv == ASSUME IInv, TakeSignal PROVE IInv'
<1>1. /\ listener.at = "wait" /\ notifier /\ ~notifier'
      /\ listener' = [listener EXCEPT !.at = "open"]
      /\ UNCHANGED <<procVars, req, cut, log, fd, closed, path, missed, rotateVars, faults,
                     crashes>>
  BY DEF TakeSignal
<1>2. /\ listener' \in [at : ListenerSteps, fd : Nat] /\ listener'.at = "open"
      /\ listener'.fd = listener.fd
  BY <1>1 DEF IInv, SinkInv, SinkTyped, ListenerSteps
<1>3. SinkTyped'
  <2>1. notifier' \in BOOLEAN
    BY DEF TakeSignal
  <2>2. QED
    BY <1>1, <1>2, <2>1 DEF IInv, SinkInv, SinkTyped
<1>4. SinkAsMain' /\ FilesOpen' /\ LatestAtPath'
  BY <1>1, <1>2 DEF IInv, SinkInv, SinkAsMain, FilesOpen, LatestAtPath, procVars
<1>5. OpensBounded'
  <2>1. OneDue /\ ~TwoDue'
    BY <1>1 DEF OneDue, TwoDue
  <2>2. hup' = hup /\ log' = log
    BY <1>1 DEF rotateVars
  <2>3. QED
    BY <2>1, <2>2 DEF IInv, SinkInv, OpensBounded
<1>6. QED
  BY <1>1, <1>3, <1>4, <1>5, MainFrame, Counted DEF IInv, SinkInv

\* The listener opens the file, or keeps the old one.
LEMMA ReopenOpenInv == ASSUME IInv, ReopenOpen PROVE IInv'
<1>1. /\ listener.at = "open" /\ (Works \/ Fails)
      /\ UNCHANGED <<procVars, req, cut, fd, closed, notifier, rotateVars, crashes>>
  BY DEF ReopenOpen
<1>2. MainInv' /\ CountsTyped'
  BY <1>1, MainFrame, Counted DEF IInv
<1>3. UNCHANGED <<renames, hup>> /\ Len(log) \in Nat /\ hup \in Nat /\ Len(log) <= hup
  BY <1>1, BoundAssumption
     DEF rotateVars, IInv, SinkInv, SinkTyped, OpensBounded, OneDue, CountsTyped
<1>4. fd # 0 /\ fd \in 1 .. Len(log) /\ closed \subseteq 1 .. Len(log) /\ fd \notin closed
  BY <1>1 DEF IInv, SinkInv, SinkTyped, SinkAsMain, FilesOpen
<1>5. at' = at /\ at \notin {"down", "config", "notify", "open"}
  BY <1>1, <1>4 DEF procVars, IInv, SinkInv, SinkAsMain
<1>6. CASE OpenLog /\ listener' = [at |-> "store", fd |-> Len(log) + 1] /\ missed' = FALSE
  <2>1. SinkTyped'
    <3>1. log' \in Seq(Files) /\ Len(log') = Len(log) + 1 /\ path' \in 0 .. MaxRotates + 1
      BY <1>6, Opening, BoundAssumption DEF Files
    <3>2. listener' \in [at : ListenerSteps, fd : Nat] /\ listener'.fd = Len(log) + 1
      BY <1>3, <1>6 DEF ListenerSteps
    <3>3. notifier' \in BOOLEAN /\ missed' \in BOOLEAN
      BY <1>1, <1>6 DEF IInv, SinkInv, SinkTyped
    <3>4. fd' \in 0 .. Len(log') /\ closed' \subseteq 1 .. Len(log') /\ listener'.fd <= Len(log')
      BY <1>1, <1>3, <1>4, <3>1, <3>2
    <3>5. QED
      BY <3>1, <3>2, <3>3, <3>4 DEF SinkTyped
  <2>2. SinkAsMain'
    BY <1>1, <1>4, <1>5, <1>6 DEF SinkAsMain
  <2>3. FilesOpen'
    BY <1>1, <1>3, <1>4, <1>6 DEF FilesOpen
  <2>4. OpensBounded'
    <3>1. Len(log') = Len(log) + 1
      BY <1>6, Opening
    <3>2. ~TwoDue' /\ (OneDue' => TwoDue)
      BY <1>1, <1>4, <1>6 DEF OneDue, TwoDue
    <3>3. TwoDue => Len(log) + 1 <= hup
      BY DEF IInv, SinkInv, OpensBounded
    <3>4. QED
      BY <1>3, <3>1, <3>2, <3>3 DEF OpensBounded
  <2>5. LatestAtPath'
    BY <1>6, Opening DEF LatestAtPath, Latest
  <2>6. QED
    BY <1>2, <2>1, <2>2, <2>3, <2>4, <2>5 DEF IInv, SinkInv
<1>7. CASE listener' = [at |-> "wait", fd |-> 0] /\ missed' = TRUE /\ UNCHANGED <<log, path>>
  <2>1. SinkTyped'
    <3>1. listener' \in [at : ListenerSteps, fd : Nat] /\ listener'.fd = 0
      BY <1>7 DEF ListenerSteps
    <3>2. missed' \in BOOLEAN /\ listener'.fd <= Len(log')
      BY <1>3, <1>7, <3>1
    <3>3. QED
      BY <1>1, <1>7, <3>1, <3>2 DEF IInv, SinkInv, SinkTyped
  <2>2. SinkAsMain' /\ FilesOpen'
    BY <1>1, <1>4, <1>5, <1>7 DEF SinkAsMain, FilesOpen
  <2>3. OpensBounded'
    <3>1. ~TwoDue' /\ Len(log') = Len(log)
      BY <1>1, <1>4, <1>7 DEF TwoDue
    <3>2. QED
      BY <1>3, <3>1 DEF OpensBounded
  <2>4. LatestAtPath'
    BY <1>7 DEF LatestAtPath
  <2>5. QED
    BY <1>2, <2>1, <2>2, <2>3, <2>4 DEF IInv, SinkInv
<1>8. QED
  BY <1>6, <1>7 DEF ReopenOpen

\* The new file takes the place of the old one.
LEMMA ReopenStoreInv == ASSUME IInv, ReopenStore PROVE IInv'
<1>1. /\ listener.at = "store" /\ fd' = listener.fd /\ listener' = [at |-> "close", fd |-> fd]
      /\ UNCHANGED <<procVars, req, cut, log, closed, path, notifier, missed, rotateVars,
                     faults, crashes>>
  BY DEF ReopenStore
<1>2. MainInv' /\ CountsTyped'
  BY <1>1, MainFrame, Counted DEF IInv
<1>3. /\ fd # 0 /\ fd \in 1 .. Len(log) /\ fd \notin closed
      /\ listener.fd \in 1 .. Len(log) /\ listener.fd \notin closed /\ listener.fd # fd
  BY <1>1 DEF IInv, SinkInv, SinkTyped, SinkAsMain, FilesOpen
<1>4. UNCHANGED <<at, renames, hup>> /\ at \notin {"down", "config", "notify", "open"}
  BY <1>1, <1>3 DEF procVars, rotateVars, IInv, SinkInv, SinkAsMain
<1>5. SinkTyped'
  <2>1. listener' \in [at : ListenerSteps, fd : Nat] /\ listener'.fd = fd
    BY <1>1, <1>3 DEF ListenerSteps, IInv, SinkInv, SinkTyped
  <2>2. fd' \in 0 .. Len(log') /\ listener'.fd <= Len(log')
    BY <1>1, <1>3, <2>1 DEF IInv, SinkInv, SinkTyped
  <2>3. QED
    BY <1>1, <2>1, <2>2 DEF IInv, SinkInv, SinkTyped
<1>6. SinkAsMain' /\ FilesOpen'
  BY <1>1, <1>3, <1>4 DEF SinkAsMain, FilesOpen
<1>7. OpensBounded'
  <2>1. (OneDue' => OneDue) /\ (TwoDue' => TwoDue)
    BY <1>1, <1>3 DEF OneDue, TwoDue
  <2>2. QED
    BY <1>1, <1>4, <2>1 DEF IInv, SinkInv, OpensBounded
<1>8. LatestAtPath'
  BY <1>1, <1>3, <1>4 DEF IInv, SinkInv, LatestAtPath, Latest
<1>9. QED
  BY <1>2, <1>5, <1>6, <1>7, <1>8 DEF IInv, SinkInv

\* The old file is closed.
LEMMA ReopenCloseInv == ASSUME IInv, ReopenClose PROVE IInv'
<1>1. /\ listener.at = "close" /\ closed' = closed \cup {listener.fd}
      /\ listener' = [at |-> "wait", fd |-> 0]
      /\ UNCHANGED <<procVars, req, cut, log, fd, path, notifier, missed, rotateVars, faults,
                     crashes>>
  BY DEF ReopenClose
<1>2. MainInv' /\ CountsTyped'
  BY <1>1, MainFrame, Counted DEF IInv
<1>3. /\ fd # 0 /\ fd \notin closed /\ listener.fd # fd /\ listener.fd \in 1 .. Len(log)
      /\ closed \subseteq 1 .. Len(log) /\ Len(log) \in Nat
  BY <1>1 DEF IInv, SinkInv, SinkTyped, SinkAsMain, FilesOpen
<1>4. UNCHANGED <<at, renames, hup>> /\ at \notin {"down", "config", "notify", "open"}
  BY <1>1, <1>3 DEF procVars, rotateVars, IInv, SinkInv, SinkAsMain
<1>5. SinkTyped'
  <2>1. listener' \in [at : ListenerSteps, fd : Nat] /\ listener'.fd = 0
    BY <1>1 DEF ListenerSteps
  <2>2. closed' \subseteq 1 .. Len(log')
    BY <1>1, <1>3
  <2>3. listener'.fd <= Len(log')
    BY <1>1, <1>3, <2>1
  <2>4. QED
    BY <1>1, <2>1, <2>2, <2>3 DEF IInv, SinkInv, SinkTyped
<1>6. SinkAsMain' /\ FilesOpen'
  BY <1>1, <1>3, <1>4 DEF SinkAsMain, FilesOpen
<1>7. OpensBounded'
  <2>1. (OneDue' => OneDue) /\ (TwoDue' => TwoDue)
    BY <1>1, <1>3 DEF OneDue, TwoDue
  <2>2. QED
    BY <1>1, <1>4, <2>1 DEF IInv, SinkInv, OpensBounded
<1>8. LatestAtPath'
  BY <1>1, <1>3, <1>4 DEF IInv, SinkInv, LatestAtPath, Latest
<1>9. QED
  BY <1>2, <1>5, <1>6, <1>7, <1>8 DEF IInv, SinkInv

\* A state that stays as it is.
LEMMA StutterInv == IInv /\ UNCHANGED vars => IInv'
<1> SUFFICES ASSUME IInv, UNCHANGED vars PROVE IInv'
  OBVIOUS
<1>1. UNCHANGED <<procVars, req, cut, sinkVars, rotateVars, faults, crashes>>
  BY DEF vars, procVars, sinkVars, rotateVars
<1>2. SinkInv'
  BY <1>1, SinkFrame DEF IInv, SinkInv, SinkAsMain, procVars
<1>3. QED
  BY <1>1, <1>2, MainFrame, Counted DEF IInv

-----------------------------------------------------------------------------
(* The theorems *)

\* No step breaks the invariant.
LEMMA StepInv == IInv /\ [Next]_vars => IInv'
<1> SUFFICES ASSUME IInv, [Next]_vars PROVE IInv'
  OBVIOUS
<1>1. CASE MainStep
  BY <1>1, StartInv, StepsInv, newSinkInv, ShutdownCtxInv, SocketInv, ChmodInv,
     ShutdownInv, ShutDownInv
     DEF MainStep
<1>2. CASE GrpcServe \/ StartAgain \/ Terminate \/ Crash
  BY <1>2, GrpcServeInv, StartInv, TerminateInv, CrashInv
<1>3. CASE \E r \in Requests : Accept(r) \/ RequestStep(r)
  BY <1>3, RequestInv
<1>4. CASE Rename \/ Hangup \/ ListenerStep
  BY <1>4, RenameInv, HangupInv, TakeSignalInv, ReopenOpenInv, ReopenStoreInv, ReopenCloseInv
     DEF ListenerStep
<1>5. CASE UNCHANGED vars
  BY <1>5, StutterInv
<1>6. QED
  BY <1>1, <1>2, <1>3, <1>4, <1>5 DEF Next

\* The inductive invariant holds in every reachable state.
THEOREM IInvHolds == Spec => []IInv
BY InitInv, StepInv, PTL DEF Spec

\* The variables keep their types, and a process opens its log no more often than it is
\* told to, for any requests and bounds.
THEOREM TypeCorrect == Spec => []TypeOK
<1>1. IInv => TypeOK
  <2> SUFFICES ASSUME IInv PROVE TypeOK
    OBVIOUS
  <2>1. Len(log) \in 0 .. Opens /\ log \in [1 .. Len(log) -> 1 .. MaxRotates + 1]
    <3>1. log \in Seq(Files) /\ Len(log) \in Nat /\ Len(log) <= hup + 1
      BY DEF IInv, SinkInv, SinkTyped, OpensBounded
    <3>2. hup \in Nat /\ hup <= MaxRotates
      BY BoundAssumption DEF IInv, CountsTyped
    <3>3. Len(log) \in 0 .. Opens
      BY <3>1, <3>2, BoundAssumption DEF Opens
    <3>4. log \in [1 .. Len(log) -> Files]
      BY <3>1
    <3>5. QED
      BY <3>3, <3>4 DEF Files
  <2>2. DOMAIN log = 1 .. Len(log)
    BY DEF IInv, SinkInv, SinkTyped
  <2>3. fd \in {0} \cup DOMAIN log /\ closed \subseteq DOMAIN log
    BY <2>2 DEF IInv, SinkInv, SinkTyped
  <2>4. listener \in [at : {"none", "wait", "open", "store", "close"}, fd : {0} \cup DOMAIN log]
    <3>1. listener.fd \in {0} \cup DOMAIN log
      BY <2>2 DEF IInv, SinkInv, SinkTyped
    <3>2. QED
      BY <3>1 DEF IInv, SinkInv, SinkTyped, ListenerSteps
  <2>5. \E n \in 0 .. Opens : log \in [1 .. n -> 1 .. MaxRotates + 1]
    BY <2>1
  <2>6. /\ at \in Steps /\ exit \in {"none", "clean", "failed"}
        /\ stopped \in BOOLEAN /\ term \in BOOLEAN
        /\ grpc \in {"none", "new", "serves", "stopped", "refused"}
        /\ socket \in {"none", "stale", "live"}
        /\ req \in [Requests -> ReqStates] /\ cut \subseteq Requests
    BY DEF IInv, MainInv, MainTyped
  <2>7. path \in 0 .. MaxRotates + 1 /\ notifier \in BOOLEAN /\ missed \in BOOLEAN
    BY DEF IInv, SinkInv, SinkTyped
  <2>8. /\ renames \in 0 .. MaxRotates /\ hup \in 0 .. renames
        /\ faults \in 0 .. MaxFaults /\ crashes \in 0 .. MaxCrashes
    BY DEF IInv, CountsTyped
  <2>9. QED
    BY <2>3, <2>4, <2>5, <2>6, <2>7, <2>8 DEF TypeOK, ReqStates
<1>2. QED
  BY <1>1, IInvHolds, PTL

\* No rotation is overlooked, for any number of rotations, as fast as they may come.
THEOREM RotationSeen == Spec => []SinkFollowsPath
<1>1. IInv => SinkFollowsPath
  BY DEF IInv, SinkInv, LatestAtPath, Latest, SinkFollowsPath
<1>2. QED
  BY <1>1, IInvHolds, PTL

\* The file that Write finds in the sink is open.
THEOREM FileIsOpen == Spec => []SinkIsOpen
<1>1. IInv => SinkIsOpen
  BY DEF IInv, SinkInv, FilesOpen, SinkIsOpen
<1>2. QED
  BY <1>1, IInvHolds, PTL

\* No end of the process but a crash cuts a request off, for any number of requests.
THEOREM AllAnswered == Spec => []StopAnswersAll
<1>1. IInv => StopAnswersAll
  BY DEF IInv, MainInv, NothingCut, StopAnswersAll
<1>2. QED
  BY <1>1, IInvHolds, PTL
=============================================================================
