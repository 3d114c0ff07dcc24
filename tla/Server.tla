------------------------------- MODULE Server -------------------------------
(***************************************************************************)
(* The portoshim process: start-up (main.go, config.go, server.go),        *)
(* the requests it serves and its shutdown (server.go), and its log file,  *)
(* which logrotate renames before it sends SIGHUP (logger.go).             *)
(*                                                                         *)
(* The service manager runs one instance and starts it again when it has   *)
(* failed, which an exit with status 0 and death by SIGHUP or SIGTERM are  *)
(* not.  A descriptor is an open of the log file; renaming the file does   *)
(* not change what a descriptor leads to.                                  *)
(***************************************************************************)
EXTENDS Naturals, Sequences

CONSTANTS
  Requests,   \* requests of the kubelet, each of which logs one line
  MaxRotates, \* bound on rotations
  MaxFaults,  \* bound on failing calls
  MaxCrashes  \* bound on crashes

ASSUME BoundAssumption == MaxRotates \in Nat /\ MaxFaults \in Nat /\ MaxCrashes \in Nat

VARIABLES
  at,       \* where main is
  exit,     \* how the process ended last
  stopped,  \* the service manager has been told to stop portoshim
  term,     \* SIGTERM has come, and server.ctx is done
  grpc,     \* the goroutine of Serve with the gRPC server
  socket,   \* what is at the path of the socket
  req,      \* req[r]: the request, and the descriptor its line goes to
  cut,      \* requests that were under way when the process ended, without a crash
  log,      \* log[d]: the file that descriptor d of the process leads to
  fd,       \* the descriptor in sink.file
  closed,   \* the descriptors closed
  path,     \* the file at the path of the log, 0 when there is none
  renames,  \* rotations so far, of which the last may not have sent SIGHUP yet
  hup,      \* rotations that have sent SIGHUP
  notifier, \* a signal is in the channel of the sink
  listener, \* where listenToSignal is, and the descriptor it handles
  missed,   \* the last reopen failed
  faults,   \* failing calls so far
  crashes   \* crashes so far

procVars == <<at, exit, stopped, term, grpc, socket>>
sinkVars == <<log, fd, closed, path, notifier, listener, missed>>
rotateVars == <<renames, hup>>
vars == <<at, exit, stopped, term, grpc, socket, req, cut, log, fd, closed, path, renames,
          hup, notifier, listener, missed, faults, crashes>>

Steps == {"down", "config", "notify", "open", "registries", "term", "mapper", "socket",
          "listen", "chmod", "serve", "stopping"}
Opens == 1 + MaxRotates        \* a process opens the file once, and once for every signal
Descriptors == 0 .. Opens      \* 0: none

TypeOK ==
  /\ at \in Steps
  /\ exit \in {"none", "clean", "failed"}
  /\ stopped \in BOOLEAN /\ term \in BOOLEAN
  /\ grpc \in {"none", "new", "serves", "stopped", "refused"}
  /\ socket \in {"none", "stale", "live"}
  /\ req \in [Requests -> [at : {"idle", "dial", "log", "write", "handler"}, fd : Descriptors]]
  /\ cut \subseteq Requests
  /\ \E n \in 0 .. Opens : log \in [1 .. n -> 1 .. MaxRotates + 1]
  /\ fd \in {0} \cup DOMAIN log
  /\ closed \subseteq DOMAIN log
  /\ path \in 0 .. MaxRotates + 1
  /\ renames \in 0 .. MaxRotates /\ hup \in 0 .. renames
  /\ notifier \in BOOLEAN
  /\ listener \in [at : {"none", "wait", "open", "store", "close"}, fd : {0} \cup DOMAIN log]
  /\ missed \in BOOLEAN
  /\ faults \in 0 .. MaxFaults /\ crashes \in 0 .. MaxCrashes

Init ==
  /\ at = "down" /\ exit = "none"
  /\ stopped = FALSE /\ term = FALSE
  /\ grpc = "none"
  /\ socket \in {"none", "stale"}
  /\ req = [r \in Requests |-> [at |-> "idle", fd |-> 0]]
  /\ cut = {}
  /\ log = << >> /\ fd = 0 /\ closed = {} /\ path = 0
  /\ renames = 0 /\ hup = 0
  /\ notifier = FALSE
  /\ listener = [at |-> "none", fd |-> 0]
  /\ missed = FALSE
  /\ faults = 0 /\ crashes = 0

-----------------------------------------------------------------------------
Works == UNCHANGED faults
Fails == faults < MaxFaults /\ faults' = faults + 1

\* The descriptors of a process end with it, and so do its goroutines.
ForgetFiles ==
  /\ log' = << >> /\ fd' = 0 /\ closed' = {}
  /\ notifier' = FALSE
  /\ listener' = [at |-> "none", fd |-> 0]
  /\ missed' = FALSE
  /\ UNCHANGED path

\* The requests that are under way.
Pending == {r \in Requests : req[r].at # "idle"}

\* The process ends, and cuts the lost requests off.  A listening socket stays behind
\* at its path, unless the listener has been closed.
End(status, lost) ==
  /\ at' = "down"
  /\ exit' = status
  /\ term' = FALSE
  /\ grpc' = "none"
  /\ socket' = IF socket = "live" THEN "stale" ELSE socket
  /\ req' = [r \in Requests |-> [at |-> "idle", fd |-> 0]]
  /\ cut' = cut \cup lost
  /\ ForgetFiles
  /\ UNCHANGED stopped

\* One step of the start, which goes on, or ends the process with the given status.
Step(from, to, status) ==
  /\ at = from
  /\ \/ /\ Works
        /\ at' = to
        /\ UNCHANGED <<exit, stopped, term, grpc, socket, req, cut, sinkVars>>
     \/ Fails /\ End(status, Pending)
  /\ UNCHANGED <<rotateVars, crashes>>

-----------------------------------------------------------------------------
(* Start *)

\* The service manager.
Start ==
  /\ at = "down"
  /\ ~stopped
  /\ exit # "clean"
  /\ at' = "config"
  /\ UNCHANGED <<exit, stopped, term, grpc, socket, req, cut, sinkVars, rotateVars, faults, crashes>>

\* The administrator.
StartAgain ==
  /\ at = "down"
  /\ stopped \/ exit = "clean"
  /\ stopped' = FALSE
  /\ at' = "config"
  /\ UNCHANGED <<exit, term, grpc, socket, req, cut, sinkVars, rotateVars, faults, crashes>>

\* main returns when this fails, with status 0.
InitConfig == Step("config", "notify", "clean")

\* InitLogger: the directory of the logs, and signal.Notify in newSink.
InitLogger == Step("notify", "open", "clean")

\* The file at the path of the log, made when there is none.
Opened == IF path = 0 THEN renames + 1 ELSE path
OpenLog == log' = Append(log, Opened) /\ path' = Opened

\* newSink opens the file and starts to listen.
newSink ==
  /\ at = "open"
  /\ \/ /\ Works
        /\ OpenLog
        /\ fd' = Len(log) + 1
        /\ listener' = [at |-> "wait", fd |-> 0]
        /\ at' = "registries"
        /\ UNCHANGED <<exit, stopped, term, grpc, socket, req, cut, closed, notifier, missed>>
     \/ Fails /\ End("clean", Pending)
  /\ UNCHANGED <<rotateVars, crashes>>

\* From here on a failure is fatal: exit with status 1.
InitKnownRegistries == Step("registries", "term", "failed")

\* NewPortoshimServer: ShutdownCtx, then NewPortoshimRuntimeMapper and VolumesDir.
ShutdownCtx ==
  /\ at = "term"
  /\ at' = "mapper"
  /\ UNCHANGED <<exit, stopped, term, grpc, socket, req, cut, sinkVars, rotateVars, faults, crashes>>

NewPortoshimRuntimeMapper == Step("mapper", "socket", "failed")

\* Mutant: the socket of an earlier run is left where it is.
unlinkStaleSocketNot == Step("socket", "listen", "failed")

unlinkStaleSocket ==
  /\ at = "socket"
  /\ \/ /\ Works
        /\ socket' = "none"
        /\ at' = "listen"
        /\ UNCHANGED <<exit, stopped, term, grpc, req, cut, sinkVars>>
     \/ Fails /\ End("failed", Pending)
  /\ UNCHANGED <<rotateVars, crashes>>

\* net.Listen; a path that is in use is an error.
Listen ==
  /\ at = "listen"
  /\ \/ /\ Works
        /\ socket = "none"
        /\ socket' = "live"
        /\ at' = "chmod"
        /\ UNCHANGED <<exit, stopped, term, grpc, req, cut, sinkVars>>
     \/ (IF socket = "none" THEN Fails ELSE Works) /\ End("failed", Pending)
  /\ UNCHANGED <<rotateVars, crashes>>

Chmod ==
  /\ at = "chmod"
  /\ \/ /\ Works
        /\ at' = "serve"
        /\ grpc' = "new"
        /\ UNCHANGED <<exit, stopped, term, socket, req, cut, sinkVars>>
     \/ Fails /\ End("failed", Pending)
  /\ UNCHANGED <<rotateVars, crashes>>

-----------------------------------------------------------------------------
(* Serve and Shutdown *)

\* The goroutine of Serve.  Serve of a gRPC server that is already stopped closes the
\* listener and is an error, and that is fatal.
GrpcServe ==
  /\ \/ /\ grpc = "new"
        /\ grpc' = "serves"
        /\ UNCHANGED <<at, exit, stopped, term, socket, req, cut, sinkVars>>
     \/ /\ grpc = "stopped" /\ socket = "live"
        /\ grpc' = "refused"
        /\ socket' = "none"
        /\ UNCHANGED <<at, exit, stopped, term, req, cut, sinkVars>>
     \/ grpc = "refused" /\ End("failed", Pending)
  /\ UNCHANGED <<rotateVars, faults, crashes>>

\* GracefulStop closes the listener of a server that serves, which removes the
\* socket, and accepts nothing more.
Shutdown ==
  /\ at = "serve"
  /\ term
  /\ at' = "stopping"
  /\ grpc' = "stopped"
  /\ socket' = IF grpc = "serves" THEN "none" ELSE socket
  /\ UNCHANGED <<exit, stopped, term, req, cut, sinkVars, rotateVars, faults, crashes>>

\* Mutant: Stop in place of GracefulStop.
DrainedAtOnce == TRUE

\* GracefulStop waits for the requests.
Drained == Pending = {}

ShutDown ==
  /\ at = "stopping"
  /\ Drained
  /\ End("clean", Pending)
  /\ UNCHANGED <<rotateVars, faults, crashes>>

\* SIGTERM ends the process before ShutdownCtx has asked for it.
Terminate ==
  /\ at # "down"
  /\ ~stopped
  /\ \/ /\ at \in {"config", "notify", "open", "registries", "term"}
        /\ cut' = cut \cup Pending
        /\ at' = "down" /\ exit' = "clean" /\ stopped' = TRUE
        /\ ForgetFiles
        /\ UNCHANGED <<term, grpc, socket, req>>
     \/ /\ at \notin {"config", "notify", "open", "registries", "term"}
        /\ stopped' = TRUE
        /\ term' = TRUE
        /\ UNCHANGED <<at, exit, grpc, socket, req, cut, sinkVars>>
  /\ UNCHANGED <<rotateVars, faults, crashes>>

Crash ==
  /\ crashes < MaxCrashes
  /\ crashes' = crashes + 1
  /\ at # "down"
  /\ End("failed", {})
  /\ UNCHANGED <<rotateVars, faults>>

-----------------------------------------------------------------------------
(* Requests *)

\* Mutant: requests are accepted during the stop.
AcceptAlways(r) ==
  /\ grpc \in {"serves", "stopped"}
  /\ req[r].at = "idle"
  /\ req' = [req EXCEPT ![r].at = "dial"]
  /\ UNCHANGED <<procVars, cut, sinkVars, rotateVars, faults, crashes>>

Accept(r) ==
  /\ grpc = "serves"
  /\ req[r].at = "idle"
  /\ req' = [req EXCEPT ![r].at = "dial"]
  /\ UNCHANGED <<procVars, cut, sinkVars, rotateVars, faults, crashes>>

\* serverInterceptor connects to portod, or answers with an error.
Dial(r) ==
  /\ req[r].at = "dial"
  /\ \/ Works /\ req' = [req EXCEPT ![r].at = "log"]
     \/ Fails /\ req' = [req EXCEPT ![r].at = "idle"]
  /\ UNCHANGED <<procVars, cut, sinkVars, rotateVars, crashes>>

\* sink.Write loads the file, and then writes to it.
LoadFile(r) ==
  /\ req[r].at = "log"
  /\ req' = [req EXCEPT ![r].at = "write", ![r].fd = fd]
  /\ UNCHANGED <<procVars, cut, sinkVars, rotateVars, faults, crashes>>

\* The line is lost when the file has been closed meanwhile.
WriteFile(r) ==
  /\ req[r].at = "write"
  /\ req' = [req EXCEPT ![r].at = "handler", ![r].fd = 0]
  /\ UNCHANGED <<procVars, cut, sinkVars, rotateVars, faults, crashes>>

\* The handler ends, and the answer leaves.
Answer(r) ==
  /\ req[r].at = "handler"
  /\ req' = [req EXCEPT ![r].at = "idle"]
  /\ UNCHANGED <<procVars, cut, sinkVars, rotateVars, faults, crashes>>

-----------------------------------------------------------------------------
(* Rotation *)

\* logrotate renames the file.
Rename ==
  /\ renames < MaxRotates
  /\ hup = renames
  /\ path # 0
  /\ path' = 0
  /\ renames' = renames + 1
  /\ UNCHANGED <<procVars, req, cut, log, fd, closed, notifier, listener, missed, hup, faults, crashes>>

\* Mutant: a signal finds no room while the sink is busy.
ChannelTakesWaiting == listener.at = "wait"

\* The channel of the sink holds one signal.
ChannelTakes == TRUE

\* Then it sends SIGHUP, which ends a process that does not expect it yet.
Hangup ==
  /\ hup < renames
  /\ hup' = renames
  /\ \/ /\ at \in {"config", "notify"}
        /\ End("clean", Pending)
     \/ /\ at \notin {"config", "notify", "down"}
        /\ notifier' = (notifier \/ ChannelTakes)
        /\ UNCHANGED <<procVars, req, cut, log, fd, closed, path, listener, missed>>
     \/ at = "down" /\ UNCHANGED <<procVars, req, cut, sinkVars>>
  /\ UNCHANGED <<renames, faults, crashes>>

\* listenToSignal.
TakeSignal ==
  /\ listener.at = "wait"
  /\ notifier
  /\ notifier' = FALSE
  /\ listener' = [listener EXCEPT !.at = "open"]
  /\ UNCHANGED <<procVars, req, cut, log, fd, closed, path, missed, rotateVars, faults, crashes>>

\* reopen opens the file; when it fails the old one stays.
ReopenOpen ==
  /\ listener.at = "open"
  /\ \/ /\ Works
        /\ OpenLog
        /\ listener' = [at |-> "store", fd |-> Len(log) + 1]
        /\ missed' = FALSE
     \/ /\ Fails
        /\ listener' = [at |-> "wait", fd |-> 0]
        /\ missed' = TRUE
        /\ UNCHANGED <<log, path>>
  /\ UNCHANGED <<procVars, req, cut, fd, closed, notifier, rotateVars, crashes>>

\* Mutant: the old file is read from the sink after the new one is in it.
ReopenStoreFirst ==
  /\ listener.at = "store"
  /\ fd' = listener.fd
  /\ listener' = [listener EXCEPT !.at = "close"]
  /\ UNCHANGED <<procVars, req, cut, log, closed, path, notifier, missed, rotateVars, faults, crashes>>

\* Then it takes the place of the old one, which is closed.
ReopenStore ==
  /\ listener.at = "store"
  /\ fd' = listener.fd
  /\ listener' = [at |-> "close", fd |-> fd]
  /\ UNCHANGED <<procVars, req, cut, log, closed, path, notifier, missed, rotateVars, faults, crashes>>

ReopenClose ==
  /\ listener.at = "close"
  /\ closed' = closed \cup {listener.fd}
  /\ listener' = [at |-> "wait", fd |-> 0]
  /\ UNCHANGED <<procVars, req, cut, log, fd, path, notifier, missed, rotateVars, faults, crashes>>

-----------------------------------------------------------------------------
MainStep ==
  \/ Start \/ InitConfig \/ InitLogger \/ newSink \/ InitKnownRegistries \/ ShutdownCtx
  \/ NewPortoshimRuntimeMapper \/ unlinkStaleSocket \/ Listen \/ Chmod \/ Shutdown \/ ShutDown

RequestStep(r) == Dial(r) \/ LoadFile(r) \/ WriteFile(r) \/ Answer(r)
ListenerStep == TakeSignal \/ ReopenOpen \/ ReopenStore \/ ReopenClose

Next ==
  \/ MainStep \/ GrpcServe
  \/ StartAgain \/ Terminate \/ Crash
  \/ \E r \in Requests : Accept(r) \/ RequestStep(r)
  \/ Rename \/ Hangup \/ ListenerStep

\* The service manager starts a failed service again, goroutines run, and a handler
\* ends.  Nothing makes a call fail, logrotate run or the kubelet ask.
Fairness ==
  /\ WF_vars(Works /\ MainStep) /\ WF_vars(GrpcServe)
  /\ \A r \in Requests : WF_vars(Works /\ RequestStep(r))
  /\ WF_vars(Works /\ ListenerStep)

Spec == Init /\ [][Next]_vars
LiveSpec == Spec /\ Fairness

-----------------------------------------------------------------------------
(* Properties *)

\* A rotation is never overlooked: when its SIGHUP has been sent and the sink has
\* nothing left to do, lines go to the file at the path, also when signals come
\* faster than the sink reopens, unless a reopen failed.
SinkFollowsPath ==
  fd # 0 /\ hup = renames /\ ~notifier /\ listener.at = "wait" /\ ~missed => log[fd] = path

\* A line is written to an open file if it is not overtaken by a reopen: the file
\* that Write finds in the sink is open.
SinkIsOpen == fd # 0 => fd \notin closed

\* Whatever ends the process, a stop, a signal, a start that fails or a Serve that is
\* refused, it has answered all it has accepted; only a crash cuts requests off.
StopAnswersAll == cut = {}

\* portoshim serves again after a crash or a start that failed, whatever the last run
\* left behind, unless it was told to stop, or ended in a way that the service manager
\* takes for success.
ServesAgain == []<>(grpc = "serves" \/ stopped \/ (at = "down" /\ exit = "clean"))

\* A stop on request comes to an end, requests and rotations under way or not.
StopEnds == stopped ~> (at = "down" \/ ~stopped)
=============================================================================
