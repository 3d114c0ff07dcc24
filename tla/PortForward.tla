----------------------------- MODULE PortForward -----------------------------
(***************************************************************************)
(* Port forwarding: StreamingRuntime.PortForward of streaming.go with      *)
(* podNetNSPath, dialInNetNS, dialFromNetNS and copyPortForward of         *)
(* portforward.go.                                                         *)
(*                                                                         *)
(* A session finds the network namespace of its pod, connects to the pod   *)
(* from an OS thread that it locks, moves into that namespace and brings   *)
(* back, and then copies in both directions with a goroutine for each.     *)
(* Sessions share the threads of the Go runtime.  Every session here is    *)
(* for a pod of its own, and the namespace of that pod has the name of the *)
(* session.                                                                *)
(***************************************************************************)
EXTENDS Naturals

CONSTANTS
  Sessions,    \* port-forward sessions, each with the namespace of its pod
  Host,        \* the network namespace of the host
  NoNet,       \* no namespace
  Threads,     \* OS threads the Go runtime has for them
  NoThread,
  Modes,       \* Modes[s]: the kinds of network the pod of s may have
  MaxData,     \* MaxData[s]: bound on what the pod of s sends
  MaxFaults    \* bound on failing calls

ASSUME NetAssumption == Host \notin Sessions /\ NoNet \notin Sessions \cup {Host}
ASSUME ThreadAssumption == NoThread \notin Threads
ASSUME ModeAssumption == Modes \in [Sessions -> SUBSET {"NODE", "netns", "L3"}]
ASSUME BoundAssumption == MaxData \in [Sessions -> Nat] /\ MaxFaults \in Nat

VARIABLES
  sess,     \* sess[s]: where session s is, and what it holds
  copy,     \* copy[s]: its two copying goroutines and their channels
  ends,     \* ends[s]: the two ends, kubelet and pod
  thread,   \* thread[t]: the namespace thread t is in, and whether it is locked
  names,    \* the pods whose named namespace is in CNI.NetnsDir
  proc,     \* proc[s]: the namespace /proc/<root_pid>/ns/net of the pod leads to
  reused,   \* the pods whose root_pid went to another process
  faults    \* failing calls so far

podVars == <<names, proc, reused>>
vars == <<sess, copy, ends, thread, names, proc, reused, faults>>

Steps == {"idle", "connect", "net", "pid", "open", "enter", "dial", "back", "copy",
          "ended"}
Nets == Sessions \cup {Host}
Channel == {"empty", "nil", "err", "taken"}

TypeOK ==
  /\ sess \in [Sessions -> [at : Steps, mode : {"NODE", "netns", "L3"}, porto : BOOLEAN,
                            path : {"", "name", "pid"}, on : Threads \cup {NoThread},
                            target : Nets \cup {NoNet}, conn : Nets \cup {NoNet}]]
  /\ copy \in [Sessions -> [in : {"off", "copy", "ended"},
                            out : {"off", "copy", "ended"},
                            inCh : Channel, outCh : Channel]]
  /\ ends \in [Sessions -> [client : {"open", "eof", "failed"},
                            pod : {"open", "eof", "reset"}, sent : Nat,
                            got : Nat, result : {"none", "nil", "err"}]]
  /\ thread \in [Threads -> [net : Nets, state : {"free", "locked", "discarded"}]]
  /\ names \subseteq Sessions
  /\ proc \in [Sessions -> Nets \cup {NoNet}]
  /\ reused \subseteq Sessions
  /\ faults \in 0 .. MaxFaults

Init ==
  /\ \E mode \in [Sessions -> UNION {Modes[s] : s \in Sessions}] :
       /\ \A s \in Sessions : mode[s] \in Modes[s]
       /\ sess = [s \in Sessions |->
                    [at |-> "idle", mode |-> mode[s], porto |-> FALSE, path |-> "",
                     on |-> NoThread, target |-> NoNet, conn |-> NoNet]]
  /\ copy = [s \in Sessions |-> [in |-> "off", out |-> "off", inCh |-> "empty",
                                 outCh |-> "empty"]]
  /\ ends = [s \in Sessions |-> [client |-> "open", pod |-> "open",
                                 sent |-> 0, got |-> 0, result |-> "none"]]
  /\ thread = [t \in Threads |-> [net |-> Host, state |-> "free"]]
  /\ names = {s \in Sessions : sess[s].mode = "netns"}
  /\ proc = [s \in Sessions |-> IF sess[s].mode = "NODE" THEN Host ELSE s]
  /\ reused = {}
  /\ faults = 0

-----------------------------------------------------------------------------
Works == UNCHANGED faults
Fails == faults < MaxFaults /\ faults' = faults + 1

Goto(s, step) == sess' = [sess EXCEPT ![s].at = step]

\* PortForward returns an error before it copies; the stream is closed.  The
\* porto connection is closed when there is one.
ReturnError(s) ==
  /\ sess' = [sess EXCEPT ![s].at = "ended", ![s].porto = FALSE]
  /\ ends' = [ends EXCEPT ![s].result = "err"]

-----------------------------------------------------------------------------
(* The namespace of the pod *)

PortForward(s) ==
  /\ sess[s].at = "idle"
  /\ Goto(s, "connect")
  /\ UNCHANGED <<copy, ends, thread, podVars, faults>>

\* portoClientContext.
Connect(s) ==
  /\ sess[s].at = "connect"
  /\ \/ /\ Works
        /\ sess' = [sess EXCEPT ![s].at = "net", ![s].porto = TRUE]
        /\ UNCHANGED ends
     \/ Fails /\ ReturnError(s)
  /\ UNCHANGED <<copy, thread, podVars>>

\* What podNetNSPath returns is used after the porto connection is closed.
Resolved(s, path) ==
  sess' = [sess EXCEPT ![s].path = path, ![s].porto = FALSE,
                       ![s].at = IF path = "" THEN "dial" ELSE "open"]

\* podNetNSPath: the net property names a namespace, or none, or porto's L3.
GetNet(s) ==
  /\ sess[s].at = "net"
  /\ \/ /\ Works
        /\ CASE sess[s].mode = "NODE" -> Resolved(s, "")
             [] sess[s].mode = "netns" -> Resolved(s, "name")
             [] sess[s].mode = "L3" -> Goto(s, "pid")
        /\ UNCHANGED ends
     \/ Fails /\ ReturnError(s)
  /\ UNCHANGED <<copy, thread, podVars>>

\* A task of the pod, its own or that of a container, has the namespace.
GetRootPid(s) ==
  /\ sess[s].at = "pid"
  /\ \/ Works /\ proc[s] = s /\ Resolved(s, "pid") /\ UNCHANGED ends
     \/ Works /\ proc[s] # s /\ ReturnError(s)
     \/ Fails /\ ReturnError(s)
  /\ UNCHANGED <<copy, thread, podVars>>

-----------------------------------------------------------------------------
(* The dial *)

\* Where the path leads now.
Behind(s) ==
  CASE sess[s].path = "name" -> IF s \in names THEN s ELSE NoNet
    [] sess[s].path = "pid" -> proc[s]
    [] OTHER -> Host

\* The goroutine locks a thread and opens both namespaces; on an error the
\* thread, which has not moved, is unlocked.
OpenNetNS(s) ==
  /\ sess[s].at = "open"
  /\ \/ /\ Works /\ Behind(s) # NoNet
        /\ \E t \in Threads :
             /\ thread[t].state = "free"
             /\ thread' = [thread EXCEPT ![t].state = "locked"]
             /\ sess' = [sess EXCEPT ![s].at = "enter", ![s].on = t,
                                     ![s].target = Behind(s)]
        /\ UNCHANGED ends
     \/ Works /\ Behind(s) = NoNet /\ ReturnError(s) /\ UNCHANGED thread
     \/ Fails /\ ReturnError(s) /\ UNCHANGED thread
  /\ UNCHANGED <<copy, podVars>>

\* setns into the pod.
Enter(s) ==
  LET t == sess[s].on IN
  /\ sess[s].at = "enter"
  /\ \/ /\ Works /\ Goto(s, "dial")
        /\ thread' = [thread EXCEPT ![t].net = sess[s].target]
        /\ UNCHANGED ends
     \/ /\ Fails
        /\ sess' = [sess EXCEPT ![s].at = "ended", ![s].on = NoThread]
        /\ ends' = [ends EXCEPT ![s].result = "err"]
        /\ thread' = [thread EXCEPT ![t].state = "free"]
  /\ UNCHANGED <<copy, podVars>>

\* Mutant: the connection is made before the thread has moved.
DialedFromHost(s) == Host

\* A socket belongs to the namespace of the thread that makes it.
DialedFrom(s) == IF sess[s].on = NoThread THEN Host ELSE thread[sess[s].on].net

\* The goroutines that copy start.
StartCopy(s) == copy' = [copy EXCEPT ![s].in = "copy", ![s].out = "copy"]

\* Dial to 127.0.0.1, then to ::1.
Dial(s) ==
  /\ sess[s].at = "dial"
  /\ IF sess[s].on = NoThread
       THEN \/ /\ Works /\ StartCopy(s) /\ UNCHANGED ends
               /\ sess' = [sess EXCEPT ![s].at = "copy", ![s].conn = DialedFrom(s)]
            \/ Fails /\ ReturnError(s) /\ UNCHANGED copy
       ELSE /\ \/ Works /\ sess' = [sess EXCEPT ![s].at = "back",
                                                ![s].conn = DialedFrom(s)]
               \/ Fails /\ Goto(s, "back")
            /\ UNCHANGED <<copy, ends>>
  /\ UNCHANGED <<thread, podVars>>

\* Mutant: the thread is unlocked whether or not it is back.
BackUnlocks(s) ==
  LET t == sess[s].on
      Failed == /\ sess' = [sess EXCEPT ![s].at = "ended", ![s].on = NoThread,
                                        ![s].conn = NoNet]
                /\ ends' = [ends EXCEPT ![s].result = "err"]
                /\ UNCHANGED copy
  IN
  /\ sess[s].at = "back"
  /\ \/ /\ Works
        /\ thread' = [thread EXCEPT ![t] = [net |-> Host, state |-> "free"]]
        /\ IF sess[s].conn = NoNet
             THEN Failed
             ELSE /\ sess' = [sess EXCEPT ![s].at = "copy", ![s].on = NoThread]
                  /\ StartCopy(s) /\ UNCHANGED ends
     \/ /\ Fails /\ Failed
        /\ thread' = [thread EXCEPT ![t].state = "free"]
  /\ UNCHANGED podVars

\* setns back to the namespace the thread came from.  If that works the thread is
\* unlocked; if not the connection is closed, and the thread ends, locked, with
\* the goroutine.
Back(s) ==
  LET t == sess[s].on
      Failed == /\ sess' = [sess EXCEPT ![s].at = "ended", ![s].on = NoThread,
                                        ![s].conn = NoNet]
                /\ ends' = [ends EXCEPT ![s].result = "err"]
                /\ UNCHANGED copy
  IN
  /\ sess[s].at = "back"
  /\ \/ /\ Works
        /\ thread' = [thread EXCEPT ![t] = [net |-> Host, state |-> "free"]]
        /\ IF sess[s].conn = NoNet
             THEN Failed
             ELSE /\ sess' = [sess EXCEPT ![s].at = "copy", ![s].on = NoThread]
                  /\ StartCopy(s) /\ UNCHANGED ends
     \/ /\ Fails /\ Failed
        /\ thread' = [thread EXCEPT ![t].state = "discarded"]
  /\ UNCHANGED podVars

-----------------------------------------------------------------------------
(* copyPortForward *)

\* The session has returned, so that connection and stream are closed.
Closed(s) == sess[s].at = "ended"

\* A goroutine leaves its error in its channel, which has room for it, and ends.
EndIn(s, err) == copy' = [copy EXCEPT ![s].in = "ended", ![s].inCh = err]
EndOut(s, err) == copy' = [copy EXCEPT ![s].out = "ended", ![s].outCh = err]

\* Mutant: the channel has no room, and the goroutine waits for the select.
InEndsMeets(s) ==
  /\ copy[s].in = "copy" /\ sess[s].at = "copy"
  /\ \/ ends[s].client = "eof" /\ EndIn(s, "nil")
     \/ ends[s].client = "failed" /\ EndIn(s, "err")
  /\ UNCHANGED <<sess, ends, thread, podVars, faults>>

\* io.Copy(conn, stream) ends: the client has sent all, or the stream failed.
\* CloseWrite shows the pod an EOF; the connection still carries its answer.
\* Nothing else ends a read of the stream: to close it only sends a FIN the other
\* way.
InEnds(s) ==
  /\ copy[s].in = "copy"
  /\ \/ ends[s].client = "eof" /\ EndIn(s, "nil")
     \/ ends[s].client = "failed" /\ EndIn(s, "err")
  /\ UNCHANGED <<sess, ends, thread, podVars, faults>>

\* It ends with an error when there is data of the client that the connection no
\* longer takes.
InFails(s) ==
  /\ copy[s].in = "copy"
  /\ ends[s].pod = "reset" \/ Closed(s)
  /\ EndIn(s, "err")
  /\ UNCHANGED <<sess, ends, thread, podVars, faults>>

\* io.Copy(stream, conn) passes on what the pod sent.
OutCopies(s) ==
  /\ copy[s].out = "copy" /\ ~Closed(s)
  /\ ends[s].got < ends[s].sent /\ ends[s].client # "failed"
  /\ ends' = [ends EXCEPT ![s].got = @ + 1]
  /\ UNCHANGED <<sess, copy, thread, podVars, faults>>

\* io.Copy(stream, conn) ends: at the EOF of the pod, behind all its data, or
\* with an error of either side.
OutEnds(s) ==
  /\ copy[s].out = "copy"
  /\ \/ /\ ends[s].pod = "eof" /\ ends[s].got = ends[s].sent /\ ~Closed(s)
        /\ EndOut(s, "nil")
     \/ /\ \/ ends[s].pod = "reset" \/ Closed(s)
           \/ ends[s].client = "failed" /\ ends[s].got < ends[s].sent
        /\ EndOut(s, "err")
  /\ UNCHANGED <<sess, ends, thread, podVars, faults>>

\* The session returns, and closes connection and stream.
Return(s, result) ==
  /\ sess' = [sess EXCEPT ![s].at = "ended"]
  /\ ends' = [ends EXCEPT ![s].result = result]

\* Mutant: the session waits for both directions.
SelectOutWaits(s) ==
  /\ sess[s].at = "copy" /\ copy[s].outCh \in {"nil", "err"} /\ copy[s].inCh = "taken"
  /\ copy' = [copy EXCEPT ![s].outCh = "taken"]
  /\ Return(s, copy[s].outCh)
  /\ UNCHANGED <<thread, podVars, faults>>

\* The pod has closed its side, or an error ended that direction.
SelectOut(s) ==
  /\ sess[s].at = "copy" /\ copy[s].outCh \in {"nil", "err"}
  /\ copy' = [copy EXCEPT ![s].outCh = "taken"]
  /\ Return(s, copy[s].outCh)
  /\ UNCHANGED <<thread, podVars, faults>>

\* Mutant: the session returns when the client has finished sending.
SelectInReturns(s) ==
  /\ sess[s].at = "copy" /\ copy[s].inCh \in {"nil", "err"}
  /\ copy' = [copy EXCEPT ![s].inCh = "taken"]
  /\ Return(s, copy[s].inCh)
  /\ UNCHANGED <<thread, podVars, faults>>

\* The client has finished sending: the channel is dropped from the select and
\* the other direction goes on.
SelectIn(s) ==
  /\ sess[s].at = "copy" /\ copy[s].inCh \in {"nil", "err"}
  /\ copy' = [copy EXCEPT ![s].inCh = "taken"]
  /\ IF copy[s].inCh = "err" THEN Return(s, "err") ELSE UNCHANGED <<sess, ends>>
  /\ UNCHANGED <<thread, podVars, faults>>

\* The context of the request is done.
SelectDone(s) ==
  /\ sess[s].at = "copy"
  /\ Return(s, "err")
  /\ UNCHANGED <<copy, thread, podVars, faults>>

-----------------------------------------------------------------------------
(* The two ends, and the pods *)

\* The client has sent all it had, or the stream breaks, also after the session.
ClientEnds(s) ==
  /\ copy[s].in # "off" /\ ends[s].client = "open"
  /\ \E e \in {"eof", "failed"} : ends' = [ends EXCEPT ![s].client = e]
  /\ UNCHANGED <<sess, copy, thread, podVars, faults>>

\* The pod sends, also after the client has finished.
PodSends(s) ==
  /\ sess[s].at = "copy" /\ ends[s].pod = "open" /\ ends[s].sent < MaxData[s]
  /\ ends' = [ends EXCEPT ![s].sent = @ + 1]
  /\ UNCHANGED <<sess, copy, thread, podVars, faults>>

\* The pod closes its side, or the connection is reset.
PodEnds(s) ==
  /\ sess[s].at = "copy" /\ ends[s].pod = "open"
  /\ \E e \in {"eof", "reset"} : ends' = [ends EXCEPT ![s].pod = e]
  /\ UNCHANGED <<sess, copy, thread, podVars, faults>>

\* The pod of s is removed: its namespace loses its name, its task ends.
PodRemoved(s) ==
  /\ sess[s].mode # "NODE" /\ sess[s].at \in {"net", "pid", "open"}
  /\ proc[s] = s
  /\ names' = names \ {s}
  /\ proc' = [proc EXCEPT ![s] = NoNet]
  /\ UNCHANGED <<sess, copy, ends, thread, reused, faults>>

\* The process id goes to a process of another namespace.
PidReused(s) ==
  /\ sess[s].path = "pid" /\ sess[s].at = "open"
  /\ proc[s] = NoNet
  /\ \E n \in Nets \ {s} : proc' = [proc EXCEPT ![s] = n]
  /\ reused' = reused \cup {s}
  /\ UNCHANGED <<sess, copy, ends, thread, names, faults>>

-----------------------------------------------------------------------------
DialStep(s) ==
  \/ Connect(s) \/ GetNet(s) \/ GetRootPid(s) \/ OpenNetNS(s) \/ Enter(s) \/ Dial(s)
  \/ Back(s)

OutStep(s) == OutCopies(s) \/ OutEnds(s)

SelectStep(s) == SelectOut(s) \/ SelectIn(s)

Next ==
  \E s \in Sessions :
    \/ PortForward(s) \/ DialStep(s) \/ InEnds(s) \/ InFails(s) \/ OutStep(s)
    \/ SelectStep(s) \/ SelectDone(s) \/ ClientEnds(s) \/ PodSends(s) \/ PodEnds(s)
    \/ PodRemoved(s) \/ PidReused(s)

\* Goroutines make progress.  Neither end ever has to send or to close, and the
\* client takes what the pod sends.
Fairness ==
  \A s \in Sessions :
    /\ WF_vars(Works /\ DialStep(s)) /\ WF_vars(Works /\ SelectStep(s))
    /\ WF_vars(Works /\ InEnds(s)) /\ WF_vars(Works /\ OutStep(s))

Spec == Init /\ [][Next]_vars /\ Fairness

-----------------------------------------------------------------------------
(* Properties *)

\* A thread that other goroutines can run on is in the namespace of the host: one
\* that could not be brought back never returns to the pool (portforward.go:89).
FreeThreadsAtHome ==
  \A t \in Threads : thread[t].state = "free" => thread[t].net = Host

\* A connection is in the namespace of the session's pod, whatever other sessions
\* do on the same threads and whatever happens to the pod meanwhile, except that
\* the root_pid of an L3 pod may by then be another process.
ConnInPod ==
  \A s \in Sessions : sess[s].conn # NoNet /\ s \notin reused =>
    sess[s].conn = IF sess[s].mode = "NODE" THEN Host ELSE s

\* A session that returns success has passed on all the pod sent: the end of the
\* client's data does not end it (the half-close at portforward.go:146).
ResponseDelivered ==
  \A s \in Sessions : sess[s].at = "ended" /\ ends[s].result = "nil" =>
    ends[s].pod = "eof" /\ ends[s].got = ends[s].sent

\* A session leaves nothing behind: its thread is released, its porto connection
\* is closed, and its goroutines end although nobody may receive from them, the
\* one that reads from the client as soon as the client has ended too.  With a
\* client that keeps its stream open and sends nothing that one stays.
NothingLeft ==
  \A s \in Sessions :
    /\ sess[s].at = "ended" ~>
         copy[s].out \in {"off", "ended"} /\ ~sess[s].porto /\ sess[s].on = NoThread
    /\ sess[s].at = "ended" /\ ends[s].client # "open" ~> copy[s].in \in {"off", "ended"}

\* A session ends when the pod closes its side.
PodEndsSession ==
  \A s \in Sessions :
    sess[s].at = "copy" /\ ends[s].pod # "open" ~> sess[s].at = "ended"
=============================================================================
