-------------------------- MODULE PortForwardProofs --------------------------
(***************************************************************************)
(* Proofs about PortForward, for any sessions, threads, kinds of network   *)
(* and bounds: threads come home, connections are in the namespace of      *)
(* their pod, and success means that the whole answer was passed on.       *)
(***************************************************************************)
EXTENDS PortForward, TLAPS

-----------------------------------------------------------------------------
(* The inductive invariant *)

SessStates == [at : Steps, mode : {"NODE", "netns", "L3"}, porto : BOOLEAN,
               path : {"", "name", "pid"}, on : Threads \cup {NoThread},
               target : Nets \cup {NoNet}, conn : Nets \cup {NoNet}]
CopyStates == [in : {"off", "copy", "ended"}, out : {"off", "copy", "ended"},
               inCh : Channel, outCh : Channel]
EndStates == [client : {"open", "eof", "failed"}, pod : {"open", "eof", "reset"}, sent : Nat,
              got : Nat, result : {"none", "nil", "err"}]
ThreadStates == [net : Nets, state : {"free", "locked", "discarded"}]

\* The path says what kind of network the pod has, once it has been found.
PathOfMode(s) ==
  /\ sess[s].path = "name" => sess[s].mode = "netns"
  /\ sess[s].path = "pid" => sess[s].mode = "L3"
  /\ sess[s].at = "pid" => sess[s].mode = "L3"
  /\ sess[s].at = "open" => sess[s].path # ""
  /\ sess[s].at = "dial" /\ sess[s].on = NoThread => sess[s].mode = "NODE"

\* A session holds a thread from OpenNetNS to Back, which is the time it is locked, and
\* knows where it is.
HoldsThread(s) ==
  /\ sess[s].at \in {"enter", "back"} => sess[s].on # NoThread
  /\ sess[s].on # NoThread =>
       /\ sess[s].at \in {"enter", "dial", "back"}
       /\ sess[s].path # "" /\ sess[s].target # NoNet
       /\ thread[sess[s].on].state = "locked"
       /\ thread[sess[s].on].net = IF sess[s].at = "enter" THEN Host ELSE sess[s].target

\* What the process id of a pod leads to, and what the session has opened.
OwnNet(s) ==
  s \notin reused =>
    /\ sess[s].mode # "NODE" => proc[s] \in {s, NoNet}
    /\ sess[s].on # NoThread => sess[s].target = s
    /\ sess[s].conn # NoNet => sess[s].conn = IF sess[s].mode = "NODE" THEN Host ELSE s

\* The pod's side ends without an error behind all of its data.
Delivered(s) ==
  copy[s].outCh = "nil" \/ ends[s].result = "nil" =>
    ends[s].pod = "eof" /\ ends[s].got = ends[s].sent

SessInv(s) == PathOfMode(s) /\ HoldsThread(s) /\ OwnNet(s) /\ Delivered(s)

\* No thread is held by two sessions.
ThreadsApart ==
  \A s, r \in Sessions : s # r /\ sess[s].on # NoThread => sess[s].on # sess[r].on

IInv ==
  /\ TypeOK
  /\ \A s \in Sessions : SessInv(s)
  /\ ThreadsApart
  /\ FreeThreadsAtHome

-----------------------------------------------------------------------------
(* What the steps do to the variables *)

\* The variables have their types.
Typed ==
  /\ sess \in [Sessions -> SessStates] /\ copy \in [Sessions -> CopyStates]
  /\ ends \in [Sessions -> EndStates] /\ thread \in [Threads -> ThreadStates]
  /\ names \subseteq Sessions /\ proc \in [Sessions -> Nets \cup {NoNet}]
  /\ reused \subseteq Sessions /\ faults \in 0 .. MaxFaults

\* The session takes a step, and holds what is said.
Moves(s, step, path, on, target, conn) ==
  /\ sess' \in [Sessions -> SessStates]
  /\ \A r \in Sessions \ {s} : sess'[r] = sess[r]
  /\ sess'[s].at = step /\ sess'[s].mode = sess[s].mode /\ sess'[s].path = path
  /\ sess'[s].on = on /\ sess'[s].target = target /\ sess'[s].conn = conn

\* It holds what it held.
StepsTo(s, step) ==
  Moves(s, step, sess[s].path, sess[s].on, sess[s].target, sess[s].conn)

\* The result of the call, and what went through the ends of it.
EndsTo(s, pod, sent, got, result) ==
  /\ ends' \in [Sessions -> EndStates]
  /\ \A r \in Sessions \ {s} : ends'[r] = ends[r]
  /\ ends'[s].pod = pod /\ ends'[s].sent = sent /\ ends'[s].got = got
  /\ ends'[s].result = result

\* A session that has returned.
Returns(s, result) == EndsTo(s, ends[s].pod, ends[s].sent, ends[s].got, result)

\* The goroutine that copies the pod's answer has left its error.
CopyTo(s, outCh) ==
  /\ copy' \in [Sessions -> CopyStates]
  /\ \A r \in Sessions \ {s} : copy'[r] = copy[r]
  /\ copy'[s].outCh = outCh

\* A thread moves, is locked or is unlocked.
ThreadTo(t, net, state) ==
  /\ thread' \in [Threads -> ThreadStates]
  /\ \A u \in Threads \ {t} : thread'[u] = thread[u]
  /\ thread'[t].net = net /\ thread'[t].state = state

LEMMA TypedIsTypeOK == (TypeOK <=> Typed) /\ (TypeOK' <=> Typed')
BY DEF TypeOK, Typed, SessStates, CopyStates, EndStates, ThreadStates

\* A record in the place of a session's.
LEMMA Moving ==
  ASSUME sess \in [Sessions -> SessStates], NEW s \in Sessions, NEW q \in SessStates,
         sess' = [sess EXCEPT ![s] = q], q.mode = sess[s].mode
  PROVE  Moves(s, q.at, q.path, q.on, q.target, q.conn)
BY DEF Moves

\* A session that only takes a step.
LEMMA Going ==
  ASSUME sess \in [Sessions -> SessStates], NEW s \in Sessions,
         NEW step \in Steps, sess' = [sess EXCEPT ![s].at = step]
  PROVE  StepsTo(s, step)
<1>1. sess[s] \in SessStates
  OBVIOUS
<1> DEFINE q == [sess[s] EXCEPT !.at = step]
<1>2. q \in SessStates
  BY <1>1 DEF SessStates, Steps
<1>3. sess' = [sess EXCEPT ![s] = q]
  OBVIOUS
<1>4. /\ q.at = step
      /\ q.mode = sess[s].mode /\ q.path = sess[s].path /\ q.on = sess[s].on
      /\ q.target = sess[s].target /\ q.conn = sess[s].conn
  BY <1>1 DEF SessStates
<1> HIDE DEF q
<1>5. QED
  BY <1>2, <1>3, <1>4, Moving DEF StepsTo

\* A session that opens or closes its porto connection.
LEMMA GoingPorto ==
  ASSUME sess \in [Sessions -> SessStates], NEW s \in Sessions,
         NEW step \in Steps, NEW porto \in BOOLEAN,
         sess' = [sess EXCEPT ![s].at = step, ![s].porto = porto]
  PROVE  StepsTo(s, step)
<1>1. sess[s] \in SessStates
  OBVIOUS
<1> DEFINE q == [sess[s] EXCEPT !.at = step, !.porto = porto]
<1>2. q \in SessStates
  BY <1>1 DEF SessStates, Steps
<1>3. sess' = [sess EXCEPT ![s] = q]
  OBVIOUS
<1>4. /\ q.at = step
      /\ q.mode = sess[s].mode /\ q.path = sess[s].path /\ q.on = sess[s].on
      /\ q.target = sess[s].target /\ q.conn = sess[s].conn
  BY <1>1 DEF SessStates
<1> HIDE DEF q
<1>5. QED
  BY <1>2, <1>3, <1>4, Moving DEF StepsTo

\* A session that has found the namespace of its pod.
LEMMA Finding ==
  ASSUME sess \in [Sessions -> SessStates], NEW s \in Sessions,
         NEW step \in Steps, NEW path \in {"", "name", "pid"},
         sess' = [sess EXCEPT ![s].path = path, ![s].porto = FALSE, ![s].at = step]
  PROVE  Moves(s, step, path, sess[s].on, sess[s].target, sess[s].conn)
<1>1. sess[s] \in SessStates
  OBVIOUS
<1> DEFINE q == [sess[s] EXCEPT !.path = path, !.porto = FALSE, !.at = step]
<1>2. q \in SessStates
  BY <1>1 DEF SessStates, Steps
<1>3. sess' = [sess EXCEPT ![s] = q]
  OBVIOUS
<1>4. /\ q.path = path /\ q.porto = FALSE /\ q.at = step
      /\ q.mode = sess[s].mode /\ q.on = sess[s].on
      /\ q.target = sess[s].target /\ q.conn = sess[s].conn
  BY <1>1 DEF SessStates
<1> HIDE DEF q
<1>5. QED
  BY <1>2, <1>3, <1>4, Moving

\* A session that locks a thread.
LEMMA Opening ==
  ASSUME sess \in [Sessions -> SessStates], NEW s \in Sessions,
         NEW step \in Steps, NEW t \in Threads, NEW n \in Nets \cup {NoNet},
         sess' = [sess EXCEPT ![s].at = step, ![s].on = t, ![s].target = n]
  PROVE  Moves(s, step, sess[s].path, t, n, sess[s].conn)
<1>1. sess[s] \in SessStates
  OBVIOUS
<1> DEFINE q == [sess[s] EXCEPT !.at = step, !.on = t, !.target = n]
<1>2. q \in SessStates
  BY <1>1 DEF SessStates, Steps
<1>3. sess' = [sess EXCEPT ![s] = q]
  OBVIOUS
<1>4. /\ q.at = step /\ q.on = t /\ q.target = n
      /\ q.mode = sess[s].mode /\ q.path = sess[s].path /\ q.conn = sess[s].conn
  BY <1>1 DEF SessStates
<1> HIDE DEF q
<1>5. QED
  BY <1>2, <1>3, <1>4, Moving

\* A session that leaves its thread.
LEMMA Leaving ==
  ASSUME sess \in [Sessions -> SessStates], NEW s \in Sessions,
         NEW step \in Steps, sess' = [sess EXCEPT ![s].at = step, ![s].on = NoThread]
  PROVE  Moves(s, step, sess[s].path, NoThread, sess[s].target, sess[s].conn)
<1>1. sess[s] \in SessStates
  OBVIOUS
<1> DEFINE q == [sess[s] EXCEPT !.at = step, !.on = NoThread]
<1>2. q \in SessStates
  BY <1>1 DEF SessStates, Steps
<1>3. sess' = [sess EXCEPT ![s] = q]
  OBVIOUS
<1>4. /\ q.at = step /\ q.on = NoThread
      /\ q.mode = sess[s].mode /\ q.path = sess[s].path
      /\ q.target = sess[s].target /\ q.conn = sess[s].conn
  BY <1>1 DEF SessStates
<1> HIDE DEF q
<1>5. QED
  BY <1>2, <1>3, <1>4, Moving

\* A session that connects.
LEMMA Dialing ==
  ASSUME sess \in [Sessions -> SessStates], NEW s \in Sessions,
         NEW step \in Steps, NEW n \in Nets \cup {NoNet},
         sess' = [sess EXCEPT ![s].at = step, ![s].conn = n]
  PROVE  Moves(s, step, sess[s].path, sess[s].on, sess[s].target, n)
<1>1. sess[s] \in SessStates
  OBVIOUS
<1> DEFINE q == [sess[s] EXCEPT !.at = step, !.conn = n]
<1>2. q \in SessStates
  BY <1>1 DEF SessStates, Steps
<1>3. sess' = [sess EXCEPT ![s] = q]
  OBVIOUS
<1>4. /\ q.at = step /\ q.conn = n
      /\ q.mode = sess[s].mode /\ q.path = sess[s].path
      /\ q.on = sess[s].on /\ q.target = sess[s].target
  BY <1>1 DEF SessStates
<1> HIDE DEF q
<1>5. QED
  BY <1>2, <1>3, <1>4, Moving

\* A session that leaves its thread and its connection.
LEMMA Losing ==
  ASSUME sess \in [Sessions -> SessStates], NEW s \in Sessions,
         NEW step \in Steps,
         sess' = [sess EXCEPT ![s].at = step, ![s].on = NoThread, ![s].conn = NoNet]
  PROVE  Moves(s, step, sess[s].path, NoThread, sess[s].target, NoNet)
<1>1. sess[s] \in SessStates
  OBVIOUS
<1> DEFINE q == [sess[s] EXCEPT !.at = step, !.on = NoThread, !.conn = NoNet]
<1>2. q \in SessStates
  BY <1>1 DEF SessStates, Steps
<1>3. sess' = [sess EXCEPT ![s] = q]
  OBVIOUS
<1>4. /\ q.at = step /\ q.on = NoThread /\ q.conn = NoNet
      /\ q.mode = sess[s].mode /\ q.path = sess[s].path /\ q.target = sess[s].target
  BY <1>1 DEF SessStates
<1> HIDE DEF q
<1>5. QED
  BY <1>2, <1>3, <1>4, Moving

\* A session that returns.
LEMMA Returning ==
  ASSUME ends \in [Sessions -> EndStates], NEW s \in Sessions, NEW result \in {"nil", "err"},
         ends' = [ends EXCEPT ![s].result = result]
  PROVE  Returns(s, result)
BY DEF EndStates, EndsTo, Returns

\* The three ways to start and to end a copy.
LEMMA Copying ==
  ASSUME copy \in [Sessions -> CopyStates], NEW s \in Sessions
  PROVE  /\ StartCopy(s) => CopyTo(s, copy[s].outCh)
         /\ \A err \in {"nil", "err"} : EndIn(s, err) => CopyTo(s, copy[s].outCh)
         /\ \A err \in {"nil", "err"} : EndOut(s, err) => CopyTo(s, err)
         /\ copy' = [copy EXCEPT ![s].outCh = "taken"] => CopyTo(s, "taken")
         /\ copy' = [copy EXCEPT ![s].inCh = "taken"] => CopyTo(s, copy[s].outCh)
<1>1. ASSUME StartCopy(s) PROVE CopyTo(s, copy[s].outCh)
  <2>1. copy[s] \in CopyStates
    OBVIOUS
  <2>2. [copy[s] EXCEPT !.in = "copy", !.out = "copy"] \in CopyStates
    BY <2>1 DEF CopyStates
  <2>3. copy' = [copy EXCEPT ![s] = [copy[s] EXCEPT !.in = "copy", !.out = "copy"]]
    BY <1>1 DEF StartCopy
  <2>4. QED
    BY <2>1, <2>2, <2>3 DEF CopyStates, CopyTo
<1>2. ASSUME NEW err \in {"nil", "err"}, EndIn(s, err) PROVE CopyTo(s, copy[s].outCh)
  <2>1. copy[s] \in CopyStates
    OBVIOUS
  <2>2. [copy[s] EXCEPT !.in = "ended", !.inCh = err] \in CopyStates
    BY <2>1 DEF CopyStates, Channel
  <2>3. copy' = [copy EXCEPT ![s] = [copy[s] EXCEPT !.in = "ended", !.inCh = err]]
    BY <1>2 DEF EndIn
  <2>4. QED
    BY <2>1, <2>2, <2>3 DEF CopyStates, CopyTo
<1>3. ASSUME NEW err \in {"nil", "err"}, EndOut(s, err) PROVE CopyTo(s, err)
  <2>1. copy[s] \in CopyStates
    OBVIOUS
  <2>2. [copy[s] EXCEPT !.out = "ended", !.outCh = err] \in CopyStates
    BY <2>1 DEF CopyStates, Channel
  <2>3. copy' = [copy EXCEPT ![s] = [copy[s] EXCEPT !.out = "ended", !.outCh = err]]
    BY <1>3 DEF EndOut
  <2>4. QED
    BY <2>1, <2>2, <2>3 DEF CopyStates, CopyTo
<1>4. copy' = [copy EXCEPT ![s].outCh = "taken"] => CopyTo(s, "taken")
  BY DEF CopyStates, CopyTo, Channel
<1>5. copy' = [copy EXCEPT ![s].inCh = "taken"] => CopyTo(s, copy[s].outCh)
  BY DEF CopyStates, CopyTo, Channel
<1>6. QED
  BY <1>1, <1>2, <1>3, <1>4, <1>5

\* A thread that moves, that changes its state, or that comes home.
LEMMA Threading ==
  ASSUME thread \in [Threads -> ThreadStates], NEW t \in Threads
  PROVE  /\ \A net \in Nets : thread' = [thread EXCEPT ![t].net = net] =>
              ThreadTo(t, net, thread[t].state)
         /\ \A state \in {"free", "locked", "discarded"} :
              thread' = [thread EXCEPT ![t].state = state] => ThreadTo(t, thread[t].net, state)
         /\ thread' = [thread EXCEPT ![t] = [net |-> Host, state |-> "free"]] =>
              ThreadTo(t, Host, "free")
BY DEF ThreadStates, ThreadTo, Nets

-----------------------------------------------------------------------------
(* The initial states, and what a step leaves alone *)

\* A session that a step does not touch.
LEMMA Frame ==
  ASSUME NEW r \in Sessions, SessInv(r),
         sess'[r] = sess[r], copy'[r] = copy[r], ends'[r] = ends[r], proc'[r] = proc[r],
         r \in reused => r \in reused',
         sess[r].on # NoThread => thread'[sess[r].on] = thread[sess[r].on]
  PROVE  SessInv(r)'
BY DEF SessInv, PathOfMode, HoldsThread, OwnNet, Delivered

\* The invariant holds of a state in which no session has begun.
LEMMA InitInv == Init => IInv
<1> SUFFICES ASSUME Init PROVE IInv
  OBVIOUS
<1>1. PICK mode \in [Sessions -> UNION {Modes[s] : s \in Sessions}] :
        sess = [s \in Sessions |->
                  [at |-> "idle", mode |-> mode[s], porto |-> FALSE, path |-> "",
                   on |-> NoThread, target |-> NoNet, conn |-> NoNet]]
  BY DEF Init
<1>2. \A s \in Sessions : mode[s] \in {"NODE", "netns", "L3"}
  BY ModeAssumption
<1>3. TypeOK
  <2>1. sess \in [Sessions -> SessStates]
    BY <1>1, <1>2 DEF SessStates, Steps
  <2>2. /\ copy \in [Sessions -> CopyStates] /\ ends \in [Sessions -> EndStates]
        /\ thread \in [Threads -> ThreadStates]
    BY DEF Init, CopyStates, EndStates, ThreadStates, Nets, Channel
  <2>3. proc \in [Sessions -> Nets \cup {NoNet}]
    BY DEF Init, Nets
  <2>4. names \subseteq Sessions /\ reused \subseteq Sessions
    BY DEF Init
  <2>5. faults \in 0 .. MaxFaults
    <3>1. faults = 0
      BY DEF Init
    <3>2. QED
      BY <3>1, BoundAssumption
  <2>6. QED
    BY <2>1, <2>2, <2>3, <2>4, <2>5, TypedIsTypeOK DEF Typed
<1>4. ASSUME NEW s \in Sessions PROVE SessInv(s)
  <2>1. /\ sess[s].at = "idle" /\ sess[s].path = "" /\ sess[s].on = NoThread
        /\ sess[s].conn = NoNet
        /\ copy[s].outCh = "empty" /\ ends[s].result = "none"
        /\ proc[s] = IF sess[s].mode = "NODE" THEN Host ELSE s
    BY <1>1 DEF Init
  <2>2. QED
    BY <2>1 DEF SessInv, PathOfMode, HoldsThread, OwnNet, Delivered
<1>5. ThreadsApart /\ FreeThreadsAtHome
  BY <1>1 DEF Init, ThreadsApart, FreeThreadsAtHome
<1>6. QED
  BY <1>3, <1>4, <1>5 DEF IInv

\* The threads, when no session takes one and none moves.
LEMMA ThreadsFrame ==
  ASSUME ThreadsApart, FreeThreadsAtHome, UNCHANGED thread, NEW s \in Sessions,
         \A r \in Sessions \ {s} : sess'[r] = sess[r],
         sess'[s].on = sess[s].on
  PROVE  ThreadsApart' /\ FreeThreadsAtHome'
BY DEF ThreadsApart, FreeThreadsAtHome

\* One thread moves, which no other session holds.
LEMMA ThreadMoves ==
  ASSUME Typed, ThreadsApart, FreeThreadsAtHome, NEW s \in Sessions, NEW t \in Threads,
         NEW net, NEW state, ThreadTo(t, net, state), state = "free" => net = Host,
         sess'[s].on \in {t, NoThread},
         \A r \in Sessions \ {s} : sess'[r] = sess[r] /\ sess[r].on # t
  PROVE  /\ ThreadsApart' /\ FreeThreadsAtHome'
         /\ \A r \in Sessions \ {s} :
              sess[r].on # NoThread => thread'[sess[r].on] = thread[sess[r].on]
<1>1. \A r \in Sessions \ {s} : sess[r].on \in Threads \cup {NoThread}
  BY DEF Typed, SessStates
<1>2. ThreadsApart'
  BY DEF ThreadsApart
<1>3. FreeThreadsAtHome'
  BY DEF ThreadTo, FreeThreadsAtHome
<1>4. QED
  BY <1>1, <1>2, <1>3 DEF ThreadTo

\* A step of one session that keeps what is its own keeps the invariant.
LEMMA OneMoves ==
  ASSUME IInv, TypeOK', NEW s \in Sessions, SessInv(s)', ThreadsApart', FreeThreadsAtHome',
         \A r \in Sessions \ {s} :
           /\ sess'[r] = sess[r] /\ copy'[r] = copy[r] /\ ends'[r] = ends[r]
           /\ proc'[r] = proc[r] /\ (r \in reused => r \in reused')
           /\ sess[r].on # NoThread => thread'[sess[r].on] = thread[sess[r].on]
  PROVE  IInv'
<1>1. ASSUME NEW r \in Sessions \ {s} PROVE SessInv(r)'
  BY <1>1, Frame DEF IInv
<1>2. QED
  BY <1>1 DEF IInv

\* A call that works, or one more that fails.
LEMMA Faults ==
  ASSUME faults \in 0 .. MaxFaults
  PROVE  (Works \/ Fails \/ UNCHANGED faults) => faults' \in 0 .. MaxFaults
BY BoundAssumption DEF Works, Fails

-----------------------------------------------------------------------------
(* Every action preserves the invariant *)

\* A session begins.
LEMMA PortForwardInv == ASSUME IInv, NEW s \in Sessions, PortForward(s) PROVE IInv'
<1>0. Typed /\ SessInv(s) /\ ThreadsApart /\ FreeThreadsAtHome
  BY TypedIsTypeOK DEF IInv
<1>1. StepsTo(s, "connect")
  BY <1>0, Going DEF PortForward, Goto, Steps, Typed
<1>2. UNCHANGED <<copy, ends, thread, podVars>> /\ faults' \in 0 .. MaxFaults
  <2>1. UNCHANGED <<copy, ends, thread, podVars>> /\ (Works \/ Fails \/ UNCHANGED faults)
    BY DEF PortForward, podVars
  <2>2. QED
    BY <1>0, <2>1, Faults DEF Typed
<1>3. TypeOK'
  BY <1>0, <1>1, <1>2, TypedIsTypeOK DEF Moves, StepsTo, podVars, Typed
<1>4. SessInv(s)'
  BY <1>0, <1>1, <1>2
     DEF PortForward, Moves, StepsTo, podVars, SessInv, PathOfMode, HoldsThread, OwnNet,
         Delivered
<1>5. ThreadsApart' /\ FreeThreadsAtHome'
  BY <1>0, <1>1, <1>2, ThreadsFrame DEF Moves, StepsTo
<1>6. QED
  <2>1. ASSUME NEW r \in Sessions \ {s}
        PROVE  /\ sess'[r] = sess[r] /\ copy'[r] = copy[r] /\ ends'[r] = ends[r]
               /\ proc'[r] = proc[r] /\ (r \in reused => r \in reused')
               /\ sess[r].on # NoThread => thread'[sess[r].on] = thread[sess[r].on]
    BY <1>0, <1>1, <1>2 DEF Moves, StepsTo, podVars
  <2>2. QED
    BY <1>3, <1>4, <1>5, <2>1, OneMoves

\* portoClientContext.
LEMMA ConnectInv == ASSUME IInv, NEW s \in Sessions, Connect(s) PROVE IInv'
<1>0. Typed /\ SessInv(s) /\ ThreadsApart /\ FreeThreadsAtHome
  BY TypedIsTypeOK DEF IInv
<1>1. \/ StepsTo(s, "net") /\ UNCHANGED ends
      \/ StepsTo(s, "ended") /\ Returns(s, "err")
  BY <1>0, GoingPorto, Returning DEF Connect, ReturnError, Steps, Typed
<1>2. UNCHANGED <<copy, thread, podVars>> /\ faults' \in 0 .. MaxFaults
  <2>1. UNCHANGED <<copy, thread, podVars>> /\ (Works \/ Fails \/ UNCHANGED faults)
    BY DEF Connect, podVars
  <2>2. QED
    BY <1>0, <2>1, Faults DEF Typed
<1>3. TypeOK'
  BY <1>0, <1>1, <1>2, TypedIsTypeOK DEF Moves, StepsTo, EndsTo, Returns, podVars, Typed
<1>4. SessInv(s)'
  BY <1>0, <1>1, <1>2
     DEF Connect, Moves, StepsTo, EndsTo, Returns, podVars, SessInv, PathOfMode,
         HoldsThread, OwnNet, Delivered
<1>5. ThreadsApart' /\ FreeThreadsAtHome'
  BY <1>0, <1>1, <1>2, ThreadsFrame DEF Moves, StepsTo, EndsTo, Returns
<1>6. QED
  <2>1. ASSUME NEW r \in Sessions \ {s}
        PROVE  /\ sess'[r] = sess[r] /\ copy'[r] = copy[r] /\ ends'[r] = ends[r]
               /\ proc'[r] = proc[r] /\ (r \in reused => r \in reused')
               /\ sess[r].on # NoThread => thread'[sess[r].on] = thread[sess[r].on]
    BY <1>0, <1>1, <1>2 DEF Moves, StepsTo, EndsTo, Returns, podVars
  <2>2. QED
    BY <1>3, <1>4, <1>5, <2>1, OneMoves

\* The network of the pod is known.
LEMMA GetNetInv == ASSUME IInv, NEW s \in Sessions, GetNet(s) PROVE IInv'
<1>0. Typed /\ SessInv(s) /\ ThreadsApart /\ FreeThreadsAtHome
  BY TypedIsTypeOK DEF IInv
<1>1. \/ /\ sess[s].mode = "NODE" /\ UNCHANGED ends
         /\ Moves(s, "dial", "", sess[s].on, sess[s].target, sess[s].conn)
      \/ /\ sess[s].mode = "netns" /\ UNCHANGED ends
         /\ Moves(s, "open", "name", sess[s].on, sess[s].target, sess[s].conn)
      \/ sess[s].mode = "L3" /\ StepsTo(s, "pid") /\ UNCHANGED ends
      \/ StepsTo(s, "ended") /\ Returns(s, "err")
  BY <1>0, Going, GoingPorto, Finding, Returning
     DEF GetNet, Resolved, Goto, ReturnError, Steps, SessStates, Typed
<1>2. UNCHANGED <<copy, thread, podVars>> /\ faults' \in 0 .. MaxFaults
  <2>1. UNCHANGED <<copy, thread, podVars>> /\ (Works \/ Fails \/ UNCHANGED faults)
    BY DEF GetNet, podVars
  <2>2. QED
    BY <1>0, <2>1, Faults DEF Typed
<1>3. TypeOK'
  BY <1>0, <1>1, <1>2, TypedIsTypeOK DEF Moves, StepsTo, EndsTo, Returns, podVars, Typed
<1>4. SessInv(s)'
  BY <1>0, <1>1, <1>2
     DEF GetNet, Moves, StepsTo, EndsTo, Returns, podVars, SessInv, PathOfMode,
         HoldsThread, OwnNet, Delivered
<1>5. ThreadsApart' /\ FreeThreadsAtHome'
  BY <1>0, <1>1, <1>2, ThreadsFrame DEF Moves, StepsTo, EndsTo, Returns
<1>6. QED
  <2>1. ASSUME NEW r \in Sessions \ {s}
        PROVE  /\ sess'[r] = sess[r] /\ copy'[r] = copy[r] /\ ends'[r] = ends[r]
               /\ proc'[r] = proc[r] /\ (r \in reused => r \in reused')
               /\ sess[r].on # NoThread => thread'[sess[r].on] = thread[sess[r].on]
    BY <1>0, <1>1, <1>2 DEF Moves, StepsTo, EndsTo, Returns, podVars
  <2>2. QED
    BY <1>3, <1>4, <1>5, <2>1, OneMoves

\* The process id of an L3 pod.
LEMMA GetRootPidInv == ASSUME IInv, NEW s \in Sessions, GetRootPid(s) PROVE IInv'
<1>0. Typed /\ SessInv(s) /\ ThreadsApart /\ FreeThreadsAtHome
  BY TypedIsTypeOK DEF IInv
<1>1. \/ Moves(s, "open", "pid", sess[s].on, sess[s].target, sess[s].conn) /\ UNCHANGED ends
      \/ StepsTo(s, "ended") /\ Returns(s, "err")
  BY <1>0, GoingPorto, Finding, Returning
     DEF GetRootPid, Resolved, ReturnError, Steps, Typed
<1>2. UNCHANGED <<copy, thread, podVars>> /\ faults' \in 0 .. MaxFaults
  <2>1. UNCHANGED <<copy, thread, podVars>> /\ (Works \/ Fails \/ UNCHANGED faults)
    BY DEF GetRootPid, podVars
  <2>2. QED
    BY <1>0, <2>1, Faults DEF Typed
<1>3. TypeOK'
  BY <1>0, <1>1, <1>2, TypedIsTypeOK DEF Moves, StepsTo, EndsTo, Returns, podVars, Typed
<1>4. SessInv(s)'
  BY <1>0, <1>1, <1>2
     DEF GetRootPid, Moves, StepsTo, EndsTo, Returns, podVars, SessInv, PathOfMode,
         HoldsThread, OwnNet, Delivered
<1>5. ThreadsApart' /\ FreeThreadsAtHome'
  BY <1>0, <1>1, <1>2, ThreadsFrame DEF Moves, StepsTo, EndsTo, Returns
<1>6. QED
  <2>1. ASSUME NEW r \in Sessions \ {s}
        PROVE  /\ sess'[r] = sess[r] /\ copy'[r] = copy[r] /\ ends'[r] = ends[r]
               /\ proc'[r] = proc[r] /\ (r \in reused => r \in reused')
               /\ sess[r].on # NoThread => thread'[sess[r].on] = thread[sess[r].on]
    BY <1>0, <1>1, <1>2 DEF Moves, StepsTo, EndsTo, Returns, podVars
  <2>2. QED
    BY <1>3, <1>4, <1>5, <2>1, OneMoves

\* A thread is locked that no other session has.
LEMMA OpenNetNSInv == ASSUME IInv, NEW s \in Sessions, OpenNetNS(s) PROVE IInv'
<1>0. Typed /\ SessInv(s) /\ ThreadsApart /\ FreeThreadsAtHome
  BY TypedIsTypeOK DEF IInv
<1>1. \/ \E t \in Threads :
           /\ Behind(s) # NoNet /\ thread[t].state = "free"
           /\ ThreadTo(t, thread[t].net, "locked")
           /\ Moves(s, "enter", sess[s].path, t, Behind(s), sess[s].conn) /\ UNCHANGED ends
      \/ StepsTo(s, "ended") /\ Returns(s, "err") /\ UNCHANGED thread
  <2>1. Behind(s) \in Nets \cup {NoNet} /\ "enter" \in Steps /\ "ended" \in Steps
    BY <1>0 DEF Behind, Typed, Nets, Steps
  <2>2. ASSUME ReturnError(s) PROVE StepsTo(s, "ended") /\ Returns(s, "err")
    BY <1>0, <2>1, <2>2, GoingPorto, Returning DEF ReturnError, Typed
  <2>3. ASSUME NEW t \in Threads, thread' = [thread EXCEPT ![t].state = "locked"]
        PROVE  ThreadTo(t, thread[t].net, "locked")
    BY <1>0, <2>3, Threading DEF Typed
  <2>4. ASSUME NEW t \in Threads,
               sess' = [sess EXCEPT ![s].at = "enter", ![s].on = t, ![s].target = Behind(s)]
        PROVE  Moves(s, "enter", sess[s].path, t, Behind(s), sess[s].conn)
    BY <1>0, <2>1, <2>4, Opening DEF Typed
  <2>5. QED
    BY <2>2, <2>3, <2>4 DEF OpenNetNS
<1>2. UNCHANGED <<copy, podVars>> /\ faults' \in 0 .. MaxFaults
  <2>1. UNCHANGED <<copy, podVars>> /\ (Works \/ Fails \/ UNCHANGED faults)
    BY DEF OpenNetNS, podVars
  <2>2. QED
    BY <1>0, <2>1, Faults DEF Typed
<1>3. TypeOK'
  BY <1>0, <1>1, <1>2, TypedIsTypeOK
     DEF Moves, StepsTo, EndsTo, Returns, ThreadTo, podVars, Typed
<1>4. CASE StepsTo(s, "ended") /\ Returns(s, "err") /\ UNCHANGED thread
  <2>1. SessInv(s)'
    BY <1>0, <1>2, <1>4
       DEF OpenNetNS, Moves, StepsTo, EndsTo, Returns, podVars,
           SessInv, PathOfMode, HoldsThread, OwnNet, Delivered
  <2>2. ThreadsApart' /\ FreeThreadsAtHome'
    BY <1>0, <1>4, ThreadsFrame DEF Moves, StepsTo
  <2>3. QED
    BY <1>2, <1>3, <1>4, <2>1, <2>2, OneMoves DEF Moves, StepsTo, EndsTo, Returns, podVars
<1>5. ASSUME NEW t \in Threads, Behind(s) # NoNet, thread[t].state = "free",
             ThreadTo(t, thread[t].net, "locked"), UNCHANGED ends,
             Moves(s, "enter", sess[s].path, t, Behind(s), sess[s].conn)
      PROVE  IInv'
  <2>1. thread[t].net = Host /\ t # NoThread
    BY <1>0, <1>5, ThreadAssumption DEF FreeThreadsAtHome
  <2>2. sess[s].at = "open" /\ sess[s].path # ""
    BY <1>0 DEF OpenNetNS, SessInv, PathOfMode
  <2>3. s \notin reused => Behind(s) = s
    <3>1. sess[s].path \in {"name", "pid"} /\ sess[s].mode # "NODE"
      BY <1>0, <2>2 DEF Typed, SessStates, SessInv, PathOfMode
    <3>2. QED
      BY <1>0, <1>5, <3>1 DEF Behind, SessInv, OwnNet
  <2>4. SessInv(s)'
    <3>1. PathOfMode(s)'
      BY <1>0, <1>5, <2>2 DEF Moves, SessInv, PathOfMode
    <3>2. HoldsThread(s)'
      BY <1>5, <2>1, <2>2 DEF Moves, ThreadTo, HoldsThread
    <3>3. OwnNet(s)'
      BY <1>0, <1>2, <1>5, <2>3 DEF Moves, podVars, SessInv, OwnNet
    <3>4. Delivered(s)'
      BY <1>0, <1>2, <1>5 DEF SessInv, Delivered
    <3>5. QED
      BY <3>1, <3>2, <3>3, <3>4 DEF SessInv
  <2>5. \A r \in Sessions \ {s} : sess'[r] = sess[r] /\ sess[r].on # t
    BY <1>5, <2>1 DEF Moves, IInv, SessInv, HoldsThread
  <2>6. /\ ThreadsApart' /\ FreeThreadsAtHome'
        /\ \A r \in Sessions \ {s} :
             sess[r].on # NoThread => thread'[sess[r].on] = thread[sess[r].on]
    BY <1>0, <1>5, <2>1, <2>5, ThreadMoves DEF Moves
  <2>7. QED
    BY <1>2, <1>3, <1>5, <2>4, <2>5, <2>6, OneMoves DEF podVars
<1>6. QED
  BY <1>1, <1>4, <1>5

\* The thread of a session that enters the namespace or goes back.
LEMMA HeldThread ==
  ASSUME Typed, NEW s \in Sessions, HoldsThread(s), ThreadsApart, sess[s].at \in {"enter", "back"}
  PROVE  /\ sess[s].on \in Threads /\ sess[s].on # NoThread /\ sess[s].path # ""
         /\ thread[sess[s].on].state = "locked"
         /\ thread[sess[s].on].net \in Nets /\ sess[s].target \in Nets
         /\ \A r \in Sessions \ {s} : sess[r].on # sess[s].on
<1>1. sess[s] \in SessStates
  BY DEF Typed
<1>2. /\ sess[s].on # NoThread /\ sess[s].path # "" /\ sess[s].target # NoNet
      /\ thread[sess[s].on].state = "locked"
  BY DEF HoldsThread
<1>3. sess[s].on \in Threads /\ sess[s].target \in Nets
  BY <1>1, <1>2 DEF SessStates
<1>4. thread[sess[s].on].net \in Nets
  BY <1>3 DEF Typed, ThreadStates
<1>5. \A r \in Sessions \ {s} : sess[r].on # sess[s].on
  BY <1>2 DEF ThreadsApart
<1>6. QED
  BY <1>2, <1>3, <1>4, <1>5

\* The thread is in the namespace of the pod, or still at home.
LEMMA EnterInv == ASSUME IInv, NEW s \in Sessions, Enter(s) PROVE IInv'
<1>0. Typed /\ SessInv(s) /\ ThreadsApart /\ FreeThreadsAtHome
  BY TypedIsTypeOK DEF IInv
<1>a. /\ sess[s].on \in Threads /\ sess[s].on # NoThread /\ sess[s].path # ""
      /\ thread[sess[s].on].state = "locked"
      /\ thread[sess[s].on].net \in Nets /\ sess[s].target \in Nets
      /\ \A r \in Sessions \ {s} : sess[r].on # sess[s].on
  BY <1>0, HeldThread DEF Enter, SessInv
<1>b. thread[sess[s].on].net = Host
  BY <1>0, <1>a DEF Enter, SessInv, HoldsThread
<1>1. \/ StepsTo(s, "dial") /\ ThreadTo(sess[s].on, sess[s].target, "locked") /\ UNCHANGED ends
      \/ /\ Moves(s, "ended", sess[s].path, NoThread, sess[s].target, sess[s].conn)
         /\ Returns(s, "err") /\ ThreadTo(sess[s].on, thread[sess[s].on].net, "free")
  <2>1. "dial" \in Steps /\ "ended" \in Steps
    BY DEF Steps
  <2>2. Goto(s, "dial") => StepsTo(s, "dial")
    BY <1>0, <2>1, Going DEF Goto, Typed
  <2>3. sess' = [sess EXCEPT ![s].at = "ended", ![s].on = NoThread] =>
          Moves(s, "ended", sess[s].path, NoThread, sess[s].target, sess[s].conn)
    BY <1>0, <2>1, Leaving DEF Typed
  <2>4. ends' = [ends EXCEPT ![s].result = "err"] => Returns(s, "err")
    BY <1>0, Returning DEF Typed
  <2>5. /\ thread' = [thread EXCEPT ![sess[s].on].net = sess[s].target] =>
             ThreadTo(sess[s].on, sess[s].target, "locked")
        /\ thread' = [thread EXCEPT ![sess[s].on].state = "free"] =>
             ThreadTo(sess[s].on, thread[sess[s].on].net, "free")
    BY <1>0, <1>a, Threading DEF Typed
  <2>6. QED
    BY <2>2, <2>3, <2>4, <2>5 DEF Enter
<1>2. UNCHANGED <<copy, podVars>> /\ faults' \in 0 .. MaxFaults
  <2>1. UNCHANGED <<copy, podVars>> /\ (Works \/ Fails \/ UNCHANGED faults)
    BY DEF Enter, podVars
  <2>2. QED
    BY <1>0, <2>1, Faults DEF Typed
<1>3. TypeOK'
  BY <1>0, <1>1, <1>2, TypedIsTypeOK
     DEF Moves, StepsTo, EndsTo, Returns, ThreadTo, podVars, Typed
<1>4. SessInv(s)'
  <2>1. sess[s].at = "enter"
    BY DEF Enter
  <2>2. PathOfMode(s)'
    BY <1>0, <1>1, <1>a, <2>1 DEF Moves, StepsTo, SessInv, PathOfMode
  <2>3. HoldsThread(s)'
    <3>1. CASE StepsTo(s, "dial") /\ ThreadTo(sess[s].on, sess[s].target, "locked")
      BY <1>0, <1>a, <3>1 DEF Moves, StepsTo, ThreadTo, SessInv, HoldsThread
    <3>2. CASE Moves(s, "ended", sess[s].path, NoThread, sess[s].target, sess[s].conn)
      BY <3>2 DEF Moves, HoldsThread
    <3>3. QED
      BY <1>1, <3>1, <3>2
  <2>4. OwnNet(s)'
    BY <1>0, <1>1, <1>2 DEF Moves, StepsTo, podVars, SessInv, OwnNet
  <2>5. Delivered(s)'
    BY <1>0, <1>1, <1>2 DEF Returns, EndsTo, SessInv, Delivered
  <2>6. QED
    BY <2>2, <2>3, <2>4, <2>5 DEF SessInv
<1>5. /\ ThreadsApart' /\ FreeThreadsAtHome'
      /\ \A r \in Sessions \ {s} :
           sess[r].on # NoThread => thread'[sess[r].on] = thread[sess[r].on]
  BY <1>0, <1>a, <1>b, <1>1, ThreadMoves DEF Moves, StepsTo
<1>6. QED
  BY <1>1, <1>2, <1>3, <1>4, <1>5, OneMoves
     DEF Moves, StepsTo, EndsTo, Returns, podVars

\* The connection belongs to the namespace of the thread, or of the host.
LEMMA DialInv == ASSUME IInv, NEW s \in Sessions, Dial(s) PROVE IInv'
<1>0. Typed /\ SessInv(s) /\ ThreadsApart /\ FreeThreadsAtHome
  BY TypedIsTypeOK DEF IInv
<1>1. \/ /\ sess[s].on = NoThread /\ CopyTo(s, copy[s].outCh) /\ UNCHANGED ends
         /\ Moves(s, "copy", sess[s].path, sess[s].on, sess[s].target, Host)
      \/ StepsTo(s, "ended") /\ Returns(s, "err") /\ UNCHANGED copy /\ sess[s].on = NoThread
      \/ /\ sess[s].on # NoThread /\ UNCHANGED <<copy, ends>>
         /\ Moves(s, "back", sess[s].path, sess[s].on, sess[s].target, thread[sess[s].on].net)
      \/ sess[s].on # NoThread /\ UNCHANGED <<copy, ends>> /\ StepsTo(s, "back")
  <2>1. DialedFrom(s) \in Nets /\ {"copy", "ended", "back"} \subseteq Steps
    <3>1. Host \in Nets /\ {"copy", "ended", "back"} \subseteq Steps
      BY DEF Nets, Steps
    <3>2. sess[s].on # NoThread => sess[s].on \in Threads
      BY <1>0 DEF Typed, SessStates
    <3>3. \A t \in Threads : thread[t].net \in Nets
      BY <1>0 DEF Typed, ThreadStates
    <3>4. QED
      BY <3>1, <3>2, <3>3 DEF DialedFrom
  <2>2. ReturnError(s) => StepsTo(s, "ended") /\ Returns(s, "err")
    BY <1>0, <2>1, GoingPorto, Returning DEF ReturnError, Typed
  <2>3. Goto(s, "back") => StepsTo(s, "back")
    BY <1>0, <2>1, Going DEF Goto, Typed
  <2>4. \A step \in {"copy", "back"} :
          sess' = [sess EXCEPT ![s].at = step, ![s].conn = DialedFrom(s)] =>
            Moves(s, step, sess[s].path, sess[s].on, sess[s].target, DialedFrom(s))
    BY <1>0, <2>1, Dialing DEF Typed
  <2>5. StartCopy(s) => CopyTo(s, copy[s].outCh)
    BY <1>0, Copying DEF Typed
  <2>6. CASE sess[s].on = NoThread
    BY <2>2, <2>4, <2>5, <2>6 DEF Dial, DialedFrom
  <2>7. CASE sess[s].on # NoThread
    BY <2>3, <2>4, <2>7 DEF Dial, DialedFrom
  <2>8. QED
    BY <2>6, <2>7
<1>2. UNCHANGED <<thread, podVars>> /\ faults' \in 0 .. MaxFaults
  <2>1. UNCHANGED <<thread, podVars>> /\ (Works \/ Fails \/ UNCHANGED faults)
    BY DEF Dial, podVars
  <2>2. QED
    BY <1>0, <2>1, Faults DEF Typed
<1>3. TypeOK'
  BY <1>0, <1>1, <1>2, TypedIsTypeOK
     DEF Moves, StepsTo, EndsTo, Returns, CopyTo, podVars, Typed
<1>4. SessInv(s)'
  <2>1. sess[s].at = "dial"
    BY DEF Dial
  <2>2. PathOfMode(s)'
    BY <1>0, <1>1, <2>1 DEF Moves, StepsTo, SessInv, PathOfMode
  <2>3. HoldsThread(s)'
    BY <1>0, <1>1, <1>2, <2>1 DEF Moves, StepsTo, SessInv, HoldsThread
  <2>4. sess[s].on # NoThread => sess[s].mode # "NODE" /\ thread[sess[s].on].net = sess[s].target
    BY <1>0, <2>1 DEF Typed, SessStates, SessInv, HoldsThread, PathOfMode
  <2>5. sess[s].on = NoThread => sess[s].mode = "NODE"
    BY <1>0, <2>1 DEF SessInv, PathOfMode
  <2>6. OwnNet(s)'
    BY <1>0, <1>1, <1>2, <2>4, <2>5 DEF Moves, StepsTo, podVars, SessInv, OwnNet
  <2>7. Delivered(s)'
    BY <1>0, <1>1 DEF Returns, EndsTo, CopyTo, SessInv, Delivered
  <2>8. QED
    BY <2>2, <2>3, <2>6, <2>7 DEF SessInv
<1>5. ThreadsApart' /\ FreeThreadsAtHome'
  BY <1>0, <1>1, <1>2, ThreadsFrame DEF Moves, StepsTo, EndsTo, Returns, CopyTo
<1>6. QED
  <2>1. ASSUME NEW r \in Sessions \ {s}
        PROVE  /\ sess'[r] = sess[r] /\ copy'[r] = copy[r] /\ ends'[r] = ends[r]
               /\ proc'[r] = proc[r] /\ (r \in reused => r \in reused')
               /\ sess[r].on # NoThread => thread'[sess[r].on] = thread[sess[r].on]
    BY <1>0, <1>1, <1>2 DEF Moves, StepsTo, EndsTo, Returns, CopyTo, podVars
  <2>2. QED
    BY <1>3, <1>4, <1>5, <2>1, OneMoves

\* The thread is at home, or gone.
LEMMA BackInv == ASSUME IInv, NEW s \in Sessions, Back(s) PROVE IInv'
<1>0. Typed /\ SessInv(s) /\ ThreadsApart /\ FreeThreadsAtHome
  BY TypedIsTypeOK DEF IInv
<1>a. /\ sess[s].on \in Threads /\ sess[s].on # NoThread /\ sess[s].path # ""
      /\ thread[sess[s].on].state = "locked"
      /\ thread[sess[s].on].net \in Nets /\ sess[s].target \in Nets
      /\ \A r \in Sessions \ {s} : sess[r].on # sess[s].on
  BY <1>0, HeldThread DEF Back, SessInv
<1>1. \/ /\ Moves(s, "copy", sess[s].path, NoThread, sess[s].target, sess[s].conn)
         /\ CopyTo(s, copy[s].outCh) /\ UNCHANGED ends /\ ThreadTo(sess[s].on, Host, "free")
      \/ /\ Moves(s, "ended", sess[s].path, NoThread, sess[s].target, NoNet) /\ Returns(s, "err")
         /\ UNCHANGED copy
         /\ \/ ThreadTo(sess[s].on, Host, "free")
            \/ ThreadTo(sess[s].on, thread[sess[s].on].net, "discarded")
  <2>1. "copy" \in Steps /\ "ended" \in Steps
    BY DEF Steps
  <2>2. sess' = [sess EXCEPT ![s].at = "copy", ![s].on = NoThread] =>
          Moves(s, "copy", sess[s].path, NoThread, sess[s].target, sess[s].conn)
    BY <1>0, <2>1, Leaving DEF Typed
  <2>3. sess' = [sess EXCEPT ![s].at = "ended", ![s].on = NoThread, ![s].conn = NoNet] =>
          Moves(s, "ended", sess[s].path, NoThread, sess[s].target, NoNet)
    BY <1>0, <2>1, Losing DEF Typed
  <2>4. ends' = [ends EXCEPT ![s].result = "err"] => Returns(s, "err")
    BY <1>0, Returning DEF Typed
  <2>5. StartCopy(s) => CopyTo(s, copy[s].outCh)
    BY <1>0, Copying DEF Typed
  <2>6. /\ thread' = [thread EXCEPT ![sess[s].on] = [net |-> Host, state |-> "free"]] =>
             ThreadTo(sess[s].on, Host, "free")
        /\ thread' = [thread EXCEPT ![sess[s].on].state = "discarded"] =>
             ThreadTo(sess[s].on, thread[sess[s].on].net, "discarded")
    BY <1>0, <1>a, Threading DEF Typed
  <2>7. QED
    BY <2>2, <2>3, <2>4, <2>5, <2>6 DEF Back
<1>2. UNCHANGED <<podVars>> /\ faults' \in 0 .. MaxFaults
  <2>1. UNCHANGED <<podVars>> /\ (Works \/ Fails \/ UNCHANGED faults)
    BY DEF Back, podVars
  <2>2. QED
    BY <1>0, <2>1, Faults DEF Typed
<1>3. TypeOK'
  BY <1>0, <1>1, <1>2, TypedIsTypeOK
     DEF Moves, StepsTo, EndsTo, Returns, CopyTo, ThreadTo, podVars, Typed
<1>4. SessInv(s)'
  <2>1. /\ sess'[s].at \in {"copy", "ended"} /\ sess'[s].mode = sess[s].mode
        /\ sess'[s].path = sess[s].path /\ sess'[s].on = NoThread
        /\ sess'[s].conn \in {sess[s].conn, NoNet}
    BY <1>1 DEF Moves
  <2>2. PathOfMode(s)'
    BY <1>0, <2>1 DEF SessInv, PathOfMode
  <2>3. HoldsThread(s)'
    BY <2>1 DEF HoldsThread
  <2>4. OwnNet(s)'
    BY <1>0, <1>2, <2>1 DEF podVars, SessInv, OwnNet
  <2>5. Delivered(s)'
    <3>1. /\ copy'[s].outCh = copy[s].outCh
          /\ ends'[s].pod = ends[s].pod /\ ends'[s].got = ends[s].got
          /\ ends'[s].sent = ends[s].sent
          /\ ends'[s].result = ends[s].result \/ ends'[s].result = "err"
      BY <1>1 DEF CopyTo, Returns, EndsTo
    <3>2. QED
      BY <1>0, <3>1 DEF SessInv, Delivered
  <2>6. QED
    BY <2>2, <2>3, <2>4, <2>5 DEF SessInv
<1>5. /\ ThreadsApart' /\ FreeThreadsAtHome'
      /\ \A r \in Sessions \ {s} :
           sess[r].on # NoThread => thread'[sess[r].on] = thread[sess[r].on]
  <2>1. sess'[s].on = NoThread /\ \A r \in Sessions \ {s} : sess'[r] = sess[r]
    BY <1>1 DEF Moves
  <2>2. CASE ThreadTo(sess[s].on, Host, "free")
    BY <1>0, <1>a, <2>1, <2>2, ThreadMoves
  <2>3. CASE ThreadTo(sess[s].on, thread[sess[s].on].net, "discarded")
    <3>1. PICK net : net = thread[sess[s].on].net
      OBVIOUS
    <3>2. ThreadTo(sess[s].on, net, "discarded") /\ ("discarded" = "free" => net = Host)
      BY <2>3, <3>1
    <3>3. QED
      BY <1>0, <1>a, <2>1, <3>2, ThreadMoves
  <2>4. \/ ThreadTo(sess[s].on, Host, "free")
        \/ ThreadTo(sess[s].on, thread[sess[s].on].net, "discarded")
    BY <1>1
  <2>5. QED
    BY <2>2, <2>3, <2>4
<1>6. QED
  BY <1>1, <1>2, <1>3, <1>4, <1>5, OneMoves
     DEF Moves, StepsTo, EndsTo, Returns, CopyTo, podVars

\* The client's data has ended.
LEMMA InEndsInv == ASSUME IInv, NEW s \in Sessions, InEnds(s) PROVE IInv'
<1>0. Typed /\ SessInv(s) /\ ThreadsApart /\ FreeThreadsAtHome
  BY TypedIsTypeOK DEF IInv
<1>1. CopyTo(s, copy[s].outCh)
  BY <1>0, Copying DEF InEnds, Typed
<1>2. UNCHANGED <<sess, ends, thread, podVars>> /\ faults' \in 0 .. MaxFaults
  <2>1. UNCHANGED <<sess, ends, thread, podVars>> /\ (Works \/ Fails \/ UNCHANGED faults)
    BY DEF InEnds, podVars
  <2>2. QED
    BY <1>0, <2>1, Faults DEF Typed
<1>3. TypeOK'
  BY <1>0, <1>1, <1>2, TypedIsTypeOK DEF CopyTo, podVars, Typed
<1>4. SessInv(s)'
  BY <1>0, <1>1, <1>2
     DEF InEnds, CopyTo, podVars, SessInv, PathOfMode, HoldsThread, OwnNet, Delivered
<1>5. ThreadsApart' /\ FreeThreadsAtHome'
  BY <1>0, <1>1, <1>2, ThreadsFrame DEF CopyTo
<1>6. QED
  <2>1. ASSUME NEW r \in Sessions \ {s}
        PROVE  /\ sess'[r] = sess[r] /\ copy'[r] = copy[r] /\ ends'[r] = ends[r]
               /\ proc'[r] = proc[r] /\ (r \in reused => r \in reused')
               /\ sess[r].on # NoThread => thread'[sess[r].on] = thread[sess[r].on]
    BY <1>0, <1>1, <1>2 DEF CopyTo, podVars
  <2>2. QED
    BY <1>3, <1>4, <1>5, <2>1, OneMoves

\* The client's data is no longer taken.
LEMMA InFailsInv == ASSUME IInv, NEW s \in Sessions, InFails(s) PROVE IInv'
<1>0. Typed /\ SessInv(s) /\ ThreadsApart /\ FreeThreadsAtHome
  BY TypedIsTypeOK DEF IInv
<1>1. CopyTo(s, copy[s].outCh)
  BY <1>0, Copying DEF InFails, Typed
<1>2. UNCHANGED <<sess, ends, thread, podVars>> /\ faults' \in 0 .. MaxFaults
  <2>1. UNCHANGED <<sess, ends, thread, podVars>> /\ (Works \/ Fails \/ UNCHANGED faults)
    BY DEF InFails, podVars
  <2>2. QED
    BY <1>0, <2>1, Faults DEF Typed
<1>3. TypeOK'
  BY <1>0, <1>1, <1>2, TypedIsTypeOK DEF CopyTo, podVars, Typed
<1>4. SessInv(s)'
  BY <1>0, <1>1, <1>2
     DEF InFails, CopyTo, podVars, SessInv, PathOfMode, HoldsThread, OwnNet, Delivered
<1>5. ThreadsApart' /\ FreeThreadsAtHome'
  BY <1>0, <1>1, <1>2, ThreadsFrame DEF CopyTo
<1>6. QED
  <2>1. ASSUME NEW r \in Sessions \ {s}
        PROVE  /\ sess'[r] = sess[r] /\ copy'[r] = copy[r] /\ ends'[r] = ends[r]
               /\ proc'[r] = proc[r] /\ (r \in reused => r \in reused')
               /\ sess[r].on # NoThread => thread'[sess[r].on] = thread[sess[r].on]
    BY <1>0, <1>1, <1>2 DEF CopyTo, podVars
  <2>2. QED
    BY <1>3, <1>4, <1>5, <2>1, OneMoves

\* The pod has not finished before all of its data is passed on.
LEMMA OutCopiesInv == ASSUME IInv, NEW s \in Sessions, OutCopies(s) PROVE IInv'
<1>0. Typed /\ SessInv(s) /\ ThreadsApart /\ FreeThreadsAtHome
  BY TypedIsTypeOK DEF IInv
<1>1. /\ ends[s].got < ends[s].sent /\ copy[s].out = "copy" /\ sess[s].at # "ended"
      /\ EndsTo(s, ends[s].pod, ends[s].sent, ends[s].got + 1, ends[s].result)
  <2>1. ends[s].got \in Nat /\ ends[s].sent \in Nat
    BY <1>0 DEF Typed, EndStates
  <2>2. QED
    BY <1>0, <2>1 DEF OutCopies, Closed, EndStates, EndsTo, Typed
<1>2. UNCHANGED <<sess, copy, thread, podVars>> /\ faults' \in 0 .. MaxFaults
  <2>1. UNCHANGED <<sess, copy, thread, podVars>> /\ (Works \/ Fails \/ UNCHANGED faults)
    BY DEF OutCopies, podVars
  <2>2. QED
    BY <1>0, <2>1, Faults DEF Typed
<1>3. TypeOK'
  BY <1>0, <1>1, <1>2, TypedIsTypeOK DEF EndsTo, Returns, podVars, Typed
<1>4. SessInv(s)'
  <2>1. ends[s].got \in Nat /\ ends[s].sent \in Nat
    BY <1>0 DEF Typed, EndStates
  <2>2. copy[s].outCh # "nil" /\ ends[s].result # "nil"
    BY <1>0, <1>1, <2>1 DEF SessInv, Delivered
  <2>3. Delivered(s)'
    BY <1>1, <1>2, <2>2 DEF EndsTo, Delivered
  <2>4. QED
    BY <1>0, <1>2, <2>3 DEF podVars, SessInv, PathOfMode, HoldsThread, OwnNet
<1>5. ThreadsApart' /\ FreeThreadsAtHome'
  BY <1>0, <1>1, <1>2, ThreadsFrame DEF EndsTo, Returns
<1>6. QED
  <2>1. ASSUME NEW r \in Sessions \ {s}
        PROVE  /\ sess'[r] = sess[r] /\ copy'[r] = copy[r] /\ ends'[r] = ends[r]
               /\ proc'[r] = proc[r] /\ (r \in reused => r \in reused')
               /\ sess[r].on # NoThread => thread'[sess[r].on] = thread[sess[r].on]
    BY <1>0, <1>1, <1>2 DEF EndsTo, Returns, podVars
  <2>2. QED
    BY <1>3, <1>4, <1>5, <2>1, OneMoves

\* A direction that ends without an error has passed on all.
LEMMA OutEndsInv == ASSUME IInv, NEW s \in Sessions, OutEnds(s) PROVE IInv'
<1>0. Typed /\ SessInv(s) /\ ThreadsApart /\ FreeThreadsAtHome
  BY TypedIsTypeOK DEF IInv
<1>1. \/ ends[s].pod = "eof" /\ ends[s].got = ends[s].sent /\ CopyTo(s, "nil")
      \/ CopyTo(s, "err")
  BY <1>0, Copying DEF OutEnds, Typed
<1>2. UNCHANGED <<sess, ends, thread, podVars>> /\ faults' \in 0 .. MaxFaults
  <2>1. UNCHANGED <<sess, ends, thread, podVars>> /\ (Works \/ Fails \/ UNCHANGED faults)
    BY DEF OutEnds, podVars
  <2>2. QED
    BY <1>0, <2>1, Faults DEF Typed
<1>3. TypeOK'
  BY <1>0, <1>1, <1>2, TypedIsTypeOK DEF CopyTo, podVars, Typed
<1>4. SessInv(s)'
  BY <1>0, <1>1, <1>2
     DEF OutEnds, CopyTo, podVars, SessInv, PathOfMode, HoldsThread, OwnNet, Delivered
<1>5. ThreadsApart' /\ FreeThreadsAtHome'
  BY <1>0, <1>1, <1>2, ThreadsFrame DEF CopyTo
<1>6. QED
  <2>1. ASSUME NEW r \in Sessions \ {s}
        PROVE  /\ sess'[r] = sess[r] /\ copy'[r] = copy[r] /\ ends'[r] = ends[r]
               /\ proc'[r] = proc[r] /\ (r \in reused => r \in reused')
               /\ sess[r].on # NoThread => thread'[sess[r].on] = thread[sess[r].on]
    BY <1>0, <1>1, <1>2 DEF CopyTo, podVars
  <2>2. QED
    BY <1>3, <1>4, <1>5, <2>1, OneMoves

\* Success is what that direction reported.
LEMMA SelectOutInv == ASSUME IInv, NEW s \in Sessions, SelectOut(s) PROVE IInv'
<1>0. Typed /\ SessInv(s) /\ ThreadsApart /\ FreeThreadsAtHome
  BY TypedIsTypeOK DEF IInv
<1>1. /\ copy[s].outCh \in {"nil", "err"} /\ CopyTo(s, "taken")
      /\ StepsTo(s, "ended") /\ Returns(s, copy[s].outCh)
  BY <1>0, Going, Returning, Copying DEF SelectOut, Return, Steps, Typed
<1>2. UNCHANGED <<thread, podVars>> /\ faults' \in 0 .. MaxFaults
  <2>1. UNCHANGED <<thread, podVars>> /\ (Works \/ Fails \/ UNCHANGED faults)
    BY DEF SelectOut, podVars
  <2>2. QED
    BY <1>0, <2>1, Faults DEF Typed
<1>3. TypeOK'
  BY <1>0, <1>1, <1>2, TypedIsTypeOK
     DEF Moves, StepsTo, EndsTo, Returns, CopyTo, podVars, Typed
<1>4. SessInv(s)'
  <2>1. /\ sess'[s].path = sess[s].path /\ sess'[s].mode = sess[s].mode
        /\ sess'[s].on = sess[s].on /\ sess'[s].target = sess[s].target
        /\ sess'[s].conn = sess[s].conn
        /\ sess'[s].at \in {"copy", "ended"} /\ sess[s].at = "copy"
    BY <1>0, <1>1 DEF SelectOut, Moves, StepsTo
  <2>2. PathOfMode(s)'
    BY <1>0, <2>1 DEF SessInv, PathOfMode
  <2>3. HoldsThread(s)'
    BY <1>0, <2>1 DEF SessInv, HoldsThread
  <2>4. OwnNet(s)'
    BY <1>0, <1>2, <2>1 DEF podVars, SessInv, OwnNet
  <2>5. Delivered(s)'
    BY <1>0, <1>1 DEF SelectOut, EndsTo, Returns, CopyTo, SessInv, Delivered
  <2>6. QED
    BY <2>2, <2>3, <2>4, <2>5 DEF SessInv
<1>5. ThreadsApart' /\ FreeThreadsAtHome'
  BY <1>0, <1>1, <1>2, ThreadsFrame DEF Moves, StepsTo, EndsTo, Returns, CopyTo
<1>6. QED
  <2>1. ASSUME NEW r \in Sessions \ {s}
        PROVE  /\ sess'[r] = sess[r] /\ copy'[r] = copy[r] /\ ends'[r] = ends[r]
               /\ proc'[r] = proc[r] /\ (r \in reused => r \in reused')
               /\ sess[r].on # NoThread => thread'[sess[r].on] = thread[sess[r].on]
    BY <1>0, <1>1, <1>2 DEF Moves, StepsTo, EndsTo, Returns, CopyTo, podVars
  <2>2. QED
    BY <1>3, <1>4, <1>5, <2>1, OneMoves

\* The client's direction never gives a success.
LEMMA SelectInInv == ASSUME IInv, NEW s \in Sessions, SelectIn(s) PROVE IInv'
<1>0. Typed /\ SessInv(s) /\ ThreadsApart /\ FreeThreadsAtHome
  BY TypedIsTypeOK DEF IInv
<1>1. /\ CopyTo(s, copy[s].outCh)
      /\ \/ StepsTo(s, "ended") /\ Returns(s, "err")
         \/ UNCHANGED <<sess, ends>>
  BY <1>0, Going, Returning, Copying DEF SelectIn, Return, Steps, Typed
<1>2. UNCHANGED <<thread, podVars>> /\ faults' \in 0 .. MaxFaults
  <2>1. UNCHANGED <<thread, podVars>> /\ (Works \/ Fails \/ UNCHANGED faults)
    BY DEF SelectIn, podVars
  <2>2. QED
    BY <1>0, <2>1, Faults DEF Typed
<1>3. TypeOK'
  BY <1>0, <1>1, <1>2, TypedIsTypeOK
     DEF Moves, StepsTo, EndsTo, Returns, CopyTo, podVars, Typed
<1>4. SessInv(s)'
  <2>1. /\ sess'[s].path = sess[s].path /\ sess'[s].mode = sess[s].mode
        /\ sess'[s].on = sess[s].on /\ sess'[s].target = sess[s].target
        /\ sess'[s].conn = sess[s].conn
        /\ sess'[s].at \in {"copy", "ended"} /\ sess[s].at = "copy"
    BY <1>0, <1>1 DEF SelectIn, Moves, StepsTo
  <2>2. PathOfMode(s)'
    BY <1>0, <2>1 DEF SessInv, PathOfMode
  <2>3. HoldsThread(s)'
    BY <1>0, <2>1 DEF SessInv, HoldsThread
  <2>4. OwnNet(s)'
    BY <1>0, <1>2, <2>1 DEF podVars, SessInv, OwnNet
  <2>5. Delivered(s)'
    BY <1>0, <1>1 DEF EndsTo, Returns, CopyTo, SessInv, Delivered
  <2>6. QED
    BY <2>2, <2>3, <2>4, <2>5 DEF SessInv
<1>5. ThreadsApart' /\ FreeThreadsAtHome'
  BY <1>0, <1>1, <1>2, ThreadsFrame DEF Moves, StepsTo, EndsTo, Returns, CopyTo
<1>6. QED
  <2>1. ASSUME NEW r \in Sessions \ {s}
        PROVE  /\ sess'[r] = sess[r] /\ copy'[r] = copy[r] /\ ends'[r] = ends[r]
               /\ proc'[r] = proc[r] /\ (r \in reused => r \in reused')
               /\ sess[r].on # NoThread => thread'[sess[r].on] = thread[sess[r].on]
    BY <1>0, <1>1, <1>2 DEF Moves, StepsTo, EndsTo, Returns, CopyTo, podVars
  <2>2. QED
    BY <1>3, <1>4, <1>5, <2>1, OneMoves

\* The request is done.
LEMMA SelectDoneInv == ASSUME IInv, NEW s \in Sessions, SelectDone(s) PROVE IInv'
<1>0. Typed /\ SessInv(s) /\ ThreadsApart /\ FreeThreadsAtHome
  BY TypedIsTypeOK DEF IInv
<1>1. StepsTo(s, "ended") /\ Returns(s, "err")
  BY <1>0, Going, Returning DEF SelectDone, Return, Steps, Typed
<1>2. UNCHANGED <<copy, thread, podVars>> /\ faults' \in 0 .. MaxFaults
  <2>1. UNCHANGED <<copy, thread, podVars>> /\ (Works \/ Fails \/ UNCHANGED faults)
    BY DEF SelectDone, podVars
  <2>2. QED
    BY <1>0, <2>1, Faults DEF Typed
<1>3. TypeOK'
  BY <1>0, <1>1, <1>2, TypedIsTypeOK DEF Moves, StepsTo, EndsTo, Returns, podVars, Typed
<1>4. SessInv(s)'
  BY <1>0, <1>1, <1>2
     DEF SelectDone, Moves, StepsTo, EndsTo, Returns, podVars, SessInv, PathOfMode,
         HoldsThread, OwnNet, Delivered
<1>5. ThreadsApart' /\ FreeThreadsAtHome'
  BY <1>0, <1>1, <1>2, ThreadsFrame DEF Moves, StepsTo, EndsTo, Returns
<1>6. QED
  <2>1. ASSUME NEW r \in Sessions \ {s}
        PROVE  /\ sess'[r] = sess[r] /\ copy'[r] = copy[r] /\ ends'[r] = ends[r]
               /\ proc'[r] = proc[r] /\ (r \in reused => r \in reused')
               /\ sess[r].on # NoThread => thread'[sess[r].on] = thread[sess[r].on]
    BY <1>0, <1>1, <1>2 DEF Moves, StepsTo, EndsTo, Returns, podVars
  <2>2. QED
    BY <1>3, <1>4, <1>5, <2>1, OneMoves

\* The client.
LEMMA ClientEndsInv == ASSUME IInv, NEW s \in Sessions, ClientEnds(s) PROVE IInv'
<1>0. Typed /\ SessInv(s) /\ ThreadsApart /\ FreeThreadsAtHome
  BY TypedIsTypeOK DEF IInv
<1>1. EndsTo(s, ends[s].pod, ends[s].sent, ends[s].got, ends[s].result)
  BY <1>0 DEF ClientEnds, EndStates, EndsTo, Typed
<1>2. UNCHANGED <<sess, copy, thread, podVars>> /\ faults' \in 0 .. MaxFaults
  <2>1. UNCHANGED <<sess, copy, thread, podVars>> /\ (Works \/ Fails \/ UNCHANGED faults)
    BY DEF ClientEnds, podVars
  <2>2. QED
    BY <1>0, <2>1, Faults DEF Typed
<1>3. TypeOK'
  BY <1>0, <1>1, <1>2, TypedIsTypeOK DEF EndsTo, Returns, podVars, Typed
<1>4. SessInv(s)'
  BY <1>0, <1>1, <1>2
     DEF ClientEnds, EndsTo, Returns, podVars, SessInv, PathOfMode, HoldsThread, OwnNet,
         Delivered
<1>5. ThreadsApart' /\ FreeThreadsAtHome'
  BY <1>0, <1>1, <1>2, ThreadsFrame DEF EndsTo, Returns
<1>6. QED
  <2>1. ASSUME NEW r \in Sessions \ {s}
        PROVE  /\ sess'[r] = sess[r] /\ copy'[r] = copy[r] /\ ends'[r] = ends[r]
               /\ proc'[r] = proc[r] /\ (r \in reused => r \in reused')
               /\ sess[r].on # NoThread => thread'[sess[r].on] = thread[sess[r].on]
    BY <1>0, <1>1, <1>2 DEF EndsTo, Returns, podVars
  <2>2. QED
    BY <1>3, <1>4, <1>5, <2>1, OneMoves

\* A pod that sends has not closed its side.
LEMMA PodSendsInv == ASSUME IInv, NEW s \in Sessions, PodSends(s) PROVE IInv'
<1>0. Typed /\ SessInv(s) /\ ThreadsApart /\ FreeThreadsAtHome
  BY TypedIsTypeOK DEF IInv
<1>1. /\ ends[s].pod = "open"
      /\ EndsTo(s, ends[s].pod, ends[s].sent + 1, ends[s].got, ends[s].result)
  BY <1>0 DEF PodSends, EndStates, EndsTo, Typed
<1>2. UNCHANGED <<sess, copy, thread, podVars>> /\ faults' \in 0 .. MaxFaults
  <2>1. UNCHANGED <<sess, copy, thread, podVars>> /\ (Works \/ Fails \/ UNCHANGED faults)
    BY DEF PodSends, podVars
  <2>2. QED
    BY <1>0, <2>1, Faults DEF Typed
<1>3. TypeOK'
  BY <1>0, <1>1, <1>2, TypedIsTypeOK DEF EndsTo, Returns, podVars, Typed
<1>4. SessInv(s)'
  BY <1>0, <1>1, <1>2
     DEF PodSends, EndsTo, Returns, podVars, SessInv, PathOfMode, HoldsThread, OwnNet,
         Delivered
<1>5. ThreadsApart' /\ FreeThreadsAtHome'
  BY <1>0, <1>1, <1>2, ThreadsFrame DEF EndsTo, Returns
<1>6. QED
  <2>1. ASSUME NEW r \in Sessions \ {s}
        PROVE  /\ sess'[r] = sess[r] /\ copy'[r] = copy[r] /\ ends'[r] = ends[r]
               /\ proc'[r] = proc[r] /\ (r \in reused => r \in reused')
               /\ sess[r].on # NoThread => thread'[sess[r].on] = thread[sess[r].on]
    BY <1>0, <1>1, <1>2 DEF EndsTo, Returns, podVars
  <2>2. QED
    BY <1>3, <1>4, <1>5, <2>1, OneMoves

\* The pod closes its side once.
LEMMA PodEndsInv == ASSUME IInv, NEW s \in Sessions, PodEnds(s) PROVE IInv'
<1>0. Typed /\ SessInv(s) /\ ThreadsApart /\ FreeThreadsAtHome
  BY TypedIsTypeOK DEF IInv
<1>1. /\ ends[s].pod = "open"
      /\ \E e \in {"eof", "reset"} : EndsTo(s, e, ends[s].sent, ends[s].got, ends[s].result)
  BY <1>0 DEF PodEnds, EndStates, EndsTo, Typed
<1>2. UNCHANGED <<sess, copy, thread, podVars>> /\ faults' \in 0 .. MaxFaults
  <2>1. UNCHANGED <<sess, copy, thread, podVars>> /\ (Works \/ Fails \/ UNCHANGED faults)
    BY DEF PodEnds, podVars
  <2>2. QED
    BY <1>0, <2>1, Faults DEF Typed
<1>3. TypeOK'
  BY <1>0, <1>1, <1>2, TypedIsTypeOK DEF EndsTo, Returns, podVars, Typed
<1>4. SessInv(s)'
  BY <1>0, <1>1, <1>2
     DEF PodEnds, EndsTo, Returns, podVars, SessInv, PathOfMode, HoldsThread, OwnNet,
         Delivered
<1>5. ThreadsApart' /\ FreeThreadsAtHome'
  BY <1>0, <1>1, <1>2, ThreadsFrame DEF EndsTo, Returns
<1>6. QED
  <2>1. ASSUME NEW r \in Sessions \ {s}
        PROVE  /\ sess'[r] = sess[r] /\ copy'[r] = copy[r] /\ ends'[r] = ends[r]
               /\ proc'[r] = proc[r] /\ (r \in reused => r \in reused')
               /\ sess[r].on # NoThread => thread'[sess[r].on] = thread[sess[r].on]
    BY <1>0, <1>1, <1>2 DEF EndsTo, Returns, podVars
  <2>2. QED
    BY <1>3, <1>4, <1>5, <2>1, OneMoves

\* The pod is removed: nothing leads to another namespace for that.
LEMMA PodRemovedInv == ASSUME IInv, NEW s \in Sessions, PodRemoved(s) PROVE IInv'
<1>0. Typed /\ SessInv(s) /\ ThreadsApart /\ FreeThreadsAtHome
  BY TypedIsTypeOK DEF IInv
<1>1. /\ names' = names \ {s} /\ proc' = [proc EXCEPT ![s] = NoNet]
      /\ UNCHANGED <<sess, copy, ends, thread, reused, faults>>
  BY DEF PodRemoved
<1>2. TypeOK'
  BY <1>0, <1>1, TypedIsTypeOK DEF Typed
<1>3. SessInv(s)'
  BY <1>0, <1>1 DEF Typed, SessInv, PathOfMode, HoldsThread, OwnNet, Delivered
<1>4. ThreadsApart' /\ FreeThreadsAtHome'
  BY <1>0, <1>1 DEF ThreadsApart, FreeThreadsAtHome
<1>5. \A r \in Sessions \ {s} : proc'[r] = proc[r]
  BY <1>0, <1>1 DEF Typed
<1>6. QED
  BY <1>1, <1>2, <1>3, <1>4, <1>5, OneMoves

\* The process id is reused: the invariant says no more of that pod.
LEMMA PidReusedInv == ASSUME IInv, NEW s \in Sessions, PidReused(s) PROVE IInv'
<1>0. Typed /\ SessInv(s) /\ ThreadsApart /\ FreeThreadsAtHome
  BY TypedIsTypeOK DEF IInv
<1>1. PICK n \in Nets \ {s} : proc' = [proc EXCEPT ![s] = n]
  BY DEF PidReused
<1>2. /\ reused' = reused \cup {s}
      /\ UNCHANGED <<sess, copy, ends, thread, names, faults>>
  BY DEF PidReused
<1>3. TypeOK'
  BY <1>0, <1>1, <1>2, TypedIsTypeOK DEF Typed
<1>4. SessInv(s)'
  BY <1>0, <1>1, <1>2 DEF SessInv, PathOfMode, HoldsThread, OwnNet, Delivered
<1>5. ThreadsApart' /\ FreeThreadsAtHome'
  BY <1>0, <1>2 DEF ThreadsApart, FreeThreadsAtHome
<1>6. \A r \in Sessions \ {s} : proc'[r] = proc[r] /\ (r \in reused => r \in reused')
  BY <1>0, <1>1, <1>2 DEF Typed
<1>7. QED
  BY <1>2, <1>3, <1>4, <1>5, <1>6, OneMoves

\* A state that stays as it is.
LEMMA StutterInv == IInv /\ UNCHANGED vars => IInv'
<1> SUFFICES ASSUME IInv, UNCHANGED vars PROVE IInv'
  OBVIOUS
<1>1. TypeOK'
  BY TypedIsTypeOK DEF IInv, Typed, vars, podVars
<1>2. ASSUME NEW r \in Sessions PROVE SessInv(r)'
  BY <1>2, Frame DEF IInv, vars
<1>3. QED
  BY <1>1, <1>2 DEF IInv, vars, ThreadsApart, FreeThreadsAtHome

-----------------------------------------------------------------------------
(* The theorems *)

\* No step of any session breaks the invariant.
LEMMA StepInv == IInv /\ [Next]_vars => IInv'
BY PortForwardInv, ConnectInv, GetNetInv, GetRootPidInv, OpenNetNSInv, EnterInv,
   DialInv, BackInv, InEndsInv, InFailsInv, OutCopiesInv, OutEndsInv, SelectOutInv,
   SelectInInv, SelectDoneInv, ClientEndsInv, PodSendsInv, PodEndsInv, PodRemovedInv,
   PidReusedInv, StutterInv
   DEF Next, DialStep, OutStep, SelectStep

\* The inductive invariant holds in every reachable state.
THEOREM IInvHolds == Spec => []IInv
BY InitInv, StepInv, PTL DEF Spec

\* The variables of the sessions keep their types, for all sessions and threads.
THEOREM TypeCorrect == Spec => []TypeOK
BY IInvHolds, PTL DEF IInv

\* A thread that the Go runtime may use is in the host's namespace, for any number of
\* sessions on any number of threads.
THEOREM ThreadsAtHome == Spec => []FreeThreadsAtHome
BY IInvHolds, PTL DEF IInv

\* A connection is in the namespace of its pod, unless the process id was reused.
THEOREM ConnectionInPod == Spec => []ConnInPod
<1>1. IInv => ConnInPod
  BY DEF IInv, SessInv, OwnNet, ConnInPod
<1>2. QED
  BY <1>1, IInvHolds, PTL

\* A session that returns success has passed on all that the pod sent.
THEOREM AllDelivered == Spec => []ResponseDelivered
<1>1. IInv => ResponseDelivered
  BY DEF IInv, SessInv, Delivered, ResponseDelivered
<1>2. QED
  BY <1>1, IInvHolds, PTL
=============================================================================
