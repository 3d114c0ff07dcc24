----------------------------- MODULE ExecProofs -----------------------------
(***************************************************************************)
(* Proofs about Exec, for any calls of either kind, any size of a pipe and *)
(* any number of failing calls and restarts.                               *)
(***************************************************************************)
EXTENDS Exec, TLAPS

-----------------------------------------------------------------------------
(* The inductive invariant *)

\* Before CreateFromSpec there is no container and no answer.
NothingYet(c) ==
  call[c].at \in {"idle", "labels", "env", "command", "create"} => cont[c] = "none"

\* The deferred calls come when the answer is known, and the result is the last thing.
InOrder(c) ==
  /\ call[c].rsp # "none" => call[c].at \in {"destroy", "closeFiles", "ended"}
  /\ call[c].result # "none" => call[c].at = "ended"

\* Only ExecSync asks for exit code and output, and only Exec has pipes.
OfItsKind(c) ==
  /\ call[c].at \in {"code", "streams"} => call[c].kind = "sync"
  /\ call[c].at \in {"labels", "closeEnds", "closeFiles"} => call[c].kind # "sync"
  /\ call[c].kind = "sync" => copier[c].out = "off" /\ out[c].pipe = 0

\* Nothing is copied twice.
OutputOnce(c) == out[c].got + out[c].pipe <= out[c].wrote

\* Destroy has been called, or has failed.
Destroyed(c) ==
  call[c].at = "closeFiles" \/ call[c].result \in {"ok", "err"} =>
    cont[c] = "none" \/ c \in undone

\* A command that has ended stays so, with its output.
Final(c) ==
  /\ call[c].at = "streams" => cont[c] # "runs"
  /\ call[c].kind = "sync" /\ call[c].rsp = "ok" =>
       cont[c] # "runs" /\ out[c].got = Tail(out[c].wrote)

CallInv(c) ==
  NothingYet(c) /\ InOrder(c) /\ OfItsKind(c) /\ OutputOnce(c) /\ Destroyed(c) /\ Final(c)

IInv == TypeOK /\ \A c \in Calls : CallInv(c)

-----------------------------------------------------------------------------
(* What porto returns of an output *)

\* It is no more than there is.
LEMMA TailOf == \A n \in Nat : Tail(n) \in Nat /\ Tail(n) <= n
BY BoundAssumption DEF Tail

-----------------------------------------------------------------------------
(* How a call moves *)

CallStates == [at : Steps, kind : {"sync", "pipe", "tty"}, stdin : BOOLEAN,
               rsp : {"none", "ok", "err"}, result : {"none", "ok", "err", "lost"}]

OutStates == [wrote : 0 .. MaxOut, pipe : 0 .. PipeSize, got : 0 .. MaxOut]

\* A step of one call leaves the others where they are.
Moves(c, at, rsp, result) ==
  /\ call' \in [Calls -> CallStates]
  /\ call'[c].at = at /\ call'[c].rsp = rsp /\ call'[c].result = result
  /\ call'[c].kind = call[c].kind
  /\ \A d \in Calls \ {c} : call'[d] = call[d]

\* A record in the place of a call's.
LEMMA Replaced ==
  ASSUME call \in [Calls -> CallStates], NEW c \in Calls, NEW q \in CallStates,
         call' = [call EXCEPT ![c] = q], q.kind = call[c].kind
  PROVE  Moves(c, q.at, q.rsp, q.result)
BY DEF Moves

\* What the three ways to go on do to a call.
LEMMA Moving ==
  ASSUME TypeOK, NEW c \in Calls
  PROVE  /\ \A step \in Steps : Goto(c, step) => Moves(c, step, call[c].rsp, call[c].result)
         /\ ReturnError(c) => Moves(c, "ended", call[c].rsp, "err")
         /\ \A rsp \in {"ok", "err"} : Leave(c, rsp) => Moves(c, "destroy", rsp, call[c].result)
<1>0. call \in [Calls -> CallStates]
  BY DEF TypeOK, CallStates
<1>1. ASSUME NEW step \in Steps, Goto(c, step) PROVE Moves(c, step, call[c].rsp, call[c].result)
  BY <1>0, <1>1 DEF Goto, Moves, CallStates
<1>2. ASSUME ReturnError(c) PROVE Moves(c, "ended", call[c].rsp, "err")
  <2> DEFINE q == [call[c] EXCEPT !.at = "ended", !.result = "err"]
  <2>1. call[c] \in CallStates
    BY <1>0
  <2>2. q \in CallStates
    BY <2>1 DEF CallStates, Steps
  <2>3. call' = [call EXCEPT ![c] = q]
    BY <1>0, <1>2 DEF ReturnError
  <2>4. q.at = "ended" /\ q.result = "err" /\ q.rsp = call[c].rsp /\ q.kind = call[c].kind
    BY <2>1 DEF CallStates
  <2> HIDE DEF q
  <2>5. QED
    BY <1>0, <2>2, <2>3, <2>4, Replaced
<1>3. ASSUME NEW rsp \in {"ok", "err"}, Leave(c, rsp)
      PROVE  Moves(c, "destroy", rsp, call[c].result)
  <2> DEFINE q == [call[c] EXCEPT !.at = "destroy", !.rsp = rsp]
  <2>1. call[c] \in CallStates
    BY <1>0
  <2>2. q \in CallStates
    BY <2>1 DEF CallStates, Steps
  <2>3. call' = [call EXCEPT ![c] = q]
    BY <1>0, <1>3 DEF Leave
  <2>4. q.at = "destroy" /\ q.rsp = rsp /\ q.result = call[c].result /\ q.kind = call[c].kind
    BY <2>1 DEF CallStates
  <2> HIDE DEF q
  <2>5. QED
    BY <1>0, <2>2, <2>3, <2>4, Replaced
<1>4. QED
  BY <1>1, <1>2, <1>3

\* The end of a call: Destroy of ExecSync, and CloseFiles of Exec.
LEMMA Ending ==
  ASSUME TypeOK, NEW c \in Calls,
         call' = [call EXCEPT ![c].at = "ended", ![c].result = call[c].rsp]
  PROVE  Moves(c, "ended", call[c].rsp, call[c].rsp)
<1>1. call \in [Calls -> CallStates] /\ call[c].rsp \in {"none", "ok", "err"}
  BY DEF TypeOK, CallStates
<1>a. \A r \in CallStates : \A result \in {"none", "ok", "err"} :
        [r EXCEPT !.at = "ended", !.result = result] \in CallStates
  BY DEF CallStates, Steps
<1> DEFINE q == [call[c] EXCEPT !.at = "ended", !.result = call[c].rsp]
<1>2. q \in CallStates
  BY <1>1, <1>a
<1>3. call' = [call EXCEPT ![c] = q]
  BY <1>1
<1>4. q.at = "ended" /\ q.result = call[c].rsp /\ q.rsp = call[c].rsp /\ q.kind = call[c].kind
  BY <1>1 DEF CallStates
<1> HIDE DEF q
<1>5. Moves(c, q.at, q.rsp, q.result)
  BY <1>1, <1>2, <1>3, <1>4, Replaced
<1>6. QED
  BY <1>4, <1>5

\* A call that portoshim takes down with itself.
LEMMA Lost ==
  ASSUME NEW r \in CallStates, NEW q, q = [r EXCEPT !.at = "ended", !.result = "lost"]
  PROVE  /\ q \in CallStates
         /\ q.at = "ended" /\ q.result = "lost" /\ q.kind = r.kind /\ q.rsp = r.rsp
BY DEF CallStates, Steps

\* The pipe of a call, which goes with its ends.
LEMMA Emptied ==
  ASSUME NEW o \in OutStates, NEW q, q = [o EXCEPT !.pipe = 0]
  PROVE  /\ q \in OutStates
         /\ q.pipe = 0 /\ q.wrote = o.wrote /\ q.got = o.got
BY BoundAssumption DEF OutStates

\* What a restart does to a call.
LEMMA Crashing ==
  ASSUME TypeOK, Crash, NEW d \in Calls
  PROVE  /\ call'[d] \in CallStates /\ out'[d] \in OutStates
         /\ call'[d].kind = call[d].kind /\ call'[d].rsp = call[d].rsp
         /\ \/ call'[d].at = call[d].at /\ call'[d].result = call[d].result
            \/ call'[d].at = "ended" /\ call'[d].result = "lost"
         /\ out'[d].wrote = out[d].wrote /\ out'[d].got = out[d].got
         /\ out'[d].pipe \in {out[d].pipe, 0}
<1>1. call[d] \in CallStates /\ out[d] \in OutStates
  BY DEF TypeOK, CallStates, OutStates
<1>2. call'[d] = call[d] \/ call'[d] = [call[d] EXCEPT !.at = "ended", !.result = "lost"]
  BY DEF Crash
<1>3. out'[d] = out[d] \/ out'[d] = [out[d] EXCEPT !.pipe = 0]
  BY DEF Crash
<1>4. /\ out'[d] \in OutStates
      /\ out'[d].wrote = out[d].wrote /\ out'[d].got = out[d].got
      /\ out'[d].pipe \in {out[d].pipe, 0}
  <2>1. CASE out'[d] = out[d]
    BY <1>1, <2>1
  <2>2. CASE out'[d] = [out[d] EXCEPT !.pipe = 0]
    BY <1>1, <2>2, Emptied
  <2>3. QED
    BY <1>3, <2>1, <2>2
<1>5. CASE call'[d] = call[d]
  BY <1>1, <1>4, <1>5
<1>6. CASE call'[d] = [call[d] EXCEPT !.at = "ended", !.result = "lost"]
  <2>1. /\ call'[d] \in CallStates
        /\ call'[d].at = "ended" /\ call'[d].result = "lost"
        /\ call'[d].kind = call[d].kind /\ call'[d].rsp = call[d].rsp
    BY <1>1, <1>6, Lost
  <2>2. QED
    BY <1>4, <2>1
<1>7. QED
  BY <1>2, <1>5, <1>6

\* A call that a step does not touch.
LEMMA Frame ==
  ASSUME NEW d \in Calls, CallInv(d), undone \subseteq undone',
         call'[d] = call[d], cont'[d] = cont[d], out'[d] = out[d], copier'[d] = copier[d]
  PROVE  CallInv(d)'
BY DEF CallInv, NothingYet, InOrder, OfItsKind, OutputOnce, Destroyed, Final

-----------------------------------------------------------------------------
(* Type correctness, and the invariant *)

\* The invariant holds of a state with no call under way.
LEMMA InitInv == Init => IInv
<1> SUFFICES ASSUME Init PROVE IInv
  OBVIOUS
<1>1. PICK kind \in [Calls -> UNION {Kinds[c] : c \in Calls}], stdin \in [Calls -> BOOLEAN] :
        call = [c \in Calls |-> [at |-> "idle", kind |-> kind[c], stdin |-> stdin[c],
                                 rsp |-> "none", result |-> "none"]]
  BY DEF Init
<1>2. \A c \in Calls : kind[c] \in {"sync", "pipe", "tty"}
  BY KindAssumption
<1>3. TypeOK
  BY <1>1, <1>2, BoundAssumption DEF Init, TypeOK, Steps, Copier
<1>4. \A c \in Calls : CallInv(c)
  <2>1. \A c \in Calls :
          /\ call[c].at = "idle" /\ call[c].rsp = "none" /\ call[c].result = "none"
          /\ cont[c] = "none" /\ copier[c].out = "off"
          /\ out[c].wrote = 0 /\ out[c].pipe = 0 /\ out[c].got = 0
    BY <1>1 DEF Init
  <2>2. SUFFICES ASSUME NEW c \in Calls PROVE CallInv(c)
    OBVIOUS
  <2>3. QED
    BY <2>1 DEF CallInv, NothingYet, InOrder, OfItsKind, OutputOnce, Destroyed, Final
<1>5. QED
  BY <1>3, <1>4 DEF IInv

\* The variables of the calls keep their types.
LEMMA StepType == IInv /\ [Next]_vars => TypeOK'
<1> SUFFICES ASSUME IInv, [Next]_vars PROVE TypeOK'
  OBVIOUS
<1> USE BoundAssumption DEF streamVars, Works, Fails
<1>0. TypeOK /\ \A c \in Calls : OutputOnce(c)
  BY DEF IInv, CallInv
<1>1. ASSUME NEW c \in Calls, Connect(c) PROVE TypeOK'
  <2>1. call' \in [Calls -> CallStates]
    BY <1>0, <1>1, Moving DEF Connect, Moves, Steps
  <2>2. conn' = [conn EXCEPT ![c] = "open"] \/ conn' = conn
    BY <1>1 DEF Connect
  <2>3. UNCHANGED <<cont, parent, out, copier, client, undone, crashes>> /\ faults' \in 0 .. MaxFaults
    BY <1>0, <1>1 DEF Connect, TypeOK
  <2>4. QED
    BY <1>0, <2>1, <2>2, <2>3 DEF TypeOK, CallStates
<1>2. ASSUME NEW c \in Calls, GetLabels(c) PROVE TypeOK'
  <2>1. call' \in [Calls -> CallStates]
    BY <1>0, <1>2, Moving DEF GetLabels, Ask, Moves, Steps
  <2>2. QED
    BY <1>0, <1>2, <2>1 DEF GetLabels, Ask, TypeOK, CallStates, Copier, OutputOnce
<1>3. ASSUME NEW c \in Calls, GetEnv(c) PROVE TypeOK'
  <2>1. call' \in [Calls -> CallStates]
    BY <1>0, <1>3, Moving DEF GetEnv, Ask, Moves, Steps
  <2>2. QED
    BY <1>0, <1>3, <2>1 DEF GetEnv, Ask, TypeOK, CallStates, Copier, OutputOnce
<1>4. ASSUME NEW c \in Calls, prepareCommand(c) PROVE TypeOK'
  <2>1. call' \in [Calls -> CallStates]
    BY <1>0, <1>4, Moving DEF prepareCommand, Moves, Steps
  <2>2. QED
    BY <1>0, <1>4, <2>1 DEF prepareCommand, TypeOK, CallStates, Copier, OutputOnce
<1>5. ASSUME NEW c \in Calls, CreateFromSpec(c) PROVE TypeOK'
  <2>1. call' \in [Calls -> CallStates]
    BY <1>0, <1>5, Moving DEF CreateFromSpec, Moves, Steps
  <2>2. /\ cont' = [cont EXCEPT ![c] = "runs"] \/ cont' = cont
        /\ undone' = undone \cup {c} \/ undone' = undone
    BY <1>5 DEF CreateFromSpec
  <2>3. UNCHANGED <<conn, parent, out, copier, client, crashes>> /\ faults' \in 0 .. MaxFaults
    BY <1>0, <1>5 DEF CreateFromSpec, TypeOK
  <2>4. QED
    BY <1>0, <2>1, <2>2, <2>3 DEF TypeOK, CallStates
<1>6. ASSUME NEW c \in Calls, StartCopying(c) PROVE TypeOK'
  <2>1. call' \in [Calls -> CallStates]
    BY <1>0, <1>6, Moving DEF StartCopying, Moves, Steps
  <2>2. QED
    BY <1>0, <1>6, <2>1 DEF StartCopying, TypeOK, CallStates, Copier, OutputOnce
<1>7. ASSUME NEW c \in Calls, ExecWait(c) PROVE TypeOK'
  <2>1. call' \in [Calls -> CallStates]
    BY <1>0, <1>7, Moving DEF ExecWait, EndedForWait, Moves, Steps
  <2>2. QED
    BY <1>0, <1>7, <2>1 DEF ExecWait, EndedForWait, TypeOK, CallStates, Copier, OutputOnce
<1>8. ASSUME NEW c \in Calls, SyncWait(c) PROVE TypeOK'
  <2>1. call' \in [Calls -> CallStates]
    BY <1>0, <1>8, Moving DEF SyncWait, Moves, Steps
  <2>2. QED
    BY <1>0, <1>8, <2>1 DEF SyncWait, TypeOK, CallStates, Copier, OutputOnce
<1>9. ASSUME NEW c \in Calls, GetExitCode(c) PROVE TypeOK'
  <2>1. call' \in [Calls -> CallStates]
    BY <1>0, <1>9, Moving DEF GetExitCode, HasExitCode, Moves, Steps
  <2>2. QED
    BY <1>0, <1>9, <2>1 DEF GetExitCode, HasExitCode, TypeOK, CallStates, Copier, OutputOnce
<1>10. ASSUME NEW c \in Calls, GetStreams(c) PROVE TypeOK'
  <2>1. call' \in [Calls -> CallStates]
    BY <1>0, <1>10, Moving DEF GetStreams, Moves, Steps
  <2>2. out' = [out EXCEPT ![c].got = Tail(out[c].wrote)] \/ out' = out
    BY <1>10 DEF GetStreams
  <2>3. UNCHANGED <<conn, cont, parent, copier, client, undone, crashes>> /\ faults' \in 0 .. MaxFaults
    BY <1>0, <1>10 DEF GetStreams, TypeOK
  <2>4. out[c].wrote \in Nat /\ out[c].wrote <= MaxOut
    BY <1>0, BoundAssumption DEF TypeOK
  <2>5. Tail(out[c].wrote) \in 0 .. MaxOut
    <3>1. Tail(out[c].wrote) \in Nat /\ Tail(out[c].wrote) <= out[c].wrote
      BY <2>4, TailOf
    <3>2. QED
      BY <2>4, <3>1, BoundAssumption
  <2>6. out' \in [Calls -> OutStates]
    BY <1>0, <2>2, <2>5 DEF TypeOK, OutStates
  <2>7. QED
    BY <1>0, <2>1, <2>3, <2>6 DEF TypeOK, CallStates, OutStates
<1>11. ASSUME NEW c \in Calls, Destroy(c) PROVE TypeOK'
  <2>1. call' \in [Calls -> CallStates]
    BY <1>0, <1>11, Moving, Ending DEF Destroy, Moves, Steps
  <2>2. /\ cont' = [cont EXCEPT ![c] = "none"] \/ cont' = cont
        /\ undone' = undone \cup {c} \/ undone' = undone
    BY <1>11 DEF Destroy
  <2>3. UNCHANGED <<conn, parent, out, copier, client, crashes>> /\ faults' \in 0 .. MaxFaults
    BY <1>0, <1>11 DEF Destroy, TypeOK
  <2>4. QED
    BY <1>0, <2>1, <2>2, <2>3 DEF TypeOK, CallStates
<1>12. ASSUME NEW c \in Calls, CloseFiles(c) PROVE TypeOK'
  <2>1. call' \in [Calls -> CallStates]
    BY <1>0, <1>12, Ending DEF CloseFiles, Moves, Steps
  <2>2. QED
    BY <1>0, <1>12, <2>1 DEF CloseFiles, TypeOK, CallStates, Copier, OutputOnce
<1>13. ASSUME NEW c \in Calls, CopyOut(c) PROVE TypeOK'
  <2>1. out' = [out EXCEPT ![c].pipe = out[c].pipe - 1,
                           ![c].got = IF client[c] = "open" THEN out[c].got + 1 ELSE out[c].got]
    BY <1>0, <1>13 DEF CopyOut, TypeOK
  <2>2. /\ out[c].pipe \in 1 .. PipeSize /\ out[c].got \in 0 .. MaxOut /\ out[c].wrote \in 0 .. MaxOut
        /\ out[c].got + out[c].pipe <= out[c].wrote
    BY <1>0, <1>13 DEF CopyOut, TypeOK, OutputOnce
  <2>3. out[c].pipe - 1 \in 0 .. PipeSize /\ out[c].got + 1 \in 0 .. MaxOut
    BY <2>2
  <2>4. out' \in [Calls -> OutStates]
    <3>1. out \in [Calls -> OutStates]
      BY <1>0 DEF TypeOK, OutStates
    <3>2. [out[c] EXCEPT !.pipe = out[c].pipe - 1,
                         !.got = IF client[c] = "open" THEN out[c].got + 1 ELSE out[c].got]
            \in OutStates
      BY <2>2, <2>3, <3>1 DEF OutStates
    <3>3. out' = [out EXCEPT ![c] = [out[c] EXCEPT !.pipe = out[c].pipe - 1,
                    !.got = IF client[c] = "open" THEN out[c].got + 1 ELSE out[c].got]]
      BY <2>1, <3>1
    <3>4. QED
      BY <3>1, <3>2, <3>3
  <2>5. copier' \in [Calls -> [in : Copier, out : Copier]]
    <3>1. copier \in [Calls -> [in : Copier, out : Copier]]
      BY <1>0 DEF TypeOK, Copier
    <3>2. \A last \in Copier : [copier[c] EXCEPT !.out = last] \in [in : Copier, out : Copier]
      BY <3>1
    <3>3. PICK last \in Copier : copier' = [copier EXCEPT ![c] = [copier[c] EXCEPT !.out = last]]
      BY <1>13, <3>1 DEF CopyOut, Copier
    <3>4. QED
      BY <3>1, <3>2, <3>3
  <2>6. QED
    BY <1>0, <1>13, <2>4, <2>5 DEF CopyOut, TypeOK, OutStates
<1>14. ASSUME NEW c \in Calls, CopyOutEnds(c) PROVE TypeOK'
  <2>1. copier' \in [Calls -> [in : Copier, out : Copier]]
    <3>1. copier \in [Calls -> [in : Copier, out : Copier]] /\ "ended" \in Copier
      BY <1>0 DEF TypeOK, Copier
    <3>2. [copier[c] EXCEPT !.out = "ended"] \in [in : Copier, out : Copier]
      BY <3>1
    <3>3. copier' = [copier EXCEPT ![c] = [copier[c] EXCEPT !.out = "ended"]]
      BY <1>14, <3>1 DEF CopyOutEnds
    <3>4. QED
      BY <3>1, <3>2, <3>3
  <2>2. QED
    BY <1>0, <1>14, <2>1 DEF CopyOutEnds, TypeOK
<1>15. ASSUME NEW c \in Calls, CopyInEnds(c) PROVE TypeOK'
  <2>1. copier' \in [Calls -> [in : Copier, out : Copier]]
    <3>1. copier \in [Calls -> [in : Copier, out : Copier]] /\ "ended" \in Copier
      BY <1>0 DEF TypeOK, Copier
    <3>2. [copier[c] EXCEPT !.in = "ended"] \in [in : Copier, out : Copier]
      BY <3>1
    <3>3. copier' = [copier EXCEPT ![c] = [copier[c] EXCEPT !.in = "ended"]]
      BY <1>15, <3>1 DEF CopyInEnds
    <3>4. QED
      BY <3>1, <3>2, <3>3
  <2>2. QED
    BY <1>0, <1>15, <2>1 DEF CopyInEnds, TypeOK
<1>16. ASSUME NEW c \in Calls, CommandWrites(c) PROVE TypeOK'
  <2>1. \/ out' = [out EXCEPT ![c].wrote = out[c].wrote + 1]
        \/ /\ out[c].pipe < PipeSize
           /\ out' = [out EXCEPT ![c].wrote = out[c].wrote + 1, ![c].pipe = out[c].pipe + 1]
    BY <1>0, <1>16 DEF CommandWrites, TypeOK
  <2>2. /\ out[c].wrote + 1 \in 0 .. MaxOut
        /\ out[c].pipe < PipeSize => out[c].pipe + 1 \in 0 .. PipeSize
    BY <1>0, <1>16 DEF CommandWrites, TypeOK
  <2>3. out' \in [Calls -> OutStates]
    <3>1. out \in [Calls -> OutStates]
      BY <1>0 DEF TypeOK, OutStates
    <3>2. CASE out' = [out EXCEPT ![c].wrote = out[c].wrote + 1]
      BY <2>2, <3>1, <3>2 DEF OutStates
    <3>3. CASE /\ out[c].pipe < PipeSize
               /\ out' = [out EXCEPT ![c].wrote = out[c].wrote + 1, ![c].pipe = out[c].pipe + 1]
      <4>1. [out[c] EXCEPT !.wrote = out[c].wrote + 1, !.pipe = out[c].pipe + 1] \in OutStates
        BY <2>2, <3>1, <3>3 DEF OutStates
      <4>2. out' = [out EXCEPT ![c] = [out[c] EXCEPT !.wrote = out[c].wrote + 1,
                                                     !.pipe = out[c].pipe + 1]]
        BY <3>1, <3>3
      <4>3. QED
        BY <3>1, <4>1, <4>2
    <3>4. QED
      BY <2>1, <3>2, <3>3
  <2>4. QED
    BY <1>0, <1>16, <2>3 DEF CommandWrites, TypeOK, OutStates
<1>17. ASSUME NEW c \in Calls, CommandEnds(c) PROVE TypeOK'
  BY <1>0, <1>17 DEF CommandEnds, TypeOK, Copier, OutputOnce
<1>18. ASSUME NEW c \in Calls, ClientLeaves(c) PROVE TypeOK'
  BY <1>0, <1>18 DEF ClientLeaves, TypeOK, Copier, OutputOnce
<1>19. ASSUME NEW c \in Calls, StreamsClosed(c) PROVE TypeOK'
  BY <1>0, <1>19 DEF StreamsClosed, TypeOK, Copier, OutputOnce
<1>20. ASSUME NEW c \in Calls, Collect(c) PROVE TypeOK'
  BY <1>0, <1>20 DEF Collect, IsGarbage, TypeOK, Copier, OutputOnce
<1>21. ASSUME NEW c \in Calls, WeakGoes(c) PROVE TypeOK'
  BY <1>0, <1>21 DEF WeakGoes, TypeOK, Copier, OutputOnce
<1>22. CASE ParentRemoved
  BY <1>0, <1>22 DEF ParentRemoved, TypeOK, Steps, Copier
<1>23. CASE Crash
  <2>1. call' \in [Calls -> CallStates]
    <3>1. \A c \in Calls : call'[c] \in CallStates
      BY <1>0, <1>23, Crashing
    <3>2. QED
      BY <1>23, <3>1 DEF Crash
  <2>2. out' \in [Calls -> OutStates]
    <3>1. \A c \in Calls : out'[c] \in OutStates
      BY <1>0, <1>23, Crashing
    <3>2. QED
      BY <1>23, <3>1 DEF Crash
  <2>3. copier' \in [Calls -> [in : Copier, out : Copier]]
    BY <1>0, <1>23 DEF Crash, TypeOK, Copier
  <2>4. conn' \in [Calls -> {"none", "open", "closed"}]
    BY <1>0, <1>23 DEF Crash, TypeOK
  <2>5. UNCHANGED <<cont, parent, client, undone, faults>>
    BY <1>23 DEF Crash
  <2>6. crashes' \in 0 .. MaxCrashes
    <3>1. crashes \in 0 .. MaxCrashes /\ crashes < MaxCrashes /\ crashes' = crashes + 1
      BY <1>0, <1>23 DEF Crash, TypeOK
    <3>2. QED
      BY <3>1
  <2>7. QED
    BY <1>0, <2>1, <2>2, <2>3, <2>4, <2>5, <2>6 DEF TypeOK, CallStates, OutStates
<1>24. CASE UNCHANGED vars
  BY <1>0, <1>24 DEF vars, TypeOK
<1>25. QED
  BY <1>1, <1>2, <1>3, <1>4, <1>5, <1>6, <1>7, <1>8, <1>9, <1>10, <1>11, <1>12,
     <1>13, <1>14, <1>15, <1>16, <1>17, <1>18, <1>19, <1>20, <1>21, <1>22, <1>23,
     <1>24
     DEF Next, HandlerStep

\* Each step keeps what the invariant says of each call.
LEMMA StepInv == IInv /\ TypeOK' /\ [Next]_vars => IInv'
<1> SUFFICES ASSUME IInv, TypeOK', [Next]_vars, NEW d \in Calls PROVE CallInv(d)'
  BY DEF IInv
<1> USE DEF streamVars, Works, Fails
<1>0. TypeOK /\ CallInv(d)
  BY DEF IInv
<1>1. ASSUME NEW c \in Calls, Connect(c) PROVE CallInv(d)'
  <2>1. CASE d # c
    BY <1>0, <1>1, <2>1, Frame, Moving DEF Connect, TypeOK, Moves, Steps
  <2>2. CASE d = c
    BY <1>0, <1>1, <2>2, Moving
       DEF Connect, TypeOK, CallInv, NothingYet, InOrder, OfItsKind, OutputOnce, Destroyed, Final, Moves, Steps
  <2>3. QED
    BY <2>1, <2>2
<1>2. ASSUME NEW c \in Calls, GetLabels(c) PROVE CallInv(d)'
  <2>1. CASE d # c
    BY <1>0, <1>2, <2>1, Frame, Moving DEF GetLabels, Ask, TypeOK, Moves, Steps
  <2>2. CASE d = c
    BY <1>0, <1>2, <2>2, Moving
       DEF GetLabels, Ask, TypeOK, CallInv, NothingYet, InOrder, OfItsKind, OutputOnce, Destroyed, Final, Moves, Steps
  <2>3. QED
    BY <2>1, <2>2
<1>3. ASSUME NEW c \in Calls, GetEnv(c) PROVE CallInv(d)'
  <2>1. CASE d # c
    BY <1>0, <1>3, <2>1, Frame, Moving DEF GetEnv, Ask, TypeOK, Moves, Steps
  <2>2. CASE d = c
    BY <1>0, <1>3, <2>2, Moving
       DEF GetEnv, Ask, TypeOK, CallInv, NothingYet, InOrder, OfItsKind, OutputOnce, Destroyed, Final, Moves, Steps
  <2>3. QED
    BY <2>1, <2>2
<1>4. ASSUME NEW c \in Calls, prepareCommand(c) PROVE CallInv(d)'
  <2>1. CASE d # c
    BY <1>0, <1>4, <2>1, Frame, Moving DEF prepareCommand, TypeOK, Moves, Steps
  <2>2. CASE d = c
    BY <1>0, <1>4, <2>2, Moving
       DEF prepareCommand, TypeOK, CallInv, NothingYet, InOrder, OfItsKind, OutputOnce, Destroyed, Final, Moves, Steps
  <2>3. QED
    BY <2>1, <2>2
<1>5. ASSUME NEW c \in Calls, CreateFromSpec(c) PROVE CallInv(d)'
  <2>1. CASE d # c
    BY <1>0, <1>5, <2>1, Frame, Moving DEF CreateFromSpec, TypeOK, Moves, Steps
  <2>2. CASE d = c
    BY <1>0, <1>5, <2>2, Moving
       DEF CreateFromSpec, TypeOK, CallInv, NothingYet, InOrder, OfItsKind, OutputOnce, Destroyed, Final, Moves, Steps
  <2>3. QED
    BY <2>1, <2>2
<1>6. ASSUME NEW c \in Calls, StartCopying(c) PROVE CallInv(d)'
  <2>1. CASE d # c
    BY <1>0, <1>6, <2>1, Frame, Moving DEF StartCopying, TypeOK, Moves, Steps
  <2>2. CASE d = c
    BY <1>0, <1>6, <2>2, Moving
       DEF StartCopying, TypeOK, CallInv, NothingYet, InOrder, OfItsKind, OutputOnce, Destroyed, Final, Moves, Steps
  <2>3. QED
    BY <2>1, <2>2
<1>7. ASSUME NEW c \in Calls, ExecWait(c) PROVE CallInv(d)'
  <2>1. CASE d # c
    BY <1>0, <1>7, <2>1, Frame, Moving DEF ExecWait, EndedForWait, TypeOK, Moves, Steps
  <2>2. CASE d = c
    BY <1>0, <1>7, <2>2, Moving
       DEF ExecWait, EndedForWait, TypeOK, CallInv, NothingYet, InOrder, OfItsKind, OutputOnce, Destroyed, Final, Moves, Steps
  <2>3. QED
    BY <2>1, <2>2
<1>8. ASSUME NEW c \in Calls, SyncWait(c) PROVE CallInv(d)'
  <2>1. CASE d # c
    BY <1>0, <1>8, <2>1, Frame, Moving DEF SyncWait, TypeOK, Moves, Steps
  <2>2. CASE d = c
    BY <1>0, <1>8, <2>2, Moving
       DEF SyncWait, TypeOK, CallInv, NothingYet, InOrder, OfItsKind, OutputOnce, Destroyed, Final, Moves, Steps
  <2>3. QED
    BY <2>1, <2>2
<1>9. ASSUME NEW c \in Calls, GetExitCode(c) PROVE CallInv(d)'
  <2>1. CASE d # c
    BY <1>0, <1>9, <2>1, Frame, Moving DEF GetExitCode, HasExitCode, TypeOK, Moves, Steps
  <2>2. CASE d = c
    BY <1>0, <1>9, <2>2, Moving
       DEF GetExitCode, HasExitCode, TypeOK, CallInv, NothingYet, InOrder, OfItsKind, OutputOnce, Destroyed, Final, Moves, Steps
  <2>3. QED
    BY <2>1, <2>2
<1>10. ASSUME NEW c \in Calls, GetStreams(c) PROVE CallInv(d)'
  <2>1. out' = [out EXCEPT ![c].got = Tail(out[c].wrote)] \/ out' = out
    BY <1>10 DEF GetStreams
  <2>2. UNCHANGED <<cont, copier, undone>>
    BY <1>10 DEF GetStreams
  <2>3. CASE d # c
    <3>1. call'[d] = call[d]
      BY <1>0, <1>10, <2>3, Moving DEF GetStreams, Moves
    <3>2. out'[d] = out[d]
      BY <1>0, <2>1, <2>3 DEF TypeOK
    <3>3. QED
      BY <1>0, <2>2, <3>1, <3>2, Frame
  <2>4. CASE d = c
    <3>1. /\ call'[c].at = "destroy" /\ call'[c].rsp \in {"ok", "err"}
          /\ call'[c].result = call[c].result /\ call'[c].kind = call[c].kind
          /\ call'[c].rsp = "ok" => out' = [out EXCEPT ![c].got = Tail(out[c].wrote)]
          /\ call[c].at = "streams"
      BY <1>0, <1>10, Moving DEF GetStreams, Moves
    <3>2. /\ out'[c].pipe = out[c].pipe /\ out'[c].wrote = out[c].wrote
          /\ out'[c].got = out[c].got \/ out'[c].got = Tail(out[c].wrote)
          /\ call'[c].rsp = "ok" => out'[c].got = Tail(out[c].wrote)
      BY <1>0, <2>1, <3>1 DEF TypeOK
    <3>3. out[c].wrote \in Nat /\ out[c].got \in Nat /\ out[c].pipe \in Nat
      BY <1>0 DEF TypeOK
    <3>4. Tail(out[c].wrote) \in Nat /\ Tail(out[c].wrote) <= out[c].wrote
      BY <3>3, TailOf
    <3>5. CallInv(c)
      BY <1>0, <2>4
    <3>6. call[c].kind = "sync"
      BY <3>1, <3>5 DEF CallInv, OfItsKind
    <3>7. out[c].pipe = 0
      BY <3>5, <3>6 DEF CallInv, OfItsKind
    <3>8. OutputOnce(c)'
      BY <3>2, <3>3, <3>4, <3>5, <3>7 DEF CallInv, OutputOnce
    <3>9. NothingYet(c)' /\ InOrder(c)' /\ OfItsKind(c)' /\ Destroyed(c)' /\ Final(c)'
      BY <1>0, <2>2, <3>1, <3>2, <3>5
         DEF CallInv, NothingYet, InOrder, OfItsKind, Destroyed, Final
    <3>10. QED
      BY <2>4, <3>8, <3>9 DEF CallInv
  <2>5. QED
    BY <2>3, <2>4
<1>11. ASSUME NEW c \in Calls, Destroy(c) PROVE CallInv(d)'
  <2>1. CASE d # c
    BY <1>0, <1>11, <2>1, Frame, Moving, Ending DEF Destroy, TypeOK, Moves, Steps
  <2>2. CASE d = c
    BY <1>0, <1>11, <2>2, Moving, Ending
       DEF Destroy, TypeOK, CallInv, NothingYet, InOrder, OfItsKind, OutputOnce, Destroyed, Final, Moves, Steps
  <2>3. QED
    BY <2>1, <2>2
<1>12. ASSUME NEW c \in Calls, CloseFiles(c) PROVE CallInv(d)'
  <2>1. /\ call[c].at = "closeFiles"
        /\ out' = [out EXCEPT ![c].pipe = 0]
        /\ UNCHANGED <<cont, copier, undone>>
        /\ Moves(c, "ended", call[c].rsp, call[c].rsp)
    BY <1>0, <1>12, Ending DEF CloseFiles
  <2>2. CASE d # c
    <3>1. call'[d] = call[d] /\ out'[d] = out[d]
      BY <1>0, <2>1, <2>2 DEF Moves, TypeOK
    <3>2. QED
      BY <1>0, <2>1, <3>1, Frame
  <2>3. CASE d = c
    <3>1. out'[c].pipe = 0 /\ out'[c].wrote = out[c].wrote /\ out'[c].got = out[c].got
      BY <1>0, <2>1 DEF TypeOK
    <3>2. out[c].wrote \in Nat /\ out[c].got \in Nat /\ out[c].pipe \in Nat
      BY <1>0 DEF TypeOK
    <3>3. QED
      BY <1>0, <2>1, <2>3, <3>1, <3>2
         DEF Moves, CallInv, NothingYet, InOrder, OfItsKind, OutputOnce, Destroyed, Final
  <2>4. QED
    BY <2>2, <2>3
<1>13. ASSUME NEW c \in Calls, CopyOut(c) PROVE CallInv(d)'
  <2>1. UNCHANGED <<call, cont, undone>> /\ copier[c].out = "copies" /\ out[c].pipe > 0
    BY <1>13 DEF CopyOut
  <2>2. \A e \in Calls \ {c} : out'[e] = out[e] /\ copier'[e] = copier[e]
    BY <1>0, <1>13 DEF CopyOut, TypeOK
  <2>3. /\ out'[c].wrote = out[c].wrote /\ out'[c].pipe = out[c].pipe - 1
        /\ out'[c].got \in {out[c].got, out[c].got + 1}
    BY <1>0, <1>13 DEF CopyOut, TypeOK
  <2>4. CASE d # c
    BY <1>0, <2>1, <2>2, <2>4, Frame
  <2>5. CASE d = c
    <3>1. call[c].kind # "sync"
      BY <1>0, <2>1, <2>5 DEF CallInv, OfItsKind
    <3>2. OutputOnce(c)'
      <4>1. out[c].wrote \in Nat /\ out[c].got \in Nat /\ out[c].pipe \in Nat
        BY <1>0, BoundAssumption DEF TypeOK
      <4>2. out[c].got + out[c].pipe <= out[c].wrote
        BY <1>0, <2>5 DEF CallInv, OutputOnce
      <4>3. QED
        BY <2>3, <4>1, <4>2 DEF OutputOnce
    <3>3. QED
      BY <1>0, <2>1, <2>5, <3>1, <3>2
         DEF CallInv, NothingYet, InOrder, OfItsKind, Destroyed, Final
  <2>6. QED
    BY <2>4, <2>5
<1>14. ASSUME NEW c \in Calls, CopyOutEnds(c) PROVE CallInv(d)'
  <2>1. CASE d # c
    BY <1>0, <1>14, <2>1, Frame DEF CopyOutEnds, FilesOpen, TypeOK
  <2>2. CASE d = c
    BY <1>0, <1>14, <2>2
       DEF CopyOutEnds, FilesOpen, TypeOK, CallInv, NothingYet, InOrder, OfItsKind, OutputOnce, Destroyed, Final
  <2>3. QED
    BY <2>1, <2>2
<1>15. ASSUME NEW c \in Calls, CopyInEnds(c) PROVE CallInv(d)'
  <2>1. CASE d # c
    BY <1>0, <1>15, <2>1, Frame DEF CopyInEnds, TypeOK
  <2>2. CASE d = c
    BY <1>0, <1>15, <2>2
       DEF CopyInEnds, TypeOK, CallInv, NothingYet, InOrder, OfItsKind, OutputOnce, Destroyed, Final
  <2>3. QED
    BY <2>1, <2>2
<1>16. ASSUME NEW c \in Calls, CommandWrites(c) PROVE CallInv(d)'
  <2>1. UNCHANGED <<call, cont, copier, undone>> /\ cont[c] = "runs"
    BY <1>16 DEF CommandWrites
  <2>2. \A e \in Calls \ {c} : out'[e] = out[e]
    BY <1>0, <1>16 DEF CommandWrites, TypeOK
  <2>3. /\ out'[c].wrote = out[c].wrote + 1 /\ out'[c].got = out[c].got
        /\ \/ out'[c].pipe = out[c].pipe
           \/ call[c].kind # "sync" /\ out'[c].pipe = out[c].pipe + 1
    BY <1>0, <1>16 DEF CommandWrites, TypeOK
  <2>4. CASE d # c
    BY <1>0, <2>1, <2>2, <2>4, Frame
  <2>5. CASE d = c
    <3>1. OutputOnce(c)'
      <4>1. out[c].wrote \in Nat /\ out[c].got \in Nat /\ out[c].pipe \in Nat
        BY <1>0, BoundAssumption DEF TypeOK
      <4>2. out[c].got + out[c].pipe <= out[c].wrote
        BY <1>0, <2>5 DEF CallInv, OutputOnce
      <4>3. QED
        BY <2>3, <4>1, <4>2 DEF OutputOnce
    <3>2. OfItsKind(c)' /\ Final(c)'
      BY <1>0, <2>1, <2>3, <2>5 DEF CallInv, OfItsKind, Final
    <3>3. QED
      BY <1>0, <2>1, <2>5, <3>1, <3>2 DEF CallInv, NothingYet, InOrder, Destroyed
  <2>6. QED
    BY <2>4, <2>5
<1>17. ASSUME NEW c \in Calls, CommandEnds(c) PROVE CallInv(d)'
  <2>1. CASE d # c
    BY <1>0, <1>17, <2>1, Frame DEF CommandEnds, TypeOK
  <2>2. CASE d = c
    BY <1>0, <1>17, <2>2
       DEF CommandEnds, TypeOK, CallInv, NothingYet, InOrder, OfItsKind, OutputOnce, Destroyed, Final
  <2>3. QED
    BY <2>1, <2>2
<1>18. ASSUME NEW c \in Calls, ClientLeaves(c) PROVE CallInv(d)'
  <2>1. CASE d # c
    BY <1>0, <1>18, <2>1, Frame DEF ClientLeaves, TypeOK
  <2>2. CASE d = c
    BY <1>0, <1>18, <2>2
       DEF ClientLeaves, TypeOK, CallInv, NothingYet, InOrder, OfItsKind, OutputOnce, Destroyed, Final
  <2>3. QED
    BY <2>1, <2>2
<1>19. ASSUME NEW c \in Calls, StreamsClosed(c) PROVE CallInv(d)'
  <2>1. CASE d # c
    BY <1>0, <1>19, <2>1, Frame DEF StreamsClosed, TypeOK
  <2>2. CASE d = c
    BY <1>0, <1>19, <2>2
       DEF StreamsClosed, TypeOK, CallInv, NothingYet, InOrder, OfItsKind, OutputOnce, Destroyed, Final
  <2>3. QED
    BY <2>1, <2>2
<1>20. ASSUME NEW c \in Calls, Collect(c) PROVE CallInv(d)'
  <2>1. CASE d # c
    BY <1>0, <1>20, <2>1, Frame DEF Collect, IsGarbage, TypeOK
  <2>2. CASE d = c
    BY <1>0, <1>20, <2>2
       DEF Collect, IsGarbage, TypeOK, CallInv, NothingYet, InOrder, OfItsKind, OutputOnce, Destroyed, Final
  <2>3. QED
    BY <2>1, <2>2
<1>21. ASSUME NEW c \in Calls, WeakGoes(c) PROVE CallInv(d)'
  <2>1. CASE d # c
    BY <1>0, <1>21, <2>1, Frame DEF WeakGoes, TypeOK
  <2>2. CASE d = c
    BY <1>0, <1>21, <2>2
       DEF WeakGoes, TypeOK, CallInv, NothingYet, InOrder, OfItsKind, OutputOnce, Destroyed, Final
  <2>3. QED
    BY <2>1, <2>2
<1>22. CASE ParentRemoved
  BY <1>0, <1>22
     DEF ParentRemoved, TypeOK, CallInv, NothingYet, InOrder, OfItsKind, OutputOnce, Destroyed, Final
<1>23. CASE Crash
  <2>1. /\ call'[d].kind = call[d].kind /\ call'[d].rsp = call[d].rsp
        /\ \/ call'[d].at = call[d].at /\ call'[d].result = call[d].result
           \/ call'[d].at = "ended" /\ call'[d].result = "lost"
    BY <1>0, <1>23, Crashing
  <2>2. /\ out'[d].wrote = out[d].wrote /\ out'[d].got = out[d].got
        /\ out'[d].pipe \in {out[d].pipe, 0}
    BY <1>0, <1>23, Crashing
  <2>3. copier[d].out = "off" => copier'[d].out = "off"
    BY <1>0, <1>23 DEF Crash, TypeOK
  <2>4. UNCHANGED <<cont, undone>>
    BY <1>23 DEF Crash
  <2>5. out[d].wrote \in Nat /\ out[d].got \in Nat /\ out[d].pipe \in Nat
    BY <1>0 DEF TypeOK
  <2>6. QED
    BY <1>0, <2>1, <2>2, <2>3, <2>4, <2>5
       DEF CallInv, NothingYet, InOrder, OfItsKind, OutputOnce, Destroyed, Final
<1>24. CASE UNCHANGED vars
  BY <1>0, <1>24, Frame DEF vars
<1>25. QED
  BY <1>1, <1>2, <1>3, <1>4, <1>5, <1>6, <1>7, <1>8, <1>9, <1>10, <1>11, <1>12,
     <1>13, <1>14, <1>15, <1>16, <1>17, <1>18, <1>19, <1>20, <1>21, <1>22, <1>23,
     <1>24
     DEF Next, HandlerStep

\* The inductive invariant holds in every reachable state.
THEOREM IInvHolds == Spec => []IInv
BY InitInv, StepType, StepInv, PTL DEF Spec

\* The variables of the calls keep their types, for all calls and bounds.
THEOREM TypeCorrect == Spec => []TypeOK
BY IInvHolds, PTL DEF IInv

\* When ExecSync or Exec is over its container is gone, unless portod failed to destroy
\* it or to say that it made it.
THEOREM ContainerGone == Spec => []GoneAtReturn
<1>1. IInv => GoneAtReturn
  BY DEF IInv, CallInv, Destroyed, GoneAtReturn
<1>2. QED
  BY <1>1, IInvHolds, PTL

\* ExecSync answers only for a command that has ended, and with the end of all it wrote.
THEOREM SyncFinal == Spec => []SyncAnswerIsFinal
<1>1. IInv => SyncAnswerIsFinal
  BY DEF IInv, CallInv, Final, SyncAnswerIsFinal
<1>2. QED
  BY <1>1, IInvHolds, PTL
=============================================================================
