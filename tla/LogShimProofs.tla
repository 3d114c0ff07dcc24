--------------------------- MODULE LogShimProofs ---------------------------
(***************************************************************************)
(* Proofs about LogShim, for any streams, any output of the command, any   *)
(* sizes of pipe and buffer: the log has whole entries and a beginning of  *)
(* each stream, a loop that ends has logged all, and the exit status tells *)
(* how the command ended.                                                  *)
(***************************************************************************)
EXTENDS LogShim, WellFoundedInduction, TLAPS

-----------------------------------------------------------------------------
(* The inductive invariant *)

LoopStates == [at : LoopSteps, first : Nat, last : Nat, err : ReadErrors]
Lines == [what : {"entry", "newline"}, of : Streams, first : Nat, last : Nat]

Typed ==
  /\ main \in {"start", "wait", "closed", "exited"} /\ exit \in 0 .. 255
  /\ alive \in BOOLEAN /\ code \in -1 .. 255 /\ code \in Codes \cup {0} /\ open \subseteq Streams
  /\ wrote \in [Streams -> Nat] /\ ends \in [Streams -> SUBSET Nat]
  /\ taken \in [Streams -> Nat] /\ cut \in [Streams -> Nat]
  /\ loop \in [Streams -> LoopStates]
  /\ mtx \in Streams \cup {NoStream}
  /\ out \in Seq(Lines)
  /\ faults \in 0 .. MaxFaults

\* What is read was written, and what is cut was read; the rest is in pipe and buffer.
Bounds(s) ==
  /\ loop[s].last <= cut[s] /\ cut[s] <= taken[s] /\ taken[s] <= wrote[s]
  /\ wrote[s] <= MaxItems[s] /\ ends[s] \subseteq 1 .. wrote[s]
  /\ wrote[s] - taken[s] <= PipeSize /\ taken[s] - cut[s] <= BufSize

\* The loop between its two writes is the one that has the mutex.
HasMutex(s) == loop[s].at \in {"entry", "newline"} <=> mtx = s

\* What is logged of the stream, and what the loop has in hand.
InHand(s) ==
  /\ loop[s].at \in {"lock", "entry"} =>
       /\ loop[s].first <= loop[s].last /\ loop[s].last = cut[s]
       /\ LoggedTo(s, Len(out), loop[s].first - 1)
  /\ loop[s].at \in {"read", "newline", "done"} => LoggedTo(s, Len(out), cut[s])

\* What an error of the read says of the stream.
AtError(s) ==
  /\ main = "start" => loop[s].err = "nil"
  /\ loop[s].err = "closed" => main \in {"closed", "exited"}
  /\ loop[s].err = "EOF" /\ main = "wait" => s \notin open /\ wrote[s] = cut[s]
  /\ loop[s].at = "done" => loop[s].err # "nil"
  /\ loop[s].at = "fatal" /\ faults = 0 => loop[s].err = "closed"
  /\ loop[s].at \in {"lock", "entry", "newline", "fatal"} /\ loop[s].err = "closed" =>
       loop[s].first <= loop[s].last /\ loop[s].last \notin ends[s]

LoopInv(s) == Bounds(s) /\ HasMutex(s) /\ InHand(s) /\ AtError(s)

\* The log ends with an entry as long as the loop that wrote it has the newline to write.
Paired ==
  faults = 0 =>
    /\ Len(out) % 2 = 1 => \E s \in Streams : loop[s].at = "newline"
    /\ \A s \in Streams :
         loop[s].at = "newline" => Len(out) % 2 = 1 /\ out[Len(out)].of = s

LogInv == EntriesWhole /\ LogIsPrefix /\ Paired

IInv ==
  /\ Typed
  /\ \A s \in Streams : LoopInv(s)
  /\ LogInv
  /\ ExitTells

-----------------------------------------------------------------------------
(* Minima, and the log *)

\* A set of numbers has its least element.
LEMMA LeastIsIn ==
  ASSUME NEW S, S \subseteq Nat, S # {}
  PROVE  Min(S) \in S /\ \A y \in S : Min(S) <= y
<1> DEFINE Less == {p \in Nat \X Nat : p[1] < p[2]}
<1>1. IsWellFoundedOn(Less, Nat)
  BY NatLessThanWellFounded DEF OpToRel
<1>2. PICK x \in S : \A y \in S : ~(<<y, x>> \in Less)
  BY <1>1, WFMin
<1>3. ASSUME NEW y \in S PROVE x <= y
  <2>1. x \in Nat /\ y \in Nat /\ ~(<<y, x>> \in Less)
    BY <1>2, <1>3
  <2>2. QED
    BY <2>1
<1>4. QED
  BY <1>2, <1>3 DEF Min

\* The lesser of two numbers.
LEMMA LesserOfTwo ==
  ASSUME NEW a \in Nat, NEW b \in Nat
  PROVE  Min({a, b}) \in Nat /\ Min({a, b}) <= a /\ Min({a, b}) <= b
BY LeastIsIn

\* What a longer log says of its beginning.
LEMMA Beginning ==
  ASSUME out \in Seq(Lines), NEW e \in Lines, out' = Append(out, e),
         NEW s, NEW k \in 0 .. Len(out), NEW n
  PROVE  LoggedTo(s, k, n) => LoggedTo(s, k, n)'
<1>1. \A i \in 1 .. k : out'[i] = out[i]
  OBVIOUS
<1>2. \A i \in 1 .. k : IsEntry(i, s)' <=> IsEntry(i, s)
  BY <1>1 DEF IsEntry
<1>3. CASE n = 0 /\ \A i \in 1 .. k : ~IsEntry(i, s)
  BY <1>2, <1>3 DEF LoggedTo
<1>4. ASSUME NEW i \in 1 .. k, IsEntry(i, s), out[i].last = n,
             \A j \in i + 1 .. k : ~IsEntry(j, s)
      PROVE  LoggedTo(s, k, n)'
  <2>1. IsEntry(i, s)' /\ out'[i].last = n
    BY <1>1, <1>2, <1>4
  <2>2. \A j \in i + 1 .. k : ~IsEntry(j, s)'
    BY <1>2, <1>4
  <2>3. QED
    BY <2>1, <2>2 DEF LoggedTo
<1>5. QED
  BY <1>3, <1>4 DEF LoggedTo

\* A line that is no entry of s leaves the entries of s where they are.
LEMMA OtherLine ==
  ASSUME out \in Seq(Lines), NEW e \in Lines, out' = Append(out, e),
         NEW s, NEW n, LoggedTo(s, Len(out), n), e.what # "entry" \/ e.of # s
  PROVE  LoggedTo(s, Len(out), n)'
<1>1. Len(out') = Len(out) + 1 /\ out'[Len(out) + 1] = e /\ Len(out) \in Nat
  OBVIOUS
<1>2. LoggedTo(s, Len(out), n) /\ \A i \in 1 .. Len(out) : out'[i] = out[i]
  OBVIOUS
<1>3. \A i \in 1 .. Len(out') : i \notin 1 .. Len(out) => ~IsEntry(i, s)'
  BY <1>1 DEF IsEntry
<1>4. \A i \in 1 .. Len(out) : IsEntry(i, s)' <=> IsEntry(i, s)
  BY <1>2 DEF IsEntry
<1>5. CASE n = 0 /\ \A i \in 1 .. Len(out) : ~IsEntry(i, s)
  <2>1. \A i \in 1 .. Len(out') : ~IsEntry(i, s)'
    BY <1>1, <1>3, <1>4, <1>5
  <2>2. QED
    BY <1>5, <2>1 DEF LoggedTo
<1>6. ASSUME NEW i \in 1 .. Len(out), IsEntry(i, s), out[i].last = n,
             \A j \in i + 1 .. Len(out) : ~IsEntry(j, s)
      PROVE  LoggedTo(s, Len(out), n)'
  <2>1. i \in 1 .. Len(out') /\ IsEntry(i, s)' /\ out'[i].last = n
    BY <1>1, <1>2, <1>4, <1>6
  <2>2. \A j \in i + 1 .. Len(out') : ~IsEntry(j, s)'
    BY <1>1, <1>3, <1>4, <1>6
  <2>3. QED
    BY <2>1, <2>2 DEF LoggedTo
<1>7. QED
  BY <1>2, <1>5, <1>6 DEF LoggedTo

\* An entry of s moves them.
LEMMA OwnEntry ==
  ASSUME out \in Seq(Lines), NEW e \in Lines, out' = Append(out, e),
         NEW s, e.what = "entry", e.of = s
  PROVE  LoggedTo(s, Len(out), e.last)'
<1>1. Len(out') = Len(out) + 1 /\ out'[Len(out) + 1] = e /\ Len(out) \in Nat
  OBVIOUS
<1>2. PICK i : i = Len(out')
  OBVIOUS
<1>3. i \in 1 .. Len(out') /\ IsEntry(i, s)' /\ out'[i].last = e.last
  BY <1>1, <1>2 DEF IsEntry
<1>4. \A j \in i + 1 .. Len(out') : ~IsEntry(j, s)'
  BY <1>1, <1>2
<1>5. QED
  BY <1>3, <1>4 DEF LoggedTo

\* The log keeps a beginning of each stream when an entry continues its stream.
LEMMA PrefixGrows ==
  ASSUME out \in Seq(Lines), NEW e \in Lines, out' = Append(out, e), LogIsPrefix,
         \A s \in Streams :
           e.what = "entry" /\ e.of = s => LoggedTo(s, Len(out), e.first - 1)
  PROVE  LogIsPrefix'
<1> SUFFICES ASSUME NEW s \in Streams, NEW i \in 1 .. Len(out'), IsEntry(i, s)'
             PROVE  LoggedTo(s, i - 1, out[i].first - 1)'
  BY DEF LogIsPrefix
<1>1. Len(out') = Len(out) + 1 /\ out'[Len(out) + 1] = e /\ Len(out) \in Nat
  OBVIOUS
<1>2. CASE i \in 1 .. Len(out)
  <2>1. out'[i] = out[i]
    BY <1>2
  <2>2. LoggedTo(s, i - 1, out[i].first - 1)
    BY <1>2, <2>1 DEF LogIsPrefix, IsEntry
  <2>3. i - 1 \in 0 .. Len(out)
    BY <1>1, <1>2
  <2>4. PICK n : n = out[i].first - 1
    OBVIOUS
  <2>5. LoggedTo(s, i - 1, n)'
    BY <2>2, <2>3, <2>4, Beginning
  <2>6. QED
    BY <2>1, <2>4, <2>5
<1>3. CASE i = Len(out) + 1
  <2>1. out'[i] = e /\ i - 1 = Len(out)
    BY <1>1, <1>3
  <2>2. LoggedTo(s, Len(out), e.first - 1)
    BY <2>1 DEF IsEntry
  <2>3. PICK k, n : k = Len(out) /\ n = e.first - 1
    OBVIOUS
  <2>4. LoggedTo(s, k, n)'
    BY <1>1, <2>2, <2>3, Beginning
  <2>5. QED
    BY <2>1, <2>3, <2>4
<1>4. QED
  BY <1>1, <1>2, <1>3

-----------------------------------------------------------------------------
(* What the steps do to the loops *)

\* The loop goes on to a step, with the chunk and the error it has.
At(s, step) ==
  /\ loop' \in [Streams -> LoopStates]
  /\ \A r \in Streams \ {s} : loop'[r] = loop[r]
  /\ loop'[s].at = step /\ loop'[s].first = loop[s].first
  /\ loop'[s].last = loop[s].last /\ loop'[s].err = loop[s].err

LEMMA Going ==
  ASSUME loop \in [Streams -> LoopStates], NEW s \in Streams, NEW step \in LoopSteps,
         Goto(s, step)
  PROVE  At(s, step)
<1>1. loop[s] \in LoopStates
  OBVIOUS
<1>2. [loop[s] EXCEPT !.at = step] \in LoopStates
  BY <1>1 DEF LoopStates
<1>3. loop' = [loop EXCEPT ![s] = [loop[s] EXCEPT !.at = step]]
  BY DEF Goto
<1>4. QED
  BY <1>1, <1>2, <1>3 DEF At, LoopStates

\* It has a new chunk, or has come to the end of the stream.
Cuts(s, last, err) ==
  /\ loop' \in [Streams -> LoopStates] /\ cut' \in [Streams -> Nat]
  /\ \A r \in Streams \ {s} : loop'[r] = loop[r] /\ cut'[r] = cut[r]
  /\ cut'[s] = last
  /\ loop'[s].first = cut[s] + 1 /\ loop'[s].last = last /\ loop'[s].err = err
  /\ loop'[s].at = IF last = cut[s] THEN "done" ELSE "lock"

LEMMA Cutting ==
  ASSUME Typed, NEW s \in Streams, NEW last \in Nat, NEW err \in ReadErrors,
         Chunk(s, last, err)
  PROVE  Cuts(s, last, err)
<1>1. cut[s] \in Nat /\ cut[s] + 1 \in Nat
  BY DEF Typed
<1>2. PICK q : q = [at |-> IF last = cut[s] THEN "done" ELSE "lock",
                    first |-> cut[s] + 1, last |-> last, err |-> err]
  OBVIOUS
<1>3. /\ q \in LoopStates
      /\ q.at = (IF last = cut[s] THEN "done" ELSE "lock") /\ q.first = cut[s] + 1
      /\ q.last = last /\ q.err = err
  BY <1>1, <1>2 DEF LoopStates, LoopSteps
<1>4. loop' = [loop EXCEPT ![s] = q] /\ cut' = [cut EXCEPT ![s] = last]
  BY <1>2 DEF Chunk
<1>5. QED
  BY <1>3, <1>4 DEF Typed, Cuts

\* A stream that a step does not touch.
LEMMA LoopFrame ==
  ASSUME NEW r \in Streams, LoopInv(r),
         loop'[r] = loop[r], cut'[r] = cut[r], taken'[r] = taken[r], wrote'[r] = wrote[r],
         ends'[r] = ends[r], out' = out, mtx' = r <=> mtx = r,
         main' = main, open' \subseteq open, faults' = 0 => faults = 0
  PROVE  LoopInv(r)'
<1>1. Bounds(r)'
  BY DEF LoopInv, Bounds
<1>2. HasMutex(r)'
  BY DEF LoopInv, HasMutex
<1>3. InHand(r)'
  BY DEF LoopInv, InHand, LoggedTo, IsEntry
<1>4. AtError(r)'
  BY DEF LoopInv, AtError
<1>5. QED
  BY <1>1, <1>2, <1>3, <1>4 DEF LoopInv

\* The log, when no line is written and no loop has or gets a newline to write.
LEMMA LogFrame ==
  ASSUME LogInv, out' = out, faults' = 0 => faults = 0,
         \A s \in Streams : loop'[s].at = "newline" <=> loop[s].at = "newline"
  PROVE  LogInv'
<1>1. EntriesWhole' /\ LogIsPrefix'
  BY DEF LogInv, EntriesWhole, LogIsPrefix, LoggedTo, IsEntry
<1>2. Paired'
  BY DEF LogInv, Paired
<1>3. QED
  BY <1>1, <1>2 DEF LogInv

\* Failures are counted up.
LEMMA Faults ==
  ASSUME faults \in 0 .. MaxFaults, Works \/ Fails \/ UNCHANGED faults
  PROVE  faults' \in 0 .. MaxFaults /\ (faults' = 0 => faults = 0) /\ (Fails => faults' # 0)
<1>1. faults \in Nat /\ MaxFaults \in Nat
  BY SizeAssumption
<1>2. QED
  BY <1>1 DEF Works, Fails

\* As long as logshim runs the exit status says nothing.
LEMMA ExitFrame ==
  ASSUME main' # "exited"
  PROVE  ExitTells'
BY DEF ExitTells

-----------------------------------------------------------------------------
(* Every action preserves the invariant *)

LEMMA InitInv == Init => IInv
<1> SUFFICES ASSUME Init PROVE IInv
  OBVIOUS
<1>1. Typed
  <2>1. loop \in [Streams -> LoopStates]
    BY DEF Init, LoopStates, LoopSteps, ReadErrors
  <2>2. out = <<>> /\ <<>> \in Seq(Lines)
    BY DEF Init
  <2>3. faults \in 0 .. MaxFaults /\ exit \in 0 .. 255 /\ code \in -1 .. 255
    <3>1. faults = 0 /\ exit = 0 /\ code = 0
      BY DEF Init
    <3>2. QED
      BY <3>1, SizeAssumption
  <2>4. /\ wrote \in [Streams -> Nat] /\ ends \in [Streams -> SUBSET Nat]
        /\ taken \in [Streams -> Nat] /\ cut \in [Streams -> Nat]
    BY DEF Init
  <2>5. /\ main = "start" /\ alive = FALSE /\ code = 0 /\ open = {} /\ mtx = NoStream
    BY DEF Init
  <2>6. QED
    BY <2>1, <2>2, <2>3, <2>4, <2>5 DEF Typed
<1>2. ASSUME NEW s \in Streams PROVE LoopInv(s)
  <2>1. /\ loop[s].at = "read" /\ loop[s].last = 0 /\ loop[s].err = "nil"
        /\ cut[s] = 0 /\ taken[s] = 0 /\ wrote[s] = 0 /\ ends[s] = {} /\ mtx = NoStream
        /\ Len(out) = 0
    BY DEF Init
  <2>2. MaxItems[s] \in Nat /\ PipeSize \in Nat /\ BufSize \in Nat /\ mtx # s
    BY <2>1, SizeAssumption, StreamAssumption
  <2>3. LoggedTo(s, Len(out), cut[s])
    BY <2>1 DEF LoggedTo
  <2>4. QED
    BY <2>1, <2>2, <2>3 DEF LoopInv, Bounds, HasMutex, InHand, AtError
<1>3. LogInv
  BY DEF Init, LogInv, EntriesWhole, LogIsPrefix, Paired
<1>4. ExitTells
  BY DEF Init, ExitTells
<1>5. QED
  BY <1>1, <1>2, <1>3, <1>4 DEF IInv

\* Start: no loop has read anything yet.
LEMMA StartInv == IInv /\ Start => IInv'
<1> SUFFICES ASSUME IInv, Start PROVE IInv'
  OBVIOUS
<1>0. Typed /\ LogInv /\ \A s \in Streams : LoopInv(s)
  BY DEF IInv
<1>1. /\ main = "start" /\ UNCHANGED <<code, wrote, ends, taken, cut, loop, mtx, out>>
      /\ faults' \in 0 .. MaxFaults /\ (faults' = 0 => faults = 0)
      /\ \/ main' = "wait" /\ alive' = TRUE /\ open' = Streams /\ exit' = exit
         \/ /\ main' = "exited" /\ exit' = 1 /\ faults' # 0
            /\ UNCHANGED <<alive, open>>
  <2>1. 1 % 256 = 1
    OBVIOUS
  <2>2. QED
    BY <1>0, <2>1, Faults DEF Start, Exit, Typed
<1>2. Typed'
  <2>1. exit' \in 0 .. 255
    <3>1. exit \in 0 .. 255 /\ 1 \in 0 .. 255
      BY <1>0 DEF Typed
    <3>2. exit' = exit \/ exit' = 1
      BY <1>1
    <3>3. QED
      BY <3>1, <3>2
  <2>2. alive' \in BOOLEAN
    BY <1>0, <1>1 DEF Typed
  <2>3. open' \subseteq Streams /\ main' \in {"start", "wait", "closed", "exited"}
    BY <1>0, <1>1 DEF Typed
  <2>4. QED
    BY <1>0, <1>1, <2>1, <2>2, <2>3 DEF Typed
<1>3. ASSUME NEW s \in Streams PROVE LoopInv(s)'
  <2>1. LoopInv(s) /\ loop[s].err = "nil"
    BY <1>0, <1>1 DEF LoopInv, AtError
  <2>2. Bounds(s)' /\ HasMutex(s)'
    BY <1>1, <2>1 DEF LoopInv, Bounds, HasMutex
  <2>3. InHand(s)'
    BY <1>1, <2>1 DEF LoopInv, InHand, LoggedTo, IsEntry
  <2>4. AtError(s)'
    BY <1>1, <2>1 DEF LoopInv, AtError
  <2>5. QED
    BY <2>2, <2>3, <2>4 DEF LoopInv
<1>4. LogInv'
  BY <1>0, <1>1, LogFrame
<1>5. ExitTells'
  BY <1>1 DEF ExitTells
<1>6. QED
  BY <1>2, <1>3, <1>4, <1>5 DEF IInv

\* A loop, when main goes on and nothing of the loop moves.
LEMMA MainGoesOn ==
  ASSUME NEW s \in Streams, LoopInv(s), UNCHANGED <<wrote, ends, taken, cut, loop, mtx, out>>,
         main # "start", main' \in {"closed", "exited"}, faults' = 0 => faults = 0
  PROVE  LoopInv(s)'
<1>1. Bounds(s)' /\ HasMutex(s)'
  BY DEF LoopInv, Bounds, HasMutex
<1>2. InHand(s)'
  BY DEF LoopInv, InHand, LoggedTo, IsEntry
<1>3. AtError(s)'
  BY DEF LoopInv, AtError
<1>4. QED
  BY <1>1, <1>2, <1>3 DEF LoopInv

LEMMA WaitInv == IInv /\ Wait => IInv'
<1> SUFFICES ASSUME IInv, Wait PROVE IInv'
  OBVIOUS
<1>0. Typed /\ LogInv /\ \A s \in Streams : LoopInv(s)
  BY DEF IInv
<1>1. /\ main = "wait" /\ main' = "closed"
      /\ UNCHANGED <<exit, alive, code, open, wrote, ends, taken, cut, loop, mtx, out, faults>>
  BY DEF Wait, commandVars
<1>2. Typed'
  BY <1>0, <1>1 DEF Typed
<1>3. \A s \in Streams : LoopInv(s)'
  BY <1>0, <1>1, MainGoesOn
<1>4. LogInv'
  BY <1>0, <1>1, LogFrame
<1>5. QED
  BY <1>1, <1>2, <1>3, <1>4, ExitFrame DEF IInv

\* PassCode: the exit status is the code of the command, as far as 8 bits hold it.
LEMMA PassCodeInv == IInv /\ PassCode => IInv'
<1> SUFFICES ASSUME IInv, PassCode PROVE IInv'
  OBVIOUS
<1>0. Typed /\ LogInv /\ \A s \in Streams : LoopInv(s)
  BY DEF IInv
<1>1. /\ main = "closed" /\ main' = "exited"
      /\ UNCHANGED <<alive, code, open, wrote, ends, taken, cut, loop, mtx, out>>
      /\ faults' \in 0 .. MaxFaults /\ (faults' = 0 => faults = 0)
      /\ exit' = code % 256 \/ (exit' = 1 /\ faults' # 0)
  <2>1. 1 % 256 = 1
    OBVIOUS
  <2>2. QED
    BY <1>0, <2>1, Faults DEF PassCode, Exit, Typed, commandVars
<1>2. exit' \in 0 .. 255
  <2>1. code \in Int
    BY <1>0 DEF Typed
  <2>2. code % 256 \in 0 .. 255
    BY <2>1
  <2>3. QED
    BY <1>1, <2>2
<1>3. Typed'
  BY <1>0, <1>1, <1>2 DEF Typed
<1>4. \A s \in Streams : LoopInv(s)'
  BY <1>0, <1>1, MainGoesOn
<1>5. LogInv'
  BY <1>0, <1>1, LogFrame
<1>6. ExitTells'
  BY <1>1 DEF ExitTells
<1>7. QED
  BY <1>3, <1>4, <1>5, <1>6 DEF IInv

\* Fatal: only a loop with a piece of a line ends logshim when no call has failed.
LEMMA FatalInv == ASSUME IInv, NEW s \in Streams, Fatal(s) PROVE IInv'
<1>0. Typed /\ LogInv /\ \A r \in Streams : LoopInv(r)
  BY DEF IInv
<1>1. /\ main \in {"wait", "closed"} /\ main' = "exited" /\ loop[s].at = "fatal" /\ exit' = 1
      /\ UNCHANGED <<alive, code, open, wrote, ends, taken, cut, loop, mtx, out, faults>>
  <2>1. 1 % 256 = 1
    OBVIOUS
  <2>2. QED
    BY <2>1 DEF Fatal, Running, Exit, commandVars
<1>2. Typed'
  BY <1>0, <1>1 DEF Typed
<1>3. \A r \in Streams : LoopInv(r)'
  BY <1>0, <1>1, MainGoesOn
<1>4. LogInv'
  BY <1>0, <1>1, LogFrame
<1>5. ExitTells'
  <2>1. faults = 0 => /\ loop[s].err = "closed" /\ loop[s].first <= loop[s].last
                      /\ loop[s].last \notin ends[s]
    BY <1>0, <1>1 DEF LoopInv, AtError
  <2>2. QED
    BY <1>1, <2>1 DEF ExitTells
<1>6. QED
  BY <1>2, <1>3, <1>4, <1>5 DEF IInv

\* CommandExits and Close: streams are closed, never opened.
LEMMA CommandExitsInv == IInv /\ CommandExits => IInv'
<1> SUFFICES ASSUME IInv, CommandExits PROVE IInv'
  OBVIOUS
<1>0. Typed /\ LogInv /\ \A s \in Streams : LoopInv(s)
  BY DEF IInv
<1>1. /\ main = "wait" /\ alive' = FALSE /\ code' \in Codes /\ open' \subseteq open
      /\ UNCHANGED <<main, exit, wrote, ends, taken, cut, loop, mtx, out, faults>>
  BY DEF CommandExits
<1>2. Typed'
  BY <1>0, <1>1, CodeAssumption DEF Typed
<1>3. \A s \in Streams : LoopInv(s)'
  BY <1>0, <1>1, LoopFrame
<1>4. LogInv'
  BY <1>0, <1>1, LogFrame
<1>5. QED
  BY <1>1, <1>2, <1>3, <1>4, ExitFrame DEF IInv

LEMMA CloseInv == ASSUME IInv, NEW s \in Streams, Close(s) PROVE IInv'
<1>0. Typed /\ LogInv /\ \A r \in Streams : LoopInv(r)
  BY DEF IInv
<1>1. /\ main = "wait" /\ open' = open \ {s}
      /\ UNCHANGED <<main, exit, alive, code, wrote, ends, taken, cut, loop, mtx, out, faults>>
  BY DEF Close
<1>2. Typed'
  BY <1>0, <1>1 DEF Typed
<1>3. \A r \in Streams : LoopInv(r)'
  BY <1>0, <1>1, LoopFrame
<1>4. LogInv'
  BY <1>0, <1>1, LogFrame
<1>5. QED
  BY <1>1, <1>2, <1>3, <1>4, ExitFrame DEF IInv

\* Write: the pipe has room, and the row of items grows.
LEMMA WriteInv == ASSUME IInv, NEW s \in Streams, Write(s) PROVE IInv'
<1>0. Typed /\ LogInv /\ LoopInv(s) /\ \A r \in Streams : LoopInv(r)
  BY DEF IInv
<1>1. /\ main = "wait" /\ s \in open
      /\ wrote[s] < MaxItems[s] /\ wrote[s] - taken[s] < PipeSize
      /\ wrote' = [wrote EXCEPT ![s] = @ + 1]
      /\ ends' = ends \/ ends' = [ends EXCEPT ![s] = @ \cup {wrote[s] + 1}]
      /\ UNCHANGED <<main, exit, alive, code, open, taken, cut, loop, mtx, out, faults>>
  BY DEF Write
<1>2. /\ wrote' \in [Streams -> Nat] /\ wrote'[s] = wrote[s] + 1
      /\ \A r \in Streams \ {s} : wrote'[r] = wrote[r]
  BY <1>0, <1>1 DEF Typed
<1>3. /\ ends' \in [Streams -> SUBSET Nat] /\ ends'[s] \subseteq ends[s] \cup {wrote[s] + 1}
      /\ \A r \in Streams \ {s} : ends'[r] = ends[r]
  <2>1. ends \in [Streams -> SUBSET Nat] /\ wrote[s] + 1 \in Nat
    BY <1>0 DEF Typed
  <2>2. PICK w : w = wrote[s] + 1
    OBVIOUS
  <2>3. ends[s] \cup {w} \in SUBSET Nat
    BY <2>1, <2>2
  <2>4. ends' = ends \/ ends' = [ends EXCEPT ![s] = ends[s] \cup {w}]
    BY <1>1, <2>2
  <2>5. QED
    BY <2>1, <2>2, <2>3, <2>4
<1>4. Typed'
  BY <1>0, <1>1, <1>2, <1>3 DEF Typed
<1>5. ASSUME NEW r \in Streams PROVE LoopInv(r)'
  <2>1. CASE r # s
    BY <1>0, <1>1, <1>2, <1>3, <2>1, LoopFrame
  <2>2. CASE r = s
    <3>1. /\ wrote[s] \in Nat /\ taken[s] \in Nat /\ cut[s] \in Nat /\ MaxItems[s] \in Nat
          /\ PipeSize \in Nat /\ BufSize \in Nat
      BY <1>0, SizeAssumption DEF Typed
    <3>2. Bounds(s)'
      <4>1. Bounds(s)
        BY <1>0 DEF LoopInv
      <4>2. ends'[s] \subseteq 1 .. wrote[s] + 1
        BY <1>3, <3>1, <4>1 DEF Bounds
      <4>3. QED
        BY <1>1, <1>2, <3>1, <4>1, <4>2 DEF Bounds
    <3>3. HasMutex(s)'
      BY <1>0, <1>1 DEF LoopInv, HasMutex
    <3>4. InHand(s)'
      BY <1>0, <1>1 DEF LoopInv, InHand, LoggedTo, IsEntry
    <3>5. AtError(s)'
      BY <1>0, <1>1 DEF LoopInv, AtError
    <3>6. QED
      BY <2>2, <3>2, <3>3, <3>4, <3>5 DEF LoopInv
  <2>3. QED
    BY <2>1, <2>2
<1>6. LogInv'
  BY <1>0, <1>1, LogFrame
<1>7. QED
  BY <1>1, <1>4, <1>5, <1>6, ExitFrame DEF IInv

\* Fill: no more than what was written, and than the buffer holds.
LEMMA FillInv == ASSUME IInv, NEW s \in Streams, Fill(s) PROVE IInv'
<1>0. Typed /\ LogInv /\ LoopInv(s) /\ \A r \in Streams : LoopInv(r)
  BY DEF IInv
<1>1. /\ main = "wait" /\ loop[s].at = "read"
      /\ taken[s] - cut[s] < BufSize /\ taken[s] < wrote[s]
      /\ taken' = [taken EXCEPT ![s] = Min({wrote[s], cut[s] + BufSize})]
      /\ UNCHANGED <<main, exit, alive, code, open, wrote, ends, cut, loop, mtx, out, faults>>
  BY DEF Fill, commandVars
<1>2. /\ wrote[s] \in Nat /\ taken[s] \in Nat /\ cut[s] \in Nat /\ MaxItems[s] \in Nat
      /\ PipeSize \in Nat /\ BufSize \in Nat
  BY <1>0, SizeAssumption DEF Typed
<1>3. PICK n : n = Min({wrote[s], cut[s] + BufSize})
  OBVIOUS
<1>4. n \in Nat /\ n \in {wrote[s], cut[s] + BufSize} /\ n <= wrote[s] /\ n <= cut[s] + BufSize
  <2>1. {wrote[s], cut[s] + BufSize} \subseteq Nat
    BY <1>2
  <2>2. QED
    BY <1>3, <2>1, LeastIsIn
<1>5. /\ taken' \in [Streams -> Nat] /\ taken'[s] = n
      /\ \A r \in Streams \ {s} : taken'[r] = taken[r]
  BY <1>0, <1>1, <1>3, <1>4 DEF Typed
<1>6. Typed'
  BY <1>0, <1>1, <1>5 DEF Typed
<1>7. ASSUME NEW r \in Streams PROVE LoopInv(r)'
  <2>1. CASE r # s
    BY <1>0, <1>1, <1>5, <2>1, LoopFrame
  <2>2. CASE r = s
    <3>1. Bounds(s)'
      <4>1. Bounds(s)
        BY <1>0 DEF LoopInv
      <4>2. cut[s] <= n /\ taken[s] <= n
        BY <1>1, <1>2, <1>4, <4>1 DEF Bounds
      <4>3. wrote[s] - n <= PipeSize /\ n - cut[s] <= BufSize
        BY <1>2, <1>4, <4>1, <4>2 DEF Bounds
      <4>4. QED
        BY <1>1, <1>4, <1>5, <4>1, <4>2, <4>3 DEF Bounds
    <3>2. HasMutex(s)'
      BY <1>0, <1>1 DEF LoopInv, HasMutex
    <3>3. InHand(s)'
      BY <1>0, <1>1 DEF LoopInv, InHand, LoggedTo, IsEntry
    <3>4. AtError(s)'
      BY <1>0, <1>1 DEF LoopInv, AtError
    <3>5. QED
      BY <2>2, <3>1, <3>2, <3>3, <3>4 DEF LoopInv
  <2>3. QED
    BY <2>1, <2>2
<1>8. LogInv'
  BY <1>0, <1>1, LogFrame
<1>9. QED
  BY <1>1, <1>6, <1>7, <1>8, ExitFrame DEF IInv

\* What ReadSlice returns: a line, a full buffer, or the rest of the stream.
LEMMA Sliced ==
  ASSUME Typed, NEW s \in Streams, Bounds(s), ReadSlice(s)
  PROVE  \E last \in Nat, err \in ReadErrors :
           /\ Chunk(s, last, err)
           /\ cut[s] <= last /\ last <= taken[s]
           /\ err = "nil" => last # cut[s]
           /\ err = "closed" => main = "closed" /\ (last # cut[s] => last \notin ends[s])
           /\ err = "EOF" => main = "wait" /\ s \notin open /\ last = wrote[s]
<1>1. /\ taken[s] \in Nat /\ cut[s] \in Nat /\ BufSize \in Nat \ {0} /\ ends[s] \subseteq Nat
      /\ cut[s] <= taken[s]
  BY SizeAssumption DEF Typed, Bounds
<1>2. {"nil", "closed", "EOF"} \subseteq ReadErrors
  BY DEF ReadErrors
<1>3. CASE LineEnds(s) # {} /\ Chunk(s, Min(LineEnds(s)), "nil")
  <2>1. LineEnds(s) \subseteq cut[s] + 1 .. taken[s]
    BY DEF LineEnds, Buffered
  <2>2. cut[s] + 1 .. taken[s] \subseteq Nat
    BY <1>1
  <2>3. PICK n : n = Min(LineEnds(s))
    OBVIOUS
  <2>4. n \in cut[s] + 1 .. taken[s]
    BY <1>3, <2>1, <2>2, <2>3, LeastIsIn
  <2>5. n \in Nat /\ cut[s] <= n /\ n <= taken[s] /\ n # cut[s]
    BY <1>1, <2>4
  <2>6. QED
    BY <1>2, <1>3, <2>3, <2>5
<1>4. CASE LineEnds(s) = {} /\ taken[s] - cut[s] = BufSize /\ Chunk(s, taken[s], "nil")
  <2>1. taken[s] # cut[s] /\ taken[s] <= taken[s]
    BY <1>1, <1>4
  <2>2. QED
    BY <1>1, <1>2, <1>4, <2>1
<1>5. CASE LineEnds(s) = {} /\ main = "closed" /\ Chunk(s, taken[s], "closed")
  <2>1. taken[s] # cut[s] => taken[s] \in cut[s] + 1 .. taken[s]
    BY <1>1
  <2>2. taken[s] # cut[s] => taken[s] \notin ends[s]
    BY <1>5, <2>1 DEF LineEnds, Buffered
  <2>3. taken[s] <= taken[s]
    BY <1>1
  <2>4. QED
    BY <1>1, <1>2, <1>5, <2>2, <2>3
<1>6. CASE main = "wait" /\ s \notin open /\ taken[s] = wrote[s] /\ Chunk(s, taken[s], "EOF")
  <2>1. taken[s] <= taken[s]
    BY <1>1
  <2>2. QED
    BY <1>1, <1>2, <1>6, <2>1
<1>7. QED
  BY <1>3, <1>4, <1>5, <1>6 DEF ReadSlice

\* ReadSlice: the chunk continues what is in the log.
LEMMA ReadSliceInv == ASSUME IInv, NEW s \in Streams, ReadSlice(s) PROVE IInv'
<1>0. Typed /\ LogInv /\ LoopInv(s) /\ Bounds(s) /\ \A r \in Streams : LoopInv(r)
  BY DEF IInv, LoopInv
<1>1. /\ main \in {"wait", "closed"} /\ loop[s].at = "read"
      /\ UNCHANGED <<main, exit, alive, code, open, wrote, ends, taken, mtx, out, faults>>
  BY DEF ReadSlice, Running, commandVars
<1>2. PICK last \in Nat, err \in ReadErrors :
        /\ Chunk(s, last, err)
        /\ cut[s] <= last /\ last <= taken[s]
        /\ err = "nil" => last # cut[s]
        /\ err = "closed" => main = "closed" /\ (last # cut[s] => last \notin ends[s])
        /\ err = "EOF" => main = "wait" /\ s \notin open /\ last = wrote[s]
  BY <1>0, Sliced
<1>3. Cuts(s, last, err)
  BY <1>0, <1>2, Cutting
<1>4. Typed'
  BY <1>0, <1>1, <1>3 DEF Typed, Cuts
<1>5. ASSUME NEW r \in Streams PROVE LoopInv(r)'
  <2>1. CASE r # s
    BY <1>0, <1>1, <1>3, <2>1, LoopFrame DEF Cuts
  <2>2. CASE r = s
    <3>1. /\ wrote[s] \in Nat /\ taken[s] \in Nat /\ cut[s] \in Nat /\ BufSize \in Nat
      BY <1>0, SizeAssumption DEF Typed
    <3>2. Bounds(s)'
      <4>1. taken[s] - last <= BufSize /\ last <= last
        BY <1>0, <1>2, <3>1 DEF Bounds
      <4>2. QED
        BY <1>0, <1>1, <1>2, <1>3, <4>1 DEF Bounds, Cuts
    <3>3. HasMutex(s)'
      BY <1>0, <1>1, <1>3 DEF LoopInv, HasMutex, Cuts
    <3>4. LoggedTo(s, Len(out), cut[s])
      BY <1>0, <1>1 DEF LoopInv, InHand
    <3>5. InHand(s)'
      <4>1. CASE last = cut[s]
        <5>1. loop'[s].at = "done" /\ cut'[s] = cut[s]
          BY <1>3, <4>1 DEF Cuts
        <5>2. QED
          BY <1>1, <3>4, <5>1 DEF InHand, LoggedTo, IsEntry
      <4>2. CASE last # cut[s]
        <5>1. /\ loop'[s].at = "lock" /\ loop'[s].first - 1 = cut[s]
              /\ loop'[s].first <= loop'[s].last /\ loop'[s].last = cut'[s]
          BY <1>2, <1>3, <3>1, <4>2 DEF Cuts
        <5>2. QED
          BY <1>1, <3>4, <5>1 DEF InHand, LoggedTo, IsEntry
      <4>3. QED
        BY <4>1, <4>2
    <3>6. AtError(s)'
      <4>1. last # cut[s] => cut[s] + 1 <= last
        BY <1>2, <3>1
      <4>2. QED
        BY <1>1, <1>2, <1>3, <4>1 DEF AtError, Cuts
    <3>7. QED
      BY <2>2, <3>2, <3>3, <3>5, <3>6 DEF LoopInv
  <2>3. QED
    BY <2>1, <2>2
<1>6. LogInv'
  BY <1>0, <1>1, <1>3, LogFrame DEF Cuts
<1>7. QED
  BY <1>1, <1>4, <1>5, <1>6, ExitFrame DEF IInv

\* Lock.
LEMMA LockInv == ASSUME IInv, NEW s \in Streams, Lock(s) PROVE IInv'
<1>0. Typed /\ LogInv /\ LoopInv(s) /\ \A r \in Streams : LoopInv(r)
  BY DEF IInv
<1>1. /\ main \in {"wait", "closed"} /\ loop[s].at = "lock" /\ mtx = NoStream /\ mtx' = s
      /\ UNCHANGED <<main, exit, alive, code, open, wrote, ends, taken, cut, out, faults>>
  BY DEF Lock, Running, commandVars
<1>2. At(s, "entry")
  BY <1>0, Going DEF Lock, Typed, LoopSteps
<1>3. Typed'
  BY <1>0, <1>1, <1>2 DEF Typed, At
<1>4. ASSUME NEW r \in Streams PROVE LoopInv(r)'
  <2>1. CASE r # s
    BY <1>0, <1>1, <1>2, <2>1, LoopFrame, StreamAssumption DEF At
  <2>2. CASE r = s
    <3>1. Bounds(s)' /\ HasMutex(s)'
      BY <1>0, <1>1, <1>2 DEF LoopInv, Bounds, HasMutex, At
    <3>2. InHand(s)'
      BY <1>0, <1>1, <1>2 DEF LoopInv, InHand, LoggedTo, IsEntry, At
    <3>3. AtError(s)'
      BY <1>0, <1>1, <1>2 DEF LoopInv, AtError, At
    <3>4. QED
      BY <2>2, <3>1, <3>2, <3>3 DEF LoopInv
  <2>3. QED
    BY <2>1, <2>2
<1>5. LogInv'
  BY <1>0, <1>1, <1>2, LogFrame DEF At
<1>6. QED
  BY <1>1, <1>3, <1>4, <1>5, ExitFrame DEF IInv

\* The other streams, when s writes a line with the mutex in its hands, and gives it back
\* or keeps it.
LEMMA OthersWait ==
  ASSUME NEW s \in Streams, NEW r \in Streams \ {s}, LoopInv(r), mtx = s,
         loop'[r] = loop[r], UNCHANGED <<main, open, wrote, ends, taken, cut>>,
         mtx' \in {s, NoStream}, faults' = 0 => faults = 0, out \in Seq(Lines),
         \/ UNCHANGED out
         \/ \E e \in Lines : e.of = s /\ out' = Append(out, e)
  PROVE  LoopInv(r)'
<1>1. Bounds(r)' /\ AtError(r)'
  BY DEF LoopInv, Bounds, AtError
<1>2. HasMutex(r)'
  BY StreamAssumption DEF LoopInv, HasMutex
<1>3. InHand(r)'
  <2>1. CASE UNCHANGED out
    BY <2>1 DEF LoopInv, InHand, LoggedTo, IsEntry
  <2>2. ASSUME NEW e \in Lines, e.of = s, out' = Append(out, e)
        PROVE  InHand(r)'
    <3>1. \A n : LoggedTo(r, Len(out), n) => LoggedTo(r, Len(out), n)'
      BY <2>2, OtherLine
    <3>2. PICK m, n : m = loop[r].first - 1 /\ n = cut[r]
      OBVIOUS
    <3>3. /\ LoggedTo(r, Len(out), m) => LoggedTo(r, Len(out), m)'
          /\ LoggedTo(r, Len(out), n) => LoggedTo(r, Len(out), n)'
      BY <3>1
    <3>4. /\ LoggedTo(r, Len(out), loop[r].first - 1) => LoggedTo(r, Len(out), loop[r].first - 1)'
          /\ LoggedTo(r, Len(out), cut[r]) => LoggedTo(r, Len(out), cut[r])'
      BY <3>2, <3>3
    <3>5. QED
      BY <3>4 DEF LoopInv, InHand
  <2>3. QED
    BY <2>1, <2>2
<1>4. QED
  BY <1>1, <1>2, <1>3 DEF LoopInv

\* Who has the mutex has no other beside it, and is not where it does not need it.
LEMMA OnlyOne ==
  ASSUME \A r \in Streams : LoopInv(r), NEW s \in Streams,
         loop[s].at \in {"entry", "newline"}
  PROVE  /\ mtx = s
         /\ \A r \in Streams \ {s} : loop[r].at \notin {"entry", "newline"}
BY DEF LoopInv, HasMutex

\* A call of syncWrite that fails.
LEMMA WriteFails ==
  ASSUME IInv, NEW s \in Streams, main \in {"wait", "closed"},
         loop[s].at \in {"entry", "newline"}, Fails, At(s, "fatal"), mtx' = NoStream,
         UNCHANGED <<main, exit, alive, code, open, wrote, ends, taken, cut, out>>
  PROVE  IInv'
<1>0. Typed /\ LogInv /\ LoopInv(s) /\ \A r \in Streams : LoopInv(r)
  BY DEF IInv
<1>1. faults' \in 0 .. MaxFaults /\ faults' # 0
  BY <1>0, Faults DEF Typed
<1>2. Typed'
  BY <1>0, <1>1 DEF Typed, At
<1>3. mtx = s
  BY <1>0, OnlyOne
<1>4. ASSUME NEW r \in Streams PROVE LoopInv(r)'
  <2>1. CASE r # s
    BY <1>0, <1>1, <1>3, <2>1, OthersWait DEF At, Typed
  <2>2. CASE r = s
    <3>1. Bounds(s)'
      BY <1>0 DEF LoopInv, Bounds, At
    <3>2. HasMutex(s)' /\ InHand(s)'
      BY StreamAssumption DEF HasMutex, InHand, At
    <3>3. AtError(s)'
      BY <1>0, <1>1 DEF LoopInv, AtError, At
    <3>4. QED
      BY <2>2, <3>1, <3>2, <3>3 DEF LoopInv
  <2>3. QED
    BY <2>1, <2>2
<1>5. LogInv'
  BY <1>0, <1>1 DEF LogInv, EntriesWhole, Paired, LogIsPrefix, LoggedTo, IsEntry
<1>6. QED
  BY <1>2, <1>4, <1>5, ExitFrame DEF IInv

\* WriteEntry: the entry follows a newline, and continues its stream.
LEMMA WriteEntryInv == ASSUME IInv, NEW s \in Streams, WriteEntry(s) PROVE IInv'
<1>0. Typed /\ LogInv /\ LoopInv(s) /\ \A r \in Streams : LoopInv(r)
  BY DEF IInv
<1>1. /\ main \in {"wait", "closed"} /\ loop[s].at = "entry"
      /\ UNCHANGED <<main, exit, alive, code, open, wrote, ends, taken, cut>>
  BY DEF WriteEntry, Running, commandVars
<1>2. mtx = s /\ \A r \in Streams \ {s} : loop[r].at \notin {"entry", "newline"}
  BY <1>0, <1>1, OnlyOne
<1>3. CASE Fails /\ Goto(s, "fatal") /\ mtx' = NoStream /\ UNCHANGED out
  <2>1. At(s, "fatal")
    BY <1>0, <1>3, Going DEF Typed, LoopSteps
  <2>2. QED
    BY <1>1, <1>3, <2>1, WriteFails
<1>4. CASE /\ UNCHANGED <<faults, mtx>> /\ Goto(s, "newline")
           /\ out' = Append(out, [what |-> "entry", of |-> s,
                                  first |-> loop[s].first, last |-> loop[s].last])
  <2>1. At(s, "newline")
    BY <1>0, <1>4, Going DEF Typed, LoopSteps
  <2>2. PICK e : e = [what |-> "entry", of |-> s, first |-> loop[s].first, last |-> loop[s].last]
    OBVIOUS
  <2>3. /\ e \in Lines /\ e.what = "entry" /\ e.of = s
        /\ e.first = loop[s].first /\ e.last = loop[s].last
    BY <1>0, <2>2 DEF Typed, LoopStates, Lines
  <2>4. out' = Append(out, e) /\ out \in Seq(Lines)
    BY <1>0, <1>4, <2>2 DEF Typed
  <2>5. /\ Len(out) \in Nat /\ Len(out') = Len(out) + 1 /\ out'[Len(out) + 1] = e
        /\ \A i \in 1 .. Len(out) : out'[i] = out[i]
    BY <2>3, <2>4
  <2>6. Typed'
    <3>1. out' \in Seq(Lines)
      BY <2>3, <2>4
    <3>2. QED
      BY <1>0, <1>1, <1>4, <2>1, <3>1 DEF Typed, At
  <2>7. ASSUME NEW r \in Streams PROVE LoopInv(r)'
    <3>1. CASE r # s
      BY <1>0, <1>1, <1>2, <1>4, <2>1, <2>3, <2>4, <3>1, OthersWait DEF At
    <3>2. CASE r = s
      <4>1. Bounds(s)' /\ HasMutex(s)'
        BY <1>0, <1>1, <1>2, <1>4, <2>1 DEF LoopInv, Bounds, HasMutex, At
      <4>2. InHand(s)'
        <5>1. LoggedTo(s, Len(out), e.last)'
          BY <2>3, <2>4, OwnEntry
        <5>2. e.last = cut'[s]
          BY <1>0, <1>1, <2>3 DEF LoopInv, InHand
        <5>3. QED
          BY <2>1, <5>1, <5>2 DEF InHand, At
      <4>3. AtError(s)'
        BY <1>0, <1>1, <1>4, <2>1 DEF LoopInv, AtError, At
      <4>4. QED
        BY <3>2, <4>1, <4>2, <4>3 DEF LoopInv
    <3>3. QED
      BY <3>1, <3>2
  <2>8. LogInv'
    <3>1. faults = 0 => Len(out) % 2 = 0
      <4>1. faults = 0 => Len(out) % 2 # 1
        BY <1>0, <1>1, <1>2 DEF LogInv, Paired
      <4>2. QED
        BY <2>5, <4>1
    <3>2. faults = 0 => (Len(out) + 1) % 2 = 1
      BY <2>5, <3>1
    <3>3. EntriesWhole'
      <4> SUFFICES ASSUME faults = 0, NEW i \in 1 .. Len(out')
                   PROVE  /\ out'[i].what = IF i % 2 = 1 THEN "entry" ELSE "newline"
                          /\ out'[i].what = "newline" => out'[i].of = out'[i - 1].of
        BY <1>4 DEF EntriesWhole
      <4>1. CASE i \in 1 .. Len(out)
        <5>1. /\ out[i].what = IF i % 2 = 1 THEN "entry" ELSE "newline"
              /\ out[i].what = "newline" => out[i].of = out[i - 1].of
          BY <1>0, <4>1 DEF LogInv, EntriesWhole
        <5>2. CASE i = 1
          BY <2>5, <4>1, <5>1, <5>2
        <5>3. CASE i # 1
          <6>1. i - 1 \in 1 .. Len(out)
            BY <2>5, <4>1, <5>3
          <6>2. QED
            BY <2>5, <4>1, <5>1, <6>1
        <5>4. QED
          BY <5>2, <5>3
      <4>2. CASE i = Len(out) + 1
        BY <2>3, <2>5, <3>2, <4>2
      <4>3. QED
        BY <2>5, <4>1, <4>2
    <3>4. LogIsPrefix'
      <4>1. LoggedTo(s, Len(out), e.first - 1)
        BY <1>0, <1>1, <2>3 DEF LoopInv, InHand
      <4>2. QED
        BY <1>0, <2>3, <2>4, <4>1, PrefixGrows DEF LogInv
    <3>5. Paired'
      BY <1>2, <1>4, <2>1, <2>3, <2>5, <3>2 DEF Paired, At
    <3>6. QED
      BY <3>3, <3>4, <3>5 DEF LogInv
  <2>9. QED
    BY <1>1, <2>6, <2>7, <2>8, ExitFrame DEF IInv
<1>5. QED
  BY <1>3, <1>4 DEF WriteEntry, Works

\* WriteNewline: the newline follows the entry of the same loop.
LEMMA WriteNewlineInv == ASSUME IInv, NEW s \in Streams, WriteNewline(s) PROVE IInv'
<1>0. Typed /\ LogInv /\ LoopInv(s) /\ \A r \in Streams : LoopInv(r)
  BY DEF IInv
<1>1. /\ main \in {"wait", "closed"} /\ loop[s].at = "newline" /\ mtx' = NoStream
      /\ UNCHANGED <<main, exit, alive, code, open, wrote, ends, taken, cut>>
  BY DEF WriteNewline, Running, commandVars
<1>2. mtx = s /\ \A r \in Streams \ {s} : loop[r].at \notin {"entry", "newline"}
  BY <1>0, <1>1, OnlyOne
<1>3. CASE Fails /\ Goto(s, "fatal") /\ UNCHANGED out
  <2>1. At(s, "fatal")
    BY <1>0, <1>3, Going DEF Typed, LoopSteps
  <2>2. QED
    BY <1>1, <1>3, <2>1, WriteFails
<1>4. ASSUME UNCHANGED faults,
             Goto(s, CASE loop[s].err = "nil" -> "read"
                       [] loop[s].err = "EOF" -> "done"
                       [] loop[s].err = "closed" -> "fatal"),
             out' = Append(out, [what |-> "newline", of |-> s, first |-> 0, last |-> 0])
      PROVE  IInv'
  <2>1. PICK step \in {"read", "done", "fatal"} :
          /\ At(s, step)
          /\ step = "done" => loop[s].err = "EOF"
          /\ step = "fatal" => loop[s].err = "closed"
    <3>1. loop[s].err \in {"nil", "EOF", "closed"}
      BY <1>0 DEF Typed, LoopStates, ReadErrors
    <3>2. PICK step : step = CASE loop[s].err = "nil" -> "read"
                               [] loop[s].err = "EOF" -> "done"
                               [] loop[s].err = "closed" -> "fatal"
      OBVIOUS
    <3>3. /\ step \in {"read", "done", "fatal"} /\ step \in LoopSteps
          /\ step = "done" => loop[s].err = "EOF"
          /\ step = "fatal" => loop[s].err = "closed"
      BY <3>1, <3>2 DEF LoopSteps
    <3>4. At(s, step)
      BY <1>0, <1>4, <3>2, <3>3, Going DEF Typed
    <3>5. QED
      BY <3>3, <3>4
  <2>2. PICK e : e = [what |-> "newline", of |-> s, first |-> 0, last |-> 0]
    OBVIOUS
  <2>3. e \in Lines /\ e.what = "newline" /\ e.of = s
    BY <2>2 DEF Lines
  <2>4. out' = Append(out, e) /\ out \in Seq(Lines)
    BY <1>0, <1>4, <2>2 DEF Typed
  <2>5. /\ Len(out) \in Nat /\ Len(out') = Len(out) + 1 /\ out'[Len(out) + 1] = e
        /\ \A i \in 1 .. Len(out) : out'[i] = out[i]
    BY <2>3, <2>4
  <2>6. Typed'
    <3>1. out' \in Seq(Lines)
      BY <2>3, <2>4
    <3>2. QED
      BY <1>0, <1>1, <1>4, <2>1, <3>1 DEF Typed, At
  <2>7. ASSUME NEW r \in Streams PROVE LoopInv(r)'
    <3>1. CASE r # s
      BY <1>0, <1>1, <1>2, <1>4, <2>1, <2>3, <2>4, <3>1, OthersWait DEF At
    <3>2. CASE r = s
      <4>1. Bounds(s)' /\ HasMutex(s)'
        BY <1>0, <1>1, <2>1, StreamAssumption DEF LoopInv, Bounds, HasMutex, At
      <4>2. InHand(s)'
        <5>1. LoggedTo(s, Len(out), cut[s])
          BY <1>0, <1>1 DEF LoopInv, InHand
        <5>2. PICK n : n = cut[s]
          OBVIOUS
        <5>3. LoggedTo(s, Len(out), n)'
          BY <2>3, <2>4, <5>1, <5>2, OtherLine
        <5>4. n = cut'[s]
          BY <1>1, <5>2
        <5>5. QED
          BY <2>1, <5>3, <5>4 DEF InHand, At
      <4>3. AtError(s)'
        BY <1>0, <1>1, <1>4, <2>1 DEF LoopInv, AtError, At
      <4>4. QED
        BY <3>2, <4>1, <4>2, <4>3 DEF LoopInv
    <3>3. QED
      BY <3>1, <3>2
  <2>8. LogInv'
    <3>1. faults = 0 => Len(out) % 2 = 1 /\ out[Len(out)].of = s
      BY <1>0, <1>1 DEF LogInv, Paired
    <3>2. faults = 0 => (Len(out) + 1) % 2 = 0
      BY <2>5, <3>1
    <3>3. EntriesWhole'
      <4> SUFFICES ASSUME faults = 0, NEW i \in 1 .. Len(out')
                   PROVE  /\ out'[i].what = IF i % 2 = 1 THEN "entry" ELSE "newline"
                          /\ out'[i].what = "newline" => out'[i].of = out'[i - 1].of
        BY <1>4 DEF EntriesWhole
      <4>1. CASE i \in 1 .. Len(out)
        <5>1. /\ out[i].what = IF i % 2 = 1 THEN "entry" ELSE "newline"
              /\ out[i].what = "newline" => out[i].of = out[i - 1].of
          BY <1>0, <4>1 DEF LogInv, EntriesWhole
        <5>2. CASE i = 1
          BY <2>5, <4>1, <5>1, <5>2
        <5>3. CASE i # 1
          <6>1. i - 1 \in 1 .. Len(out)
            BY <2>5, <4>1, <5>3
          <6>2. QED
            BY <2>5, <4>1, <5>1, <6>1
        <5>4. QED
          BY <5>2, <5>3
      <4>2. CASE i = Len(out) + 1
        <5>1. i - 1 = Len(out) /\ Len(out) \in 1 .. Len(out)
          BY <2>5, <3>1, <4>2
        <5>2. out'[i - 1].of = s /\ out'[i] = e
          BY <2>5, <3>1, <4>2, <5>1
        <5>3. QED
          BY <2>3, <3>2, <4>2, <5>2
      <4>3. QED
        BY <2>5, <4>1, <4>2
    <3>4. LogIsPrefix'
      BY <1>0, <2>3, <2>4, PrefixGrows DEF LogInv
    <3>5. Paired'
      <4>1. \A r \in Streams : loop'[r].at # "newline"
        BY <1>2, <2>1 DEF At
      <4>2. faults = 0 => Len(out') % 2 # 1
        BY <2>5, <3>2
      <4>3. QED
        BY <1>4, <4>1, <4>2 DEF Paired
    <3>6. QED
      BY <3>3, <3>4, <3>5 DEF LogInv
  <2>9. QED
    BY <1>1, <2>6, <2>7, <2>8, ExitFrame DEF IInv
<1>5. QED
  BY <1>3, <1>4 DEF WriteNewline, Works

\* A state that stays as it is.
LEMMA StutterInv == IInv /\ UNCHANGED vars => IInv'
<1> SUFFICES ASSUME IInv, UNCHANGED vars PROVE IInv'
  OBVIOUS
<1>1. Typed /\ LogInv /\ \A s \in Streams : LoopInv(s)
  BY DEF IInv
<1>2. UNCHANGED <<main, exit, alive, code, open, wrote, ends, taken, cut, loop, mtx, out, faults>>
  BY DEF vars
<1>3. Typed'
  BY <1>1, <1>2 DEF Typed
<1>4. \A s \in Streams : LoopInv(s)'
  BY <1>1, <1>2, LoopFrame
<1>5. LogInv'
  BY <1>1, <1>2, LogFrame
<1>6. ExitTells'
  BY <1>2 DEF IInv, ExitTells
<1>7. QED
  BY <1>3, <1>4, <1>5, <1>6 DEF IInv

-----------------------------------------------------------------------------
(* The theorems *)

\* No step of logshim or of the command breaks the invariant.
LEMMA StepInv == IInv /\ [Next]_vars => IInv'
BY StartInv, WaitInv, PassCodeInv, CommandExitsInv, WriteInv, CloseInv, LockInv, FillInv,
   ReadSliceInv, WriteEntryInv, WriteNewlineInv, FatalInv, StutterInv
   DEF Next, LoopStep

\* The inductive invariant holds in every reachable state.
THEOREM IInvHolds == Spec => []IInv
BY InitInv, StepInv, PTL DEF Spec

\* The variables keep their types, pipe and buffer their sizes.
THEOREM TypeCorrect == Spec => []TypeOK
<1>1. IInv => TypeOK
  <2> SUFFICES ASSUME IInv PROVE TypeOK
    OBVIOUS
  <2>1. Typed /\ \A s \in Streams : Bounds(s)
    BY DEF IInv, LoopInv
  <2>2. ASSUME NEW s \in Streams
        PROVE  /\ loop[s].at \in LoopSteps /\ loop[s].err \in ReadErrors
               /\ 0 <= loop[s].first /\ 0 <= cut[s]
    BY <2>1 DEF Typed, LoopStates
  <2>3. QED
    BY <2>1, <2>2 DEF Typed, Bounds, TypeOK
<1>2. QED
  BY <1>1, IInvHolds, PTL

\* Without a failing call the log is made of whole entries, for any streams.
THEOREM EntriesAreWhole == Spec => []EntriesWhole
<1>1. IInv => EntriesWhole
  BY DEF IInv, LogInv
<1>2. QED
  BY <1>1, IInvHolds, PTL

\* The log has a beginning of every stream, for any sizes of lines, pipe and buffer.
THEOREM LogHasPrefix == Spec => []LogIsPrefix
<1>1. IInv => LogIsPrefix
  BY DEF IInv, LogInv
<1>2. QED
  BY <1>1, IInvHolds, PTL

\* A loop that ends while main waits has logged the whole stream.
THEOREM EndIsLogged == Spec => []EndedIsLogged
<1>1. IInv => EndedIsLogged
  <2> SUFFICES ASSUME IInv, main = "wait", NEW s \in Streams, loop[s].at = "done"
               PROVE  LoggedTo(s, Len(out), wrote[s])
    BY DEF EndedIsLogged
  <2>1. LoopInv(s) /\ loop[s].err \in {"nil", "EOF", "closed"}
    BY DEF IInv, Typed, LoopStates, ReadErrors
  <2>2. wrote[s] = cut[s]
    BY <2>1 DEF LoopInv, AtError
  <2>3. QED
    BY <2>1, <2>2 DEF LoopInv, InHand
<1>2. QED
  BY <1>1, IInvHolds, PTL

\* The exit status is the command's, or tells of an error, for any exit code.
THEOREM ExitStatusTells == Spec => []ExitTells
<1>1. IInv => ExitTells
  BY DEF IInv
<1>2. QED
  BY <1>1, IInvHolds, PTL
=============================================================================
