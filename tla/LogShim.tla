------------------------------- MODULE LogShim -------------------------------
(***************************************************************************)
(* cmd/logshim/main.go, the process portoshim puts in front of the command *)
(* of a container.  It starts the command with a pipe for each of its      *)
(* output streams, turns what comes through the pipes into log entries on  *)
(* its own stdout, and exits with the exit code of the command.            *)
(*                                                                         *)
(* Three goroutines run at the same time: one streamLoop per stream, which *)
(* share stdout under a mutex, and main, which waits for the command, not  *)
(* for the loops.                                                          *)
(*                                                                         *)
(* What the command writes to a stream is a row of items, numbered from 1; *)
(* an item is a piece of a line or ends one.  Pipe and read buffer are     *)
(* described by how far the row has been written, read and cut.            *)
(***************************************************************************)
EXTENDS Integers, Sequences, FiniteSetsExt

CONSTANTS
  Streams,     \* the output streams, stdout and stderr
  NoStream,    \* the holder of a free mutex
  Codes,       \* what ExitCode reports of the command: 0 .. 255, -1 if killed
  MaxItems,    \* MaxItems[s]: bound on the items written to s
  PipeSize,    \* items a pipe holds
  BufSize,     \* items the buffer of bufio.Reader holds
  MaxFaults    \* bound on failing calls

ASSUME StreamAssumption == NoStream \notin Streams
ASSUME CodeAssumption == Codes \subseteq -1 .. 255
ASSUME SizeAssumption ==
  /\ MaxItems \in [Streams -> Nat] /\ MaxFaults \in Nat
  /\ PipeSize \in Nat \ {0} /\ BufSize \in Nat \ {0}

VARIABLES
  main,     \* "start", "wait", "closed" once Wait has returned, "exited"
  exit,     \* the status logshim exits with
  alive,    \* the command runs
  code,     \* how it ended
  open,     \* the streams someone can still write to: the command, or a
            \* process it left behind
  wrote,    \* wrote[s]: items written to s
  ends,     \* ends[s]: those that end a line
  taken,    \* taken[s]: items read from the pipe
  cut,      \* cut[s]: items ReadSlice has returned
  loop,     \* loop[s]: where streamLoop is, its chunk, and readErr
  mtx,      \* the holder of logMtx
  out,      \* what stdout got
  faults    \* failing calls so far

commandVars == <<alive, code, open, wrote, ends>>
vars == <<main, exit, alive, code, open, wrote, ends, taken, cut, loop, mtx, out,
          faults>>

ReadErrors == {"nil", "EOF", "closed"}
LoopSteps == {"read", "lock", "entry", "newline", "fatal", "done"}

TypeOK ==
  /\ main \in {"start", "wait", "closed", "exited"}
  /\ exit \in 0 .. 255
  /\ alive \in BOOLEAN
  /\ code \in Codes \cup {0}
  /\ open \subseteq Streams
  /\ mtx \in Streams \cup {NoStream}
  /\ \A s \in Streams :
       /\ loop[s].at \in LoopSteps /\ loop[s].err \in ReadErrors
       /\ 0 <= loop[s].first /\ loop[s].last <= cut[s]
       /\ 0 <= cut[s] /\ cut[s] <= taken[s] /\ taken[s] <= wrote[s]
       /\ wrote[s] <= MaxItems[s] /\ ends[s] \subseteq 1 .. wrote[s]
       /\ wrote[s] - taken[s] <= PipeSize /\ taken[s] - cut[s] <= BufSize
  /\ faults \in 0 .. MaxFaults

Init ==
  /\ main = "start"
  /\ exit = 0
  /\ alive = FALSE
  /\ code = 0
  /\ open = {}
  /\ wrote = [s \in Streams |-> 0]
  /\ ends = [s \in Streams |-> {}]
  /\ taken = [s \in Streams |-> 0]
  /\ cut = [s \in Streams |-> 0]
  /\ loop = [s \in Streams |-> [at |-> "read", first |-> 0, last |-> 0, err |-> "nil"]]
  /\ mtx = NoStream
  /\ out = <<>>
  /\ faults = 0

-----------------------------------------------------------------------------
Works == UNCHANGED faults
Fails == faults < MaxFaults /\ faults' = faults + 1

\* The loops run.
Running == main \in {"wait", "closed"}

Goto(s, step) == loop' = [loop EXCEPT ![s].at = step]

\* The process ends; an exit status has 8 bits.
Exit(status) == main' = "exited" /\ exit' = status % 256

-----------------------------------------------------------------------------
(* The command *)

\* Someone who has the stream open writes an item, if there is room in the pipe.
\* Once the read end is closed a write fails.
Write(s) ==
  /\ main = "wait" /\ s \in open
  /\ wrote[s] < MaxItems[s] /\ wrote[s] - taken[s] < PipeSize
  /\ wrote' = [wrote EXCEPT ![s] = @ + 1]
  /\ ends' \in {ends, [ends EXCEPT ![s] = @ \cup {wrote[s] + 1}]}
  /\ UNCHANGED <<main, exit, alive, code, open, taken, cut, loop, mtx, out, faults>>

\* The command ends.  A process it leaves behind may keep streams open.
CommandExits ==
  /\ main = "wait" /\ alive
  /\ alive' = FALSE
  /\ code' \in Codes
  /\ open' \in SUBSET open
  /\ UNCHANGED <<main, exit, wrote, ends, taken, cut, loop, mtx, out, faults>>

\* A stream is closed by the last who had it; after Wait nobody looks.
Close(s) ==
  /\ main = "wait" /\ s \in open
  /\ open' = open \ {s}
  /\ UNCHANGED <<main, exit, alive, code, wrote, ends, taken, cut, loop, mtx, out,
                 faults>>

-----------------------------------------------------------------------------
(* main *)

\* Pipes are made and the command is started; an error ends logshim.
Start ==
  /\ main = "start"
  /\ \/ Works /\ main' = "wait" /\ alive' = TRUE /\ open' = Streams /\ UNCHANGED exit
     \/ Fails /\ Exit(1) /\ UNCHANGED <<alive, open>>
  /\ UNCHANGED <<code, wrote, ends, taken, cut, loop, mtx, out>>

\* Wait returns once the command has ended, and closes the read ends.
Wait ==
  /\ main = "wait" /\ ~alive
  /\ main' = "closed"
  /\ UNCHANGED <<exit, commandVars, taken, cut, loop, mtx, out, faults>>

\* main passes the exit code on, at once: os.Exit ends the loops where they are.
PassCode ==
  /\ main = "closed"
  /\ \/ Works /\ Exit(code)
     \/ Fails /\ Exit(1)
  /\ UNCHANGED <<commandVars, taken, cut, loop, mtx, out>>

-----------------------------------------------------------------------------
(* streamLoop *)

\* The items in the buffer, and those that end a line.
Buffered(s) == cut[s] + 1 .. taken[s]
LineEnds(s) == Buffered(s) \cap ends[s]

\* ReadSlice reads from the pipe what fits.
Fill(s) ==
  /\ main = "wait" /\ loop[s].at = "read"
  /\ LineEnds(s) = {} /\ taken[s] - cut[s] < BufSize /\ taken[s] < wrote[s]
  /\ taken' = [taken EXCEPT ![s] = Min({wrote[s], cut[s] + BufSize})]
  /\ UNCHANGED <<main, exit, commandVars, cut, loop, mtx, out, faults>>

\* Mutant: streamLoop looks at readErr, and not at the length of the chunk, first.
ChunkErrFirst(s, last, err) ==
  /\ cut' = [cut EXCEPT ![s] = last]
  /\ loop' = [loop EXCEPT ![s] =
       [at |-> IF err = "closed" THEN "fatal"
               ELSE IF last = cut[s] THEN "done" ELSE "lock",
        first |-> cut[s] + 1, last |-> last, err |-> err]]

\* ReadSlice returns the chunk up to item last, with err; an empty one ends the
\* loop.
Chunk(s, last, err) ==
  /\ cut' = [cut EXCEPT ![s] = last]
  /\ loop' = [loop EXCEPT ![s] =
       [at |-> IF last = cut[s] THEN "done" ELSE "lock",
        first |-> cut[s] + 1, last |-> last, err |-> err]]

\* Mutant: a full buffer is dropped, as a line too long.
ReadSliceDropsLong(s) ==
  /\ Running /\ loop[s].at = "read"
  /\ \/ LineEnds(s) # {} /\ Chunk(s, Min(LineEnds(s)), "nil")
     \/ /\ LineEnds(s) = {}
        /\ \/ /\ taken[s] - cut[s] = BufSize
              /\ cut' = [cut EXCEPT ![s] = taken[s]] /\ UNCHANGED loop
           \/ main = "closed" /\ taken[s] - cut[s] < BufSize /\ Chunk(s, taken[s], "closed")
           \/ /\ main = "wait" /\ s \notin open /\ taken[s] = wrote[s]
              /\ taken[s] - cut[s] < BufSize
              /\ Chunk(s, taken[s], "EOF")
  /\ UNCHANGED <<main, exit, commandVars, taken, mtx, out, faults>>

\* Mutant: a chunk without a line end is not looked at when an error came with it.
ReadSliceDropsRest(s) ==
  /\ Running /\ loop[s].at = "read"
  /\ \/ LineEnds(s) # {} /\ Chunk(s, Min(LineEnds(s)), "nil")
     \/ /\ LineEnds(s) = {}
        /\ \/ taken[s] - cut[s] = BufSize /\ Chunk(s, taken[s], "nil")
           \/ main = "closed" /\ taken[s] - cut[s] < BufSize /\ Chunk(s, cut[s], "closed")
           \/ /\ main = "wait" /\ s \notin open /\ taken[s] = wrote[s]
              /\ taken[s] - cut[s] < BufSize
              /\ Chunk(s, cut[s], "EOF")
  /\ UNCHANGED <<main, exit, commandVars, taken, mtx, out, faults>>

\* A line; a full buffer, which ErrBufferFull reports and streamLoop takes as a
\* chunk; or what is left when the stream has ended or Wait has closed the pipe.
ReadSlice(s) ==
  /\ Running /\ loop[s].at = "read"
  /\ \/ LineEnds(s) # {} /\ Chunk(s, Min(LineEnds(s)), "nil")
     \/ /\ LineEnds(s) = {}
        /\ \/ taken[s] - cut[s] = BufSize /\ Chunk(s, taken[s], "nil")
           \/ main = "closed" /\ taken[s] - cut[s] < BufSize /\ Chunk(s, taken[s], "closed")
           \/ /\ main = "wait" /\ s \notin open /\ taken[s] = wrote[s]
              /\ taken[s] - cut[s] < BufSize
              /\ Chunk(s, taken[s], "EOF")
  /\ UNCHANGED <<main, exit, commandVars, taken, mtx, out, faults>>

\* Mutant: syncWrite does not lock.
LockNot(s) ==
  /\ Running /\ loop[s].at = "lock"
  /\ Goto(s, "entry")
  /\ UNCHANGED <<main, exit, commandVars, taken, cut, mtx, out, faults>>

Lock(s) ==
  /\ Running /\ loop[s].at = "lock"
  /\ mtx = NoStream
  /\ mtx' = s
  /\ Goto(s, "entry")
  /\ UNCHANGED <<main, exit, commandVars, taken, cut, out, faults>>

\* syncWrite writes the entry and its newline in two calls.  If one fails, it
\* unlocks and streamLoop ends logshim.
WriteEntry(s) ==
  /\ Running /\ loop[s].at = "entry"
  /\ \/ Works /\ Goto(s, "newline") /\ UNCHANGED mtx
              /\ out' = Append(out, [what |-> "entry", of |-> s,
                                     first |-> loop[s].first, last |-> loop[s].last])
     \/ Fails /\ Goto(s, "fatal") /\ mtx' = NoStream /\ UNCHANGED out
  /\ UNCHANGED <<main, exit, commandVars, taken, cut>>

\* Mutant: the mutex is kept when the stream has ended.
WriteNewlineKeepsLock(s) ==
  /\ Running /\ loop[s].at = "newline"
  /\ \/ /\ Works
        /\ Goto(s, CASE loop[s].err = "nil" -> "read"
                     [] loop[s].err = "EOF" -> "done"
                     [] loop[s].err = "closed" -> "fatal")
        /\ out' = Append(out, [what |-> "newline", of |-> s, first |-> 0, last |-> 0])
        /\ mtx' = IF loop[s].err = "nil" THEN NoStream ELSE mtx
     \/ Fails /\ Goto(s, "fatal") /\ UNCHANGED <<out, mtx>>
  /\ UNCHANGED <<main, exit, commandVars, taken, cut>>

\* The newline, the unlock, and what streamLoop does about readErr.
WriteNewline(s) ==
  /\ Running /\ loop[s].at = "newline"
  /\ mtx' = NoStream
  /\ \/ /\ Works
        /\ Goto(s, CASE loop[s].err = "nil" -> "read"
                     [] loop[s].err = "EOF" -> "done"
                     [] loop[s].err = "closed" -> "fatal")
        /\ out' = Append(out, [what |-> "newline", of |-> s, first |-> 0, last |-> 0])
     \/ Fails /\ Goto(s, "fatal") /\ UNCHANGED out
  /\ UNCHANGED <<main, exit, commandVars, taken, cut>>

\* log.Fatalf.
Fatal(s) ==
  /\ Running /\ loop[s].at = "fatal"
  /\ Exit(1)
  /\ UNCHANGED <<commandVars, taken, cut, loop, mtx, out, faults>>

-----------------------------------------------------------------------------
LoopStep(s) ==
  \/ Fill(s) \/ ReadSlice(s) \/ WriteEntry(s) \/ WriteNewline(s) \/ Fatal(s)

Next ==
  \/ Start \/ Wait \/ PassCode
  \/ CommandExits
  \/ \E s \in Streams : Write(s) \/ Close(s) \/ Lock(s) \/ LoopStep(s)

\* The goroutines of logshim make progress, and Go's mutex, which hands itself
\* over to one that has waited long, starves no one.  The command is free to
\* write, to stop writing and to run on.
Fairness ==
  /\ WF_vars(Works /\ Start) /\ WF_vars(Works /\ Wait) /\ WF_vars(Works /\ PassCode)
  /\ \A s \in Streams : WF_vars(Works /\ LoopStep(s)) /\ SF_vars(Lock(s))

Spec == Init /\ [][Next]_vars /\ Fairness

-----------------------------------------------------------------------------
(* Properties *)

IsEntry(i, s) == out[i].what = "entry" /\ out[i].of = s

\* Among the first k of the log, the entries of s go up to its item n.
LoggedTo(s, k, n) ==
  \/ n = 0 /\ \A i \in 1 .. k : ~IsEntry(i, s)
  \/ \E i \in 1 .. k :
       /\ IsEntry(i, s) /\ out[i].last = n
       /\ \A j \in i + 1 .. k : ~IsEntry(j, s)

\* Unless a write failed, every line of the log is one whole entry, however the
\* loops are scheduled: nothing of the other stream gets between the two writes.
EntriesWhole ==
  faults = 0 => \A i \in 1 .. Len(out) :
    /\ out[i].what = IF i % 2 = 1 THEN "entry" ELSE "newline"
    /\ out[i].what = "newline" => out[i].of = out[i - 1].of

\* Of each stream the log has a beginning: nothing is skipped, repeated or
\* reordered, over buffer limits, line ends and the end of the stream.
LogIsPrefix ==
  \A s \in Streams : \A i \in 1 .. Len(out) :
    IsEntry(i, s) => LoggedTo(s, i - 1, out[i].first - 1)

\* A loop that ends while main still waits has logged all that was ever written
\* to its stream.
EndedIsLogged ==
  main = "wait" => \A s \in Streams : loop[s].at = "done" => LoggedTo(s, Len(out), wrote[s])

\* The exit status is that of the command, unless a call failed, or the pipe was
\* closed under a loop that held a piece of a line: that one ends logshim with
\* status 1 if it is faster than main.
ExitTells ==
  main = "exited" /\ faults = 0 /\ exit # code % 256 =>
    exit = 1 /\ \E s \in Streams : /\ loop[s].err = "closed"
                                   /\ loop[s].first <= loop[s].last
                                   /\ loop[s].last \notin ends[s]

\* The command is never blocked for good on a full pipe: what is in it is read,
\* or logshim ends.
PipesAreRead ==
  \A s \in Streams :
    wrote[s] - taken[s] = PipeSize ~> wrote[s] - taken[s] < PipeSize \/ main = "exited"

\* "Let's write real logs to stdout" (cmd/logshim/main.go:90): what the command
\* wrote before it ended is in the log when logshim exits.
AllLogged ==
  main = "exited" /\ faults = 0 => \A s \in Streams : LoggedTo(s, Len(out), wrote[s])
=============================================================================
