-------------------------- MODULE TokenizerBridge --------------------------
(***************************************************************************)
(* The Python tokenizer behind two pipes: PythonTokenizer                  *)
(* (src/src/tokenizer/python_tokenizer_posix.cpp and its Windows twin      *)
(* python_tokenizer.cpp) and its child (src/tools/tokenizer_server.py).    *)
(*                                                                         *)
(* A line carries the number of the request it is about, or 0, and what    *)
(* it is: `whole`, `error`, or `torn`, the beginning of a reply whose      *)
(* writer died, which readLine() hands out at the end of the stream as if  *)
(* it were a line.  Lines of 64 MiB, the limit on POSIX, do not occur.     *)
(***************************************************************************)
EXTENDS Naturals, Sequences

CONSTANTS
    Attempts,        \* lines start() reads at most: 50
    MaxStray         \* bound: stray lines the child prints

ASSUME AttemptsAssumption == Attempts \in Nat \ {0}

VARIABLES
    platform,        \* "posix" or "windows"
    child,           \* "none", "loading", "serving" or "gone"
    toChild,         \* requests in the child's standard input
    fromChild,       \* lines in its standard output
    bridge,          \* where the host's thread is in a PythonTokenizer
    attempt,         \* lines start() has skipped
    asked,           \* requests written
    reply,           \* the last line read for a request
    strays,          \* history: stray lines printed in all
    late             \* history: ... after the ready signal

pipes == <<toChild, fromChild>>
bridgeVars == <<platform, child, pipes, bridge, attempt, asked, reply, strays, late>>

Line(n, what) == [for |-> n, what |-> what]
Ready == Line(0, "ready")
Stray == Line(0, "stray")
NoLine == Line(0, "none")
Quit == 0

BridgeInit ==
    /\ platform \in {"posix", "windows"}
    /\ child = "none"
    /\ toChild = <<>> /\ fromChild = <<>>
    /\ bridge = "closed"
    /\ attempt = 0
    /\ asked = 0
    /\ reply = NoLine
    /\ strays = 0 /\ late = 0

Alive == child \in {"loading", "serving"}

-----------------------------------------------------------------------------
(* The host. *)

\* No pipe, or no process.  On Windows the handles of the pipe stay behind when
\* there is no process, and stop() writes to them and closes them once more;
\* that is left out.
SpawnFails ==
    /\ bridge = "closed"
    /\ bridge' = "failed"
    /\ UNCHANGED <<platform, child, pipes, attempt, asked, reply, strays, late>>

\* On POSIX the process is there even when the interpreter is not.
Spawn ==
    /\ bridge = "closed"
    /\ child' \in (IF platform = "posix" THEN {"loading", "gone"} ELSE {"loading"})
    /\ bridge' = "starting"
    /\ attempt' = 0
    /\ UNCHANGED <<platform, pipes, asked, reply, strays, late>>

\* mutation: whatever is read first is the ready signal
ReadReady_AnyLine ==
    /\ bridge = "starting"
    /\ fromChild # <<>>
    /\ fromChild' = Tail(fromChild)
    /\ attempt' = 0
    /\ bridge' = "idle"
    /\ UNCHANGED <<platform, child, toChild, asked, reply, strays, late>>

\* The loop of start(): lines other than the ready signal are skipped.
ReadReady ==
    /\ bridge = "starting"
    /\ fromChild # <<>>
    /\ fromChild' = Tail(fromChild)
    /\ IF Head(fromChild) = Ready
       THEN bridge' = "idle" /\ attempt' = 0
       ELSE /\ attempt' = attempt + 1
            /\ bridge' = IF attempt' = Attempts THEN "giving up" ELSE "starting"
    /\ UNCHANGED <<platform, child, toChild, asked, reply, strays, late>>

\* The stream ended before the signal came.
ReadyNever ==
    /\ bridge = "starting"
    /\ fromChild = <<>> /\ child = "gone"
    /\ bridge' = "giving up"
    /\ UNCHANGED <<platform, child, pipes, attempt, asked, reply, strays, late>>

\* writeLine() towards a child that has gone: SIGPIPE ends a POSIX host, which
\* does not handle it; WriteFile fails on Windows.
WriteBroken(onWindows) == IF platform = "posix" THEN "killed" ELSE onWindows

\* encode(), decode() and applyChatTemplate(): one line out, one line back.
Ask ==
    /\ bridge = "idle"
    /\ asked' = asked + 1
    /\ reply' = NoLine
    /\ IF Alive
       THEN toChild' = Append(toChild, asked') /\ bridge' = "asking"
       ELSE UNCHANGED toChild /\ bridge' = WriteBroken("idle")
    /\ UNCHANGED <<platform, child, fromChild, attempt, strays, late>>

ReadReply ==
    /\ bridge = "asking"
    /\ fromChild # <<>>
    /\ reply' = Head(fromChild)
    /\ fromChild' = Tail(fromChild)
    /\ bridge' = "idle"
    /\ UNCHANGED <<platform, child, toChild, attempt, asked, strays, late>>

ReplyNever ==
    /\ bridge = "asking"
    /\ fromChild = <<>> /\ child = "gone"
    /\ bridge' = "idle"
    /\ UNCHANGED <<platform, child, pipes, attempt, asked, reply, strays, late>>

\* stop(): quit is written, the pipes are closed, and the child is waited for.
Stop ==
    /\ bridge \in {"idle", "giving up"}
    /\ IF Alive
       THEN toChild' = Append(toChild, Quit)
       ELSE UNCHANGED toChild
    /\ LET next == IF bridge = "idle" THEN "waiting" ELSE "failing"
       IN  bridge' = IF Alive THEN next ELSE WriteBroken(next)
    /\ fromChild' = <<>>
    /\ UNCHANGED <<platform, child, attempt, asked, reply, strays, late>>

\* The wait ends with the child or after three seconds.
StopReturns ==
    /\ bridge \in {"waiting", "failing"}
    /\ bridge' = IF bridge = "waiting" THEN "stopped" ELSE "failed"
    /\ UNCHANGED <<platform, child, pipes, attempt, asked, reply, strays, late>>

-----------------------------------------------------------------------------
(* The child.  Its output goes nowhere, and ends it, once the host has     *)
(* closed its end.                                                         *)

PipesOpen == bridge \in {"starting", "idle", "asking", "giving up"}

Emit(line, next) ==
    IF PipesOpen
    THEN fromChild' = Append(fromChild, line) /\ child' = next
    ELSE child' = "gone" /\ UNCHANGED fromChild

\* A line from a library or from the model's own code.
PrintStray ==
    /\ Alive
    /\ strays < MaxStray
    /\ strays' = strays + 1
    /\ late' = IF child = "serving" THEN late + 1 ELSE late
    /\ Emit(Stray, child)
    /\ UNCHANGED <<platform, toChild, bridge, attempt, asked, reply>>

PrintReady ==
    /\ child = "loading"
    /\ Emit(Ready, "serving")
    /\ UNCHANGED <<platform, toChild, bridge, attempt, asked, reply, strays, late>>

\* A request is answered, perhaps with an error; the child may die writing.
Serve ==
    /\ child = "serving"
    /\ toChild # <<>>
    /\ Head(toChild) # Quit
    /\ toChild' = Tail(toChild)
    /\ \/ \E what \in {"whole", "error"} : Emit(Line(Head(toChild), what), "serving")
       \/ Emit(Line(Head(toChild), "torn"), "gone")
    /\ UNCHANGED <<platform, bridge, attempt, asked, reply, strays, late>>

\* quit, or the end of its input
ServeQuit ==
    /\ child = "serving"
    /\ \/ toChild # <<>> /\ Head(toChild) = Quit
       \/ toChild = <<>> /\ ~PipesOpen
    /\ child' = "gone"
    /\ UNCHANGED <<platform, pipes, bridge, attempt, asked, reply, strays, late>>

\* an exception out of the loop, a failed import, a kill
Die ==
    /\ Alive
    /\ child' = "gone"
    /\ UNCHANGED <<platform, pipes, bridge, attempt, asked, reply, strays, late>>

ChildWorks == PrintReady \/ Serve \/ ServeQuit
ChildStep == ChildWorks \/ PrintStray \/ Die

\* What goes on by itself once the host has called start(), a request or stop().
CallStep == ReadReady \/ ReadyNever \/ ReadReply \/ ReplyNever \/ StopReturns

-----------------------------------------------------------------------------
(***************************************************************************)
(* Requests and replies are paired by order alone, and still a reply is    *)
(* that of the request just made: whatever the child printed before it was *)
(* ready, dead or alive, unless it prints a line of its own later on.      *)
(***************************************************************************)
RepliesArePaired ==
    bridge = "idle" /\ reply # NoLine /\ late = 0 => reply.for = asked
=============================================================================
