---------------------------- MODULE CommandLoop ----------------------------
(***************************************************************************)
(* The threads of the development server (sonolus/build/dev_server.py):    *)
(*                                                                         *)
(*   main   run_server: takes commands from the queue, executes them,      *)
(*          raises the prompt event, and shuts the HTTP server down;       *)
(*   input  command_input_thread: waits for the prompt event, clears it,   *)
(*          reads a line, parses it and queues the command;                *)
(*   http   socketserver.TCPServer.serve_forever: one request at a time.   *)
(*                                                                         *)
(* What a command does is Rebuild.tla's subject; here it returns, raises   *)
(* an exception, or exits.                                                 *)
(***************************************************************************)
EXTENDS Naturals, Sequences

CONSTANTS Commands,  \* what parse_dev_command can return
          Quit,      \* ExitCommand
          MaxLines   \* bound: lines the user types in a behaviour

ASSUME QuitAssumption == Quit \in Commands
ASSUME LinesAssumption ==
  /\ MaxLines \in Nat
  /\ Commands \cap {"blank", "rejected", "unreadable", "eof"} = {}

\* A line of standard input, by what the input thread makes of it: nothing
\* but white space, refused by the parser, not decodable, the end of the
\* input, or a command.
Line == Commands \cup {"blank", "rejected", "unreadable", "eof"}

VARIABLES
  stdin,     \* lines typed and not read yet
  typed,     \* number of lines typed so far
  prompt,    \* prompt_event
  queue,     \* command_queue
  inputPc,   \* where the input thread is
  mainPc,    \* where the main thread is
  running,   \* the command being executed, as a set of at most one
  httpPc,    \* where the serving thread is
  shutdownRequested

loopVars == <<stdin, typed, prompt, queue, inputPc, mainPc, running, httpPc, shutdownRequested>>

inputVars == <<stdin, inputPc>>
mainVars == <<mainPc, running, shutdownRequested>>

Alive == mainPc # "exited"     \* the other threads are daemons

LoopInit ==
  /\ stdin = <<>> /\ typed = 0
  /\ prompt = FALSE /\ queue = <<>>
  /\ inputPc = "wait" /\ mainPc = "start" /\ running = {}
  /\ httpPc = "poll" /\ shutdownRequested = FALSE

-----------------------------------------------------------------------------
(* The user types, possibly ahead of the prompt; nothing follows the end.  *)

Type(line) ==
  /\ Alive /\ typed < MaxLines
  /\ \A i \in DOMAIN stdin : stdin[i] # "eof"
  /\ stdin' = Append(stdin, line)
  /\ typed' = IF line = "eof" THEN MaxLines ELSE typed + 1
  /\ UNCHANGED <<prompt, queue, inputPc, mainVars, httpPc>>

-----------------------------------------------------------------------------
(* The input thread.  prompt_event.wait() and prompt_event.clear() are two *)
(* calls: another thread may run between them.                             *)

WaitPrompt ==
  /\ Alive /\ inputPc = "wait" /\ prompt
  /\ inputPc' = "clear"
  /\ UNCHANGED <<stdin, typed, prompt, queue, mainVars, httpPc>>

ClearPrompt ==
  /\ Alive /\ inputPc = "clear"
  /\ prompt' = FALSE
  /\ inputPc' = "read"
  /\ UNCHANGED <<stdin, typed, queue, mainVars, httpPc>>

\* The read calls and what follows them up to the next blocking call.
Reads(line) ==
  /\ Alive /\ inputPc = "read"
  /\ stdin # <<>> /\ Head(stdin) = line
  /\ stdin' = Tail(stdin)
  /\ UNCHANGED <<typed, mainVars, httpPc>>

\* Mutant: what the parser refused is queued as well.
MutantQueuesAnything ==
  \E line \in Line \ {"eof"} :
    /\ Reads(line)
    /\ queue' = Append(queue, line)
    /\ inputPc' = IF line = Quit THEN "done" ELSE "wait"
    /\ UNCHANGED prompt

\* Mutant: the input thread prompts again as soon as it has queued a command.
MutantPromptsAtOnce ==
  \E c \in Commands :
    /\ Reads(c)
    /\ queue' = Append(queue, c)
    /\ inputPc' = IF c = Quit THEN "done" ELSE "wait"
    /\ prompt' = TRUE

ReadCommand ==
  \E c \in Commands :
    /\ Reads(c)
    /\ queue' = Append(queue, c)
    /\ inputPc' = IF c = Quit THEN "done" ELSE "wait"
    /\ UNCHANGED prompt

\* Mutant: a line without a command is not prompted for again.
MutantForgetsPrompt ==
  \E line \in {"blank", "rejected", "unreadable"} :
    /\ Reads(line)
    /\ inputPc' = "wait"
    /\ UNCHANGED <<prompt, queue>>

\* A blank line, one the parser refuses or one that cannot be decoded: no
\* command reaches the main thread, so the input thread prompts itself.
ReadNothing ==
  \E line \in {"blank", "rejected", "unreadable"} :
    /\ Reads(line)
    /\ prompt' = TRUE
    /\ inputPc' = "wait"
    /\ UNCHANGED queue

ReadEOF ==
  /\ Reads("eof")
  /\ inputPc' = "done"
  /\ UNCHANGED <<prompt, queue>>

InputThread == WaitPrompt \/ ClearPrompt \/ ReadCommand \/ ReadNothing \/ ReadEOF

-----------------------------------------------------------------------------
(* The main thread.                                                        *)

FirstPrompt ==
  /\ mainPc = "start"
  /\ prompt' = TRUE
  /\ mainPc' = "get"
  /\ UNCHANGED <<inputVars, typed, queue, running, httpPc, shutdownRequested>>

GetCommand ==
  /\ mainPc = "get" /\ queue # <<>>
  /\ running' = {Head(queue)}
  /\ queue' = Tail(queue)
  /\ mainPc' = "exec"
  /\ UNCHANGED <<inputVars, typed, prompt, httpPc, shutdownRequested>>

\* cmd.execute returns or raises an Exception, which is printed.
CommandOver ==
  /\ mainPc = "exec" /\ running # {Quit}
  /\ running' = {}
  /\ mainPc' = "reprompt"
  /\ UNCHANGED <<inputVars, typed, prompt, queue, httpPc, shutdownRequested>>

SetPrompt ==
  /\ mainPc = "reprompt"
  /\ prompt' = TRUE
  /\ mainPc' = "get"
  /\ UNCHANGED <<inputVars, typed, queue, running, httpPc, shutdownRequested>>

\* SystemExit is not an Exception: the finally clause calls httpd.shutdown().
ExecuteQuit ==
  /\ mainPc = "exec" /\ running = {Quit}
  /\ running' = {}
  /\ mainPc' = "shutdown" /\ shutdownRequested' = TRUE
  /\ UNCHANGED <<inputVars, typed, prompt, queue, httpPc>>

\* A keyboard interrupt reaches the main thread anywhere in its loop.
Interrupt ==
  /\ mainPc \in {"get", "exec", "reprompt"}
  /\ running' = {}
  /\ mainPc' = "shutdown" /\ shutdownRequested' = TRUE
  /\ UNCHANGED <<inputVars, typed, prompt, queue, httpPc>>

\* Mutant: the process waits for the input thread, as if it were no daemon.
MutantJoinsInput ==
  /\ mainPc = "shutdown" /\ httpPc = "stopped" /\ inputPc = "done"
  /\ mainPc' = "exited"
  /\ UNCHANGED <<inputVars, typed, prompt, queue, running, httpPc, shutdownRequested>>

\* shutdown() returns once serve_forever has left its loop.
Exit ==
  /\ mainPc = "shutdown" /\ httpPc = "stopped"
  /\ mainPc' = "exited"
  /\ UNCHANGED <<inputVars, typed, prompt, queue, running, httpPc, shutdownRequested>>

\* While it waits for shutdown() to return, an interrupt ends the process.
InterruptAgain ==
  /\ mainPc = "shutdown"
  /\ mainPc' = "exited"
  /\ UNCHANGED <<inputVars, typed, prompt, queue, running, httpPc, shutdownRequested>>

MainThread == FirstPrompt \/ GetCommand \/ CommandOver \/ SetPrompt \/ ExecuteQuit \/ Exit

-----------------------------------------------------------------------------
(* The serving thread: external code, used through serve_forever/shutdown. *)
(* It handles a request itself and has no timeout: a client may take any   *)
(* time over the request, or never complete it.                            *)

HttpAccept ==
  /\ Alive /\ httpPc = "poll" /\ ~shutdownRequested
  /\ httpPc' = "handle"
  /\ UNCHANGED <<inputVars, typed, prompt, queue, mainVars>>

HttpFinish ==
  /\ Alive /\ httpPc = "handle"
  /\ httpPc' = "poll"
  /\ UNCHANGED <<inputVars, typed, prompt, queue, mainVars>>

HttpStop ==
  /\ Alive /\ httpPc = "poll" /\ shutdownRequested
  /\ httpPc' = "stopped"
  /\ UNCHANGED <<inputVars, typed, prompt, queue, mainVars>>

HttpThread == HttpAccept \/ HttpFinish \/ HttpStop

LoopNext == (\E line \in Line : Type(line)) \/ InputThread \/ MainThread \/ HttpThread
  \/ Interrupt \/ InterruptAgain

\* The scheduler runs every thread that can run, and commands terminate.
\* Nobody has to type or interrupt, no client has to connect, and one that has
\* connected does not have to complete its request.
Fairness ==
  /\ WF_loopVars(InputThread)
  /\ WF_loopVars(MainThread)
  /\ WF_loopVars(HttpStop)

LoopSpec == LoopInit /\ [][LoopNext]_loopVars /\ Fairness

-----------------------------------------------------------------------------
(* Properties                                                              *)

\* Every variable has its type.
LoopTypeOK ==
  /\ stdin \in Seq(Line) /\ typed \in 0..MaxLines
  /\ prompt \in BOOLEAN /\ queue \in Seq(Commands)
  /\ inputPc \in {"wait", "clear", "read", "done"}
  /\ mainPc \in {"start", "get", "exec", "reprompt", "shutdown", "exited"}
  /\ running \in {{}} \cup {{c} : c \in Commands}
  /\ httpPc \in {"poll", "handle", "stopped"} /\ shutdownRequested \in BOOLEAN

\* Who may act next is a token: the raised prompt, the read in progress, the
\* queued command, or the main thread at work.  There is never more than one.
Holders ==
  {h \in {"prompt", "reader", "queue", "main"} :
     \/ h = "prompt" /\ prompt
     \/ h = "reader" /\ inputPc = "read"
     \/ h = "queue" /\ queue # <<>>
     \/ h = "main" /\ mainPc \in {"start", "exec", "reprompt"}}

OneToken ==
  /\ \A g, h \in Holders : g = h
  /\ Len(queue) <= 1
  /\ inputPc = "clear" => prompt
  /\ inputPc = "done" => ~prompt
  /\ running # {} <=> mainPc = "exec"

\* The input thread never reads a line, and none of its commands waits in the
\* queue, while the main thread executes a command (dev_server.py:242-265
\* and 347-355): a decode cannot run against a build still in progress.
NoReadWhileExecuting ==
  mainPc = "exec" => inputPc # "read" /\ queue = <<>> /\ ~prompt

\* The prompt the main thread raises is never the one the input thread is
\* about to clear: clear() after wait() loses no wake-up.
NoLostWakeup == mainPc \in {"start", "reprompt"} => inputPc \in {"wait", "done"}

\* The detailed threads implement the sequential console.
phaseBar ==
  IF mainPc \in {"shutdown", "exited"} THEN "stopped"
  ELSE IF queue # <<>> \/ mainPc = "exec" THEN "running"
  ELSE IF inputPc = "done" THEN "closed" ELSE "prompting"

currentBar ==
  IF phaseBar = "running" THEN IF queue # <<>> THEN {Head(queue)} ELSE running ELSE {}

Abstract == INSTANCE Console WITH phase <- phaseBar, current <- currentBar

\* Safety and liveness of the console: one command at a time, in the order
\* prompt, command, completion, and every command completes.
ImplementsConsole == Abstract!Spec

\* Whatever was typed (a blank line, a syntax error, bad arguments), typed
\* lines are read until the server shuts down or its input ends: the server stays
\* responsive (docs/changelog/index.md:215, 219 and 223).
StaysResponsive ==
  stdin # <<>> ~> (stdin = <<>> \/ inputPc = "done" \/ mainPc \in {"shutdown", "exited"})

Told == mainPc = "shutdown" \/ (mainPc = "exec" /\ running = {Quit})

\* Quit and interrupt end the process without further input
\* (docs/changelog/index.md:252), whatever the input thread is waiting for,
\* unless the serving thread stays for ever in the request of a client.
StopsWhenTold == Told ~> (mainPc = "exited" \/ [](httpPc = "handle"))

-----------------------------------------------------------------------------
(* What the program says of itself and does not do.                        *)

\* "Exit the development server." (dev_server.py:86, the help of quit.)
QuitExits == (mainPc = "exec" /\ running = {Quit}) ~> mainPc = "exited"
=============================================================================
