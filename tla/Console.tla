------------------------------ MODULE Console ------------------------------
(***************************************************************************)
(* What the interactive development server promises its user: a sequential *)
(* console.  One command at a time is submitted, runs to completion, and   *)
(* only then is the next one asked for.  The console closes when its input *)
(* ends and stops when it is told to quit or is interrupted.               *)
(* CommandLoop.tla implements this promise with three threads.             *)
(***************************************************************************)
CONSTANTS Commands,  \* the commands a user can submit
          Quit       \* the one that stops the server

VARIABLES phase,     \* "prompting", "running", "closed" or "stopped"
          current    \* the submitted commands that have not finished: a set

consoleVars == <<phase, current>>

Init == phase = "prompting" /\ current = {}

\* The user answers the prompt with a command.
Submit(c) ==
  /\ phase = "prompting"
  /\ phase' = "running"
  /\ current' = {c}

\* The command is over, well or badly, and the console asks for the next one.
Complete ==
  /\ phase = "running"
  /\ Quit \notin current
  /\ phase' = "prompting"
  /\ current' = {}

\* The input ends while the console is waiting for a command.
Close ==
  /\ phase = "prompting"
  /\ phase' = "closed"
  /\ UNCHANGED current

\* Quit, or a keyboard interrupt at any time.
Stop ==
  /\ phase # "stopped"
  /\ phase' = "stopped"
  /\ current' = {}

Next == (\E c \in Commands : Submit(c)) \/ Complete \/ Close \/ Stop

Spec == Init /\ [][Next]_consoleVars /\ WF_consoleVars(Complete \/ (Stop /\ Quit \in current))
=============================================================================
