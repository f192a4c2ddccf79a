------------------------- MODULE CommandLoopProofs -------------------------
(***************************************************************************)
(* For any set of commands and any number of typed lines, at most one      *)
(* thread of the development server holds the turn (OneToken), so no line  *)
(* is read while a command executes, and every step of the threads is a    *)
(* step of the sequential console or leaves it unchanged.                  *)
(***************************************************************************)
EXTENDS CommandLoop, TLAPS

LEMMA TypeInit == LoopInit => LoopTypeOK
<1> SUFFICES ASSUME LoopInit PROVE LoopTypeOK
  OBVIOUS
<1>1. stdin \in Seq(Line) /\ queue \in Seq(Commands)
  BY DEF LoopInit
<1>2. typed \in 0..MaxLines
  BY LinesAssumption DEF LoopInit
<1>3. QED
  BY <1>1, <1>2 DEF LoopInit, LoopTypeOK

LEMMA TypeStep == LoopTypeOK /\ [LoopNext]_loopVars => LoopTypeOK'
<1> SUFFICES ASSUME LoopTypeOK, [LoopNext]_loopVars PROVE LoopTypeOK'
  OBVIOUS
<1> USE DEF LoopTypeOK, inputVars, mainVars
<1>1. ASSUME NEW line \in Line, Type(line) PROVE LoopTypeOK'
  BY <1>1, LinesAssumption DEF Type
<1>2. CASE WaitPrompt
  BY <1>2 DEF WaitPrompt
<1>3. CASE ClearPrompt
  BY <1>3 DEF ClearPrompt
<1>4. CASE ReadCommand
  BY <1>4 DEF ReadCommand, Reads
<1>5. CASE ReadNothing
  BY <1>5 DEF ReadNothing, Reads
<1>6. CASE ReadEOF
  BY <1>6 DEF ReadEOF, Reads
<1>7. CASE FirstPrompt
  BY <1>7 DEF FirstPrompt
<1>8. CASE GetCommand
  <2>1. Head(queue) \in Commands /\ Tail(queue) \in Seq(Commands)
    BY <1>8 DEF GetCommand
  <2>2. QED
    BY <1>8, <2>1 DEF GetCommand
<1>9. CASE CommandOver
  BY <1>9 DEF CommandOver
<1>10. CASE SetPrompt
  BY <1>10 DEF SetPrompt
<1>11. CASE ExecuteQuit \/ Interrupt \/ InterruptAgain
  BY <1>11 DEF ExecuteQuit, Interrupt, InterruptAgain
<1>12. CASE Exit
  BY <1>12 DEF Exit
<1>13. CASE HttpThread
  BY <1>13 DEF HttpThread, HttpAccept, HttpFinish, HttpStop
<1>14. CASE UNCHANGED loopVars
  BY <1>14 DEF loopVars
<1>15. QED
  BY <1>1, <1>2, <1>3, <1>4, <1>5, <1>6, <1>7, <1>8, <1>9, <1>10, <1>11, <1>12, <1>13, <1>14
  DEF LoopNext, InputThread, MainThread

THEOREM TypeCorrect == LoopSpec => []LoopTypeOK
BY TypeInit, TypeStep, PTL DEF LoopSpec

(***************************************************************************)
(* The inductive invariant.  OneToken is not inductive: an input thread    *)
(* that is over must not be prompted again, so it must be known that only  *)
(* Quit can follow the end of the input thread into the queue.             *)
(***************************************************************************)
AtWork == mainPc \in {"start", "exec", "reprompt"}

Turn ==
  /\ prompt => inputPc # "read" /\ queue = <<>> /\ ~AtWork
  /\ inputPc = "read" => queue = <<>> /\ ~AtWork
  /\ queue # <<>> => ~AtWork
  /\ Len(queue) <= 1
  /\ inputPc = "clear" => prompt
  /\ running # {} <=> mainPc = "exec"

LastCommand ==
  inputPc = "done" =>
    /\ ~prompt
    /\ queue # <<>> => Head(queue) = Quit
    /\ mainPc = "exec" => running = {Quit}
    /\ mainPc \notin {"start", "reprompt"}

IInv == LoopTypeOK /\ Turn /\ LastCommand

LEMMA IInvInit == LoopInit => IInv
<1> SUFFICES ASSUME LoopInit PROVE Turn /\ LastCommand
  BY TypeInit DEF IInv
<1> QED
  BY DEF LoopInit, Turn, LastCommand, AtWork

LEMMA IInvStep == IInv /\ [LoopNext]_loopVars => IInv'
<1> SUFFICES ASSUME IInv, [LoopNext]_loopVars PROVE Turn' /\ LastCommand'
  BY TypeStep DEF IInv
<1>0. LoopTypeOK /\ LoopTypeOK'
  BY TypeStep DEF IInv
<1> USE <1>0 DEF IInv, Turn, LastCommand, AtWork, inputVars, mainVars
<1>1. ASSUME NEW line \in Line, Type(line) PROVE Turn' /\ LastCommand'
  BY <1>1 DEF Type
<1>2. CASE WaitPrompt
  BY <1>2 DEF WaitPrompt
<1>3. CASE ClearPrompt
  BY <1>3 DEF ClearPrompt
<1>4. CASE ReadCommand
  <2>1. PICK c \in Commands :
          Reads(c) /\ queue' = Append(queue, c)
          /\ inputPc' = (IF c = Quit THEN "done" ELSE "wait") /\ UNCHANGED prompt
    BY <1>4 DEF ReadCommand
  <2>2. queue' = <<c>> /\ Len(queue') = 1 /\ Head(queue') = c /\ queue' # <<>>
    BY <2>1 DEF Reads
  <2>3. QED
    BY <2>1, <2>2 DEF Reads, LoopTypeOK
<1>5. CASE ReadNothing
  BY <1>5 DEF ReadNothing, Reads
<1>6. CASE ReadEOF
  BY <1>6 DEF ReadEOF, Reads
<1>7. CASE FirstPrompt
  BY <1>7 DEF FirstPrompt, LoopTypeOK
<1>8. CASE GetCommand
  <2>1. queue' = <<>>
    BY <1>8 DEF GetCommand, LoopTypeOK
  <2>2. QED
    BY <1>8, <2>1 DEF GetCommand
<1>9. CASE CommandOver
  BY <1>9 DEF CommandOver
<1>10. CASE SetPrompt
  BY <1>10 DEF SetPrompt
<1>11. CASE ExecuteQuit \/ Interrupt \/ InterruptAgain
  BY <1>11 DEF ExecuteQuit, Interrupt, InterruptAgain
<1>12. CASE Exit
  BY <1>12 DEF Exit
<1>13. CASE HttpThread
  BY <1>13 DEF HttpThread, HttpAccept, HttpFinish, HttpStop
<1>14. CASE UNCHANGED loopVars
  BY <1>14 DEF loopVars
<1>15. QED
  BY <1>1, <1>2, <1>3, <1>4, <1>5, <1>6, <1>7, <1>8, <1>9, <1>10, <1>11, <1>12, <1>13, <1>14
  DEF LoopNext, InputThread, MainThread

THEOREM Invariance == LoopSpec => []IInv
BY IInvInit, IInvStep, PTL DEF LoopSpec

\* At most one thread holds the turn, whatever was typed and however the
\* threads interleave (dev_server.py:242-265 and 347-355).
THEOREM TurnIsUnique == LoopSpec => []OneToken
<1>1. IInv => OneToken
  BY DEF IInv, Turn, LastCommand, AtWork, OneToken, Holders
<1>2. QED
  BY <1>1, Invariance, PTL

\* A command never executes while the input thread reads the next one.
THEOREM CommandsAreExclusive == LoopSpec => []NoReadWhileExecuting
<1>1. IInv => NoReadWhileExecuting
  BY DEF IInv, Turn, AtWork, NoReadWhileExecuting
<1>2. QED
  BY <1>1, Invariance, PTL

\* prompt_event.clear() never erases a prompt that was raised after wait().
THEOREM WakeupsAreKept == LoopSpec => []NoLostWakeup
<1>1. IInv => NoLostWakeup
  BY DEF IInv, LoopTypeOK, Turn, LastCommand, AtWork, NoLostWakeup
<1>2. QED
  BY <1>1, Invariance, PTL

-----------------------------------------------------------------------------
(* Refinement: the safety part of ImplementsConsole.                       *)

LEMMA QueueHead ==
  ASSUME IInv, queue # <<>>
  PROVE  Head(queue) \in Commands /\ Tail(queue) = <<>> /\ mainPc # "exec"
BY DEF IInv, LoopTypeOK, Turn, AtWork

LEMMA ConsoleInit == LoopInit => Abstract!Init
BY DEF LoopInit, Abstract!Init, phaseBar, currentBar

LEMMA ConsoleStep == IInv /\ [LoopNext]_loopVars => [Abstract!Next]_(Abstract!consoleVars)
<1> SUFFICES ASSUME IInv, [LoopNext]_loopVars
             PROVE  Abstract!Next \/ UNCHANGED <<phaseBar, currentBar>>
  BY DEF Abstract!consoleVars
<1>0. LoopTypeOK /\ LoopTypeOK' /\ Turn /\ LastCommand
  BY TypeStep DEF IInv
<1> USE DEF phaseBar, currentBar, inputVars, mainVars, AtWork
<1>1. ASSUME NEW line \in Line, Type(line) PROVE UNCHANGED <<phaseBar, currentBar>>
  BY <1>1 DEF Type
<1>2. CASE WaitPrompt
  BY <1>2 DEF WaitPrompt
<1>3. CASE ClearPrompt
  BY <1>3 DEF ClearPrompt
<1>4. CASE ReadCommand
  <2>1. PICK c \in Commands :
          Reads(c) /\ queue' = Append(queue, c)
          /\ inputPc' = (IF c = Quit THEN "done" ELSE "wait") /\ UNCHANGED prompt
    BY <1>4 DEF ReadCommand
  <2>2. queue = <<>> /\ mainPc \notin {"start", "exec", "reprompt"}
    BY <1>0, <2>1 DEF Reads, Turn
  <2>3. queue' = <<c>> /\ Head(queue') = c /\ queue' # <<>>
    BY <2>1, <2>2 DEF Reads
  <2>4. CASE mainPc = "get"
    <3>1. phaseBar = "prompting" /\ phaseBar' = "running" /\ currentBar' = {c}
      BY <2>1, <2>2, <2>3, <2>4 DEF Reads
    <3>2. QED
      BY <3>1 DEF Abstract!Next, Abstract!Submit
  <2>5. CASE mainPc # "get"
    BY <1>0, <2>1, <2>2, <2>5 DEF Reads, LoopTypeOK
  <2>6. QED
    BY <2>4, <2>5
<1>5. CASE ReadNothing
  BY <1>5 DEF ReadNothing, Reads
<1>6. CASE ReadEOF
  <2>1. CASE phaseBar = "prompting"
    BY <1>0, <1>6, <2>1 DEF ReadEOF, Reads, Turn, Abstract!Next, Abstract!Close
  <2>2. CASE phaseBar # "prompting"
    BY <1>0, <1>6, <2>2 DEF ReadEOF, Reads, Turn
  <2>3. QED
    BY <2>1, <2>2
<1>7. CASE FirstPrompt
  BY <1>7 DEF FirstPrompt
<1>8. CASE GetCommand
  <2>1. queue' = <<>> /\ running' = {Head(queue)}
    BY <1>8, QueueHead DEF GetCommand
  <2>2. QED
    BY <1>8, <2>1 DEF GetCommand
<1>9. CASE CommandOver
  <2>1. phaseBar = "running" /\ currentBar = running /\ queue = <<>>
    BY <1>0, <1>9 DEF CommandOver, Turn
  <2>2. phaseBar' = "prompting" /\ currentBar' = {}
    BY <1>0, <1>9, <2>1 DEF CommandOver, LastCommand
  <2>3. Quit \notin running
    BY <1>0, <1>9 DEF CommandOver, LoopTypeOK
  <2>4. QED
    BY <2>1, <2>2, <2>3 DEF Abstract!Next, Abstract!Complete
<1>10. CASE SetPrompt
  BY <1>10 DEF SetPrompt
<1>11. CASE ExecuteQuit \/ Interrupt \/ InterruptAgain
  BY <1>11 DEF ExecuteQuit, Interrupt, InterruptAgain, Abstract!Next, Abstract!Stop
<1>12. CASE Exit
  BY <1>12 DEF Exit
<1>13. CASE HttpThread
  BY <1>13 DEF HttpThread, HttpAccept, HttpFinish, HttpStop
<1>14. CASE UNCHANGED loopVars
  BY <1>14 DEF loopVars
<1>15. QED
  BY <1>1, <1>2, <1>3, <1>4, <1>5, <1>6, <1>7, <1>8, <1>9, <1>10, <1>11, <1>12, <1>13, <1>14
  DEF LoopNext, InputThread, MainThread

\* The three threads implement the sequential console: every behaviour of
\* dev_server.py's loop is, seen through phaseBar and currentBar, a behaviour
\* of Console (without its fairness, which TLC checks).
THEOREM ConsoleRefinement ==
  LoopSpec => Abstract!Init /\ [][Abstract!Next]_(Abstract!consoleVars)
BY ConsoleInit, ConsoleStep, Invariance, PTL DEF LoopSpec
=============================================================================
