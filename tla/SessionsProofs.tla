--------------------------- MODULE SessionsProofs ---------------------------
(***************************************************************************)
(* Proofs about terminal sessions, for buffers of any size and any amount  *)
(* of output and input: the types, that no output is lost in the sessions  *)
(* whose handler waits for its output loop, that the threads do not wait   *)
(* for one another in a circle, and that each of their steps leaves less   *)
(* to do, but for rounds of the loop that polls standard input.            *)
(***************************************************************************)
EXTENDS Sessions, TLAPS

\* The chunk the output loop has read and not yet written.
InHand == IF outCopy = "write" THEN 1 ELSE 0

\* Where the handler stands tells which kind of session it is in.
ControlInv ==
    /\ main = "start" => proc = "none" /\ outCopy = "off" /\ output = 0 /\ produced = 0
    /\ main = "start" => server /\ waiter = "off" /\ inCopy = "off"
    /\ waiter # "off" => mode = "exec"
    /\ main = "copy" => mode = "execTty"
    /\ main = "wait" => mode # "exec"
    /\ main = "copiers" => mode = "start"
    /\ main \in {"setup", "report"} => ~Exec
    /\ main = "close" => mode = "startTty"
    /\ main = "report" => proc \in {"none", "abandoned"}
    /\ main = "record" => ~Exec
    /\ main = "join" => Tty
    /\ mode \in {"execTty", "start", "startTty"} => (main = "returned") = ~server

\* Nothing is shown, on its way or in a buffer that was not written, and an
\* error report is the last thing written.
CountInv ==
    /\ shown + down + InHand + output <= produced
    /\ produced <= MaxOut \/ main \in {"return", "returned"}
    /\ main \in {"return", "returned"} /\ produced > MaxOut => proc \in {"none", "abandoned"}
    /\ unread <= typed

TypeInv == TypeOK /\ ControlInv /\ CountInv

\* As long as the CLI lives it leaves its end of the socket open until the
\* daemon has closed the other.
CliInv == cli # "died" => /\ show = "done" => ~server
                          /\ ~client => show = "done"

\* Past its output loop a handler has seen that loop come to the end.
Joined == {"record", "return", "returned"}

\* In the sessions OutputDelivered is about every chunk is somewhere between
\* the command and the user, and the output loop only stops behind the last.
DeliverInv ==
    mode \in {"execTty", "start"} /\ cli # "died" /\ proc # "abandoned" =>
        /\ produced = output + InHand + down + shown
        /\ outCopy = "done" => output = 0 /\ proc # "running"
        /\ proc = "none" => outCopy = "off"
        /\ main \in Joined /\ proc # "none" => outCopy = "done"
        /\ mode = "execTty" /\ main \in {"copy", "wait", "join", "return"} => ptmx

\* What a thread waits for exists: the loops of a handler that waits for them were
\* started, and a command that is waited for has been neither reaped nor abandoned.  The
\* CLI's end of the socket is open as long as its main thread waits for the output.
WaitInv ==
    /\ client => cli = "wait"
    /\ main = "returned" => ~server
    /\ main \in {"setup", "copy", "wait"} \/ waiter = "wait" => proc \in {"running", "exited"}
    /\ main \in {"setup", "copy", "wait", "close", "copiers", "join"} \/ waiter # "off" =>
           outCopy # "off" /\ inCopy # "off"

-----------------------------------------------------------------------------
\* The types, together with where a handler stands and how much was written.
LEMMA TypeStep == TypeInv /\ [Next]_vars => TypeInv'
<1> SUFFICES ASSUME TypeInv, [Next]_vars PROVE TypeInv'
  OBVIOUS
<1> USE SessionsAssumption
<1>1. CASE StartCommand
  BY <1>1
     DEF StartCommand, TypeInv, TypeOK, ControlInv, CountInv, InHand, AllModes,
         Loop, Tty, Exec, Closed, daemon, copiers, command, cliside, user
<1>2. CASE StartFails
  BY <1>2
     DEF StartFails, TypeInv, TypeOK, ControlInv, CountInv, InHand, AllModes,
         Loop, Tty, Exec, Closed, daemon, copiers, command, cliside, user
<1>3. CASE SetupDone
  BY <1>3
     DEF SetupDone, TypeInv, TypeOK, ControlInv, CountInv, InHand, AllModes,
         Loop, Tty, Exec, Closed, daemon, copiers, command, cliside, user
<1>4. CASE SetupFails
  <2>1. ptmx' \in BOOLEAN /\ server' \in BOOLEAN /\ client' \in BOOLEAN
    BY <1>4 DEF SetupFails, TypeInv, TypeOK, daemon, cliside
  <2>2. TypeOK'
    BY <1>4, <2>1
       DEF SetupFails, TypeInv, TypeOK, ControlInv, AllModes, Loop, Tty, Exec,
           daemon, copiers, command, cliside, user
  <2>3. ControlInv'
    BY <1>4
       DEF SetupFails, TypeInv, TypeOK, ControlInv, AllModes, Tty, Exec,
           daemon, copiers, command, cliside, user
  <2>4. CountInv'
    BY <1>4
       DEF SetupFails, TypeInv, CountInv, ControlInv, InHand, daemon, copiers,
           command, cliside, user
  <2> QED BY <2>1, <2>2, <2>3, <2>4 DEF TypeInv
<1>5. CASE Report
  BY <1>5
     DEF Report, TypeInv, TypeOK, ControlInv, CountInv, InHand, AllModes, Loop,
         Tty, Exec, Closed, daemon, copiers, command, cliside, user
<1>6. CASE CopyDone
  BY <1>6
     DEF CopyDone, TypeInv, TypeOK, ControlInv, CountInv, InHand, AllModes, Loop,
         Tty, Exec, Closed, daemon, copiers, command, cliside, user
<1>7. CASE WaitCommand
  <2>1. ptmx' \in BOOLEAN /\ server' \in BOOLEAN /\ client' \in BOOLEAN
    BY <1>7 DEF WaitCommand, TypeInv, TypeOK, daemon, cliside
  <2>2. TypeOK'
    BY <1>7, <2>1
       DEF WaitCommand, TypeInv, TypeOK, ControlInv, AllModes, Loop, Tty, Exec,
           daemon, copiers, command, cliside, user
  <2>3. ControlInv'
    BY <1>7
       DEF WaitCommand, TypeInv, TypeOK, ControlInv, AllModes, Tty, Exec,
           daemon, copiers, command, cliside, user
  <2>4. CountInv'
    BY <1>7
       DEF WaitCommand, TypeInv, CountInv, ControlInv, InHand, daemon, copiers,
           command, cliside, user
  <2> QED BY <2>1, <2>2, <2>3, <2>4 DEF TypeInv
<1>8. CASE CopiersDone
  BY <1>8
     DEF CopiersDone, TypeInv, TypeOK, ControlInv, CountInv, InHand, AllModes,
         Loop, Tty, Exec, Closed, daemon, copiers, command, cliside, user
<1>9. CASE ClosePtmx
  <2>1. ptmx' \in BOOLEAN /\ server' \in BOOLEAN /\ client' \in BOOLEAN
    BY <1>9 DEF ClosePtmx, TypeInv, TypeOK, daemon, cliside
  <2>2. TypeOK'
    BY <1>9, <2>1
       DEF ClosePtmx, TypeInv, TypeOK, ControlInv, AllModes, Loop, Tty, Exec,
           daemon, copiers, command, cliside, user
  <2>3. ControlInv'
    BY <1>9
       DEF ClosePtmx, TypeInv, TypeOK, ControlInv, AllModes, Tty, Exec, daemon,
           copiers, command, cliside, user
  <2>4. CountInv'
    BY <1>9
       DEF ClosePtmx, TypeInv, CountInv, ControlInv, InHand, daemon, copiers,
           command, cliside, user
  <2> QED BY <2>1, <2>2, <2>3, <2>4 DEF TypeInv
<1>10. CASE Join
  BY <1>10
     DEF Join, TypeInv, TypeOK, ControlInv, CountInv, InHand, AllModes, Loop,
         Tty, Exec, Closed, daemon, copiers, command, cliside, user
<1>11. CASE Record
  BY <1>11
     DEF Record, TypeInv, TypeOK, ControlInv, CountInv, InHand, AllModes, Loop,
         Tty, Exec, Closed, daemon, copiers, command, cliside, user
<1>12. CASE Return
  <2>1. ptmx' \in BOOLEAN /\ server' \in BOOLEAN /\ client' \in BOOLEAN
    BY <1>12 DEF Return, TypeInv, TypeOK, daemon, cliside
  <2>2. TypeOK'
    BY <1>12, <2>1
       DEF Return, TypeInv, TypeOK, ControlInv, AllModes, Loop, Tty, Exec,
           daemon, copiers, command, cliside, user
  <2>3. ControlInv'
    BY <1>12
       DEF Return, TypeInv, TypeOK, ControlInv, AllModes, Tty, Exec, daemon,
           copiers, command, cliside, user
  <2>4. CountInv'
    BY <1>12
       DEF Return, TypeInv, CountInv, ControlInv, InHand, daemon, copiers,
           command, cliside, user
  <2> QED BY <2>1, <2>2, <2>3, <2>4 DEF TypeInv
<1>13. CASE WaiterReaps
  BY <1>13
     DEF WaiterReaps, TypeInv, TypeOK, ControlInv, CountInv, InHand, AllModes,
         Loop, Tty, Exec, Closed, daemon, copiers, command, cliside, user
<1>14. CASE WaiterEnds
  <2>1. ptmx' \in BOOLEAN /\ server' \in BOOLEAN /\ client' \in BOOLEAN
    BY <1>14 DEF WaiterEnds, TypeInv, TypeOK, daemon, cliside
  <2>2. TypeOK'
    BY <1>14, <2>1
       DEF WaiterEnds, TypeInv, TypeOK, ControlInv, AllModes, Loop, Tty, Exec,
           daemon, copiers, command, cliside, user
  <2>3. ControlInv'
    BY <1>14
       DEF WaiterEnds, TypeInv, TypeOK, ControlInv, AllModes, Tty, Exec,
           daemon, copiers, command, cliside, user
  <2>4. CountInv'
    BY <1>14
       DEF WaiterEnds, TypeInv, CountInv, ControlInv, InHand, daemon, copiers,
           command, cliside, user
  <2> QED BY <2>1, <2>2, <2>3, <2>4 DEF TypeInv
<1>15. CASE OutRead
  BY <1>15
     DEF OutRead, TypeInv, TypeOK, ControlInv, CountInv, InHand, AllModes, Loop,
         Tty, Exec, Closed, daemon, copiers, command, cliside, user
<1>16. CASE OutWrite
  BY <1>16
     DEF OutWrite, TypeInv, TypeOK, ControlInv, CountInv, InHand, AllModes, Loop,
         Tty, Exec, Closed, daemon, copiers, command, cliside, user
<1>17. CASE InRead
  BY <1>17
     DEF InRead, TypeInv, TypeOK, ControlInv, CountInv, InHand, AllModes, Loop,
         Tty, Exec, Closed, daemon, copiers, command, cliside, user
<1>18. CASE InWrite
  BY <1>18
     DEF InWrite, TypeInv, TypeOK, ControlInv, CountInv, InHand, AllModes, Loop,
         Tty, Exec, Closed, daemon, copiers, command, cliside, user
<1>19. CASE CommandWrites
  BY <1>19
     DEF CommandWrites, TypeInv, TypeOK, ControlInv, CountInv, InHand, AllModes,
         Loop, Tty, Exec, Closed, daemon, copiers, command, cliside, user
<1>20. CASE CommandReads
  BY <1>20
     DEF CommandReads, TypeInv, TypeOK, ControlInv, CountInv, InHand, AllModes,
         Loop, Tty, Exec, Closed, daemon, copiers, command, cliside, user
<1>21. CASE CommandExits
  BY <1>21
     DEF CommandExits, TypeInv, TypeOK, ControlInv, CountInv, InHand, AllModes,
         Loop, Tty, Exec, Closed, daemon, copiers, command, cliside, user
<1>22. CASE Show
  BY <1>22
     DEF Show, TypeInv, TypeOK, ControlInv, CountInv, InHand, AllModes, Loop,
         Tty, Exec, Closed, daemon, copiers, command, cliside, user
<1>23. CASE ReadStdin
  BY <1>23
     DEF ReadStdin, TypeInv, TypeOK, ControlInv, CountInv, InHand, AllModes,
         Loop, Tty, Exec, Closed, daemon, copiers, command, cliside, user
<1>24. CASE PollStdin
  BY <1>24
     DEF PollStdin, TypeInv, TypeOK, ControlInv, CountInv, InHand, AllModes,
         Loop, Tty, Exec, Closed, daemon, copiers, command, cliside, user
<1>25. CASE SendInput
  BY <1>25
     DEF SendInput, TypeInv, TypeOK, ControlInv, CountInv, InHand, AllModes,
         Loop, Tty, Exec, Closed, daemon, copiers, command, cliside, user
<1>26. CASE CliWaits
  <2>1. ptmx' \in BOOLEAN /\ server' \in BOOLEAN /\ client' \in BOOLEAN
    BY <1>26 DEF CliWaits, TypeInv, TypeOK, daemon, cliside
  <2>2. TypeOK'
    BY <1>26, <2>1
       DEF CliWaits, TypeInv, TypeOK, ControlInv, AllModes, Loop, Tty, Exec,
           daemon, copiers, command, cliside, user
  <2>3. ControlInv'
    BY <1>26
       DEF CliWaits, TypeInv, TypeOK, ControlInv, AllModes, Tty, Exec, daemon,
           copiers, command, cliside, user
  <2>4. CountInv'
    BY <1>26
       DEF CliWaits, TypeInv, CountInv, ControlInv, InHand, daemon, copiers,
           command, cliside, user
  <2> QED BY <2>1, <2>2, <2>3, <2>4 DEF TypeInv
<1>27. CASE CliJoins
  BY <1>27
     DEF CliJoins, TypeInv, TypeOK, ControlInv, CountInv, InHand, AllModes, Loop,
         Tty, Exec, Closed, daemon, copiers, command, cliside, user
<1>28. CASE CliDies
  <2>1. ptmx' \in BOOLEAN /\ server' \in BOOLEAN /\ client' \in BOOLEAN
    BY <1>28 DEF CliDies, TypeInv, TypeOK, daemon, cliside
  <2>2. TypeOK'
    BY <1>28, <2>1
       DEF CliDies, TypeInv, TypeOK, ControlInv, AllModes, Loop, Tty, Exec,
           daemon, copiers, command, cliside, user
  <2>3. ControlInv'
    BY <1>28
       DEF CliDies, TypeInv, TypeOK, ControlInv, AllModes, Tty, Exec, daemon,
           copiers, command, cliside, user
  <2>4. CountInv'
    BY <1>28
       DEF CliDies, TypeInv, CountInv, ControlInv, InHand, daemon, copiers,
           command, cliside, user
  <2> QED BY <2>1, <2>2, <2>3, <2>4 DEF TypeInv
<1>29. CASE UserTypes
  BY <1>29
     DEF UserTypes, TypeInv, TypeOK, ControlInv, CountInv, InHand, AllModes,
         Loop, Tty, Exec, Closed, daemon, copiers, command, cliside, user
<1>30. CASE StdinEnds
  BY <1>30
     DEF StdinEnds, TypeInv, TypeOK, ControlInv, CountInv, InHand, AllModes,
         Loop, Tty, Exec, Closed, daemon, copiers, command, cliside, user
<1>31. CASE UNCHANGED vars
  BY <1>31
     DEF vars, daemon, copiers, command, cliside, user, TypeInv, TypeOK,
         ControlInv, CountInv, InHand, AllModes, Loop, Tty, Exec, Closed
<1>32. CASE CheckDone
  BY <1>32
     DEF CheckDone, TypeInv, TypeOK, ControlInv, CountInv, InHand, AllModes,
         Loop, Tty, Exec, Closed, daemon, copiers, command, cliside, user
<1> QED
  BY <1>1, <1>2, <1>3, <1>4, <1>5, <1>6, <1>7, <1>8, <1>9, <1>10, <1>11, <1>12,
     <1>13, <1>14, <1>15, <1>16, <1>17, <1>18, <1>19, <1>20, <1>21, <1>22,
     <1>23, <1>24, <1>25, <1>26, <1>27, <1>28, <1>29, <1>30, <1>31, <1>32
     DEF Next, Handler, Waiter, CopyOut, CopyIn, CopyStdin, Cli

\* The sockets' ends close in order.
LEMMA CliStep == TypeInv /\ CliInv /\ [Next]_vars => CliInv'
<1> SUFFICES ASSUME TypeInv, CliInv, [Next]_vars PROVE CliInv'
  OBVIOUS
<1> USE SessionsAssumption
<1>1. CASE StartCommand
  BY <1>1
     DEF StartCommand, CliInv, TypeInv, TypeOK, daemon, copiers, command,
         cliside, user
<1>2. CASE StartFails
  BY <1>2
     DEF StartFails, CliInv, TypeInv, TypeOK, daemon, copiers, command, cliside,
         user
<1>3. CASE SetupDone
  BY <1>3
     DEF SetupDone, CliInv, TypeInv, TypeOK, daemon, copiers, command, cliside,
         user
<1>4. CASE SetupFails
  BY <1>4
     DEF SetupFails, CliInv, TypeInv, TypeOK, daemon, copiers, command, cliside,
         user
<1>5. CASE Report
  BY <1>5 DEF Report, CliInv, TypeInv, TypeOK, daemon, copiers, command, cliside, user
<1>6. CASE CopyDone
  BY <1>6 DEF CopyDone, CliInv, TypeInv, TypeOK, daemon, copiers, command, cliside, user
<1>7. CASE WaitCommand
  BY <1>7
     DEF WaitCommand, CliInv, TypeInv, TypeOK, daemon, copiers, command, cliside,
         user
<1>8. CASE CopiersDone
  BY <1>8
     DEF CopiersDone, CliInv, TypeInv, TypeOK, daemon, copiers, command, cliside,
         user
<1>9. CASE ClosePtmx
  BY <1>9
     DEF ClosePtmx, CliInv, TypeInv, TypeOK, daemon, copiers, command, cliside,
         user
<1>10. CASE Join
  BY <1>10 DEF Join, CliInv, TypeInv, TypeOK, daemon, copiers, command, cliside, user
<1>11. CASE Record
  BY <1>11 DEF Record, CliInv, TypeInv, TypeOK, daemon, copiers, command, cliside, user
<1>12. CASE Return
  BY <1>12 DEF Return, CliInv, TypeInv, TypeOK, daemon, copiers, command, cliside, user
<1>13. CASE WaiterReaps
  BY <1>13
     DEF WaiterReaps, CliInv, TypeInv, TypeOK, daemon, copiers, command, cliside,
         user
<1>14. CASE WaiterEnds
  BY <1>14
     DEF WaiterEnds, CliInv, TypeInv, TypeOK, daemon, copiers, command, cliside,
         user
<1>15. CASE OutRead
  BY <1>15 DEF OutRead, CliInv, TypeInv, TypeOK, daemon, copiers, command, cliside, user
<1>16. CASE OutWrite
  BY <1>16
     DEF OutWrite, CliInv, TypeInv, TypeOK, daemon, copiers, command, cliside,
         user
<1>17. CASE InRead
  BY <1>17 DEF InRead, CliInv, TypeInv, TypeOK, daemon, copiers, command, cliside, user
<1>18. CASE InWrite
  BY <1>18 DEF InWrite, CliInv, TypeInv, TypeOK, daemon, copiers, command, cliside, user
<1>19. CASE CommandWrites
  BY <1>19
     DEF CommandWrites, CliInv, TypeInv, TypeOK, daemon, copiers, command,
         cliside, user
<1>20. CASE CommandReads
  BY <1>20
     DEF CommandReads, CliInv, TypeInv, TypeOK, daemon, copiers, command,
         cliside, user
<1>21. CASE CommandExits
  BY <1>21
     DEF CommandExits, CliInv, TypeInv, TypeOK, daemon, copiers, command,
         cliside, user
<1>22. CASE Show
  BY <1>22 DEF Show, CliInv, TypeInv, TypeOK, daemon, copiers, command, cliside, user
<1>23. CASE ReadStdin
  BY <1>23
     DEF ReadStdin, CliInv, TypeInv, TypeOK, daemon, copiers, command, cliside,
         user
<1>24. CASE PollStdin
  BY <1>24
     DEF PollStdin, CliInv, TypeInv, TypeOK, daemon, copiers, command, cliside,
         user
<1>25. CASE SendInput
  BY <1>25
     DEF SendInput, CliInv, TypeInv, TypeOK, daemon, copiers, command, cliside,
         user
<1>26. CASE CliWaits
  BY <1>26
     DEF CliWaits, CliInv, TypeInv, TypeOK, daemon, copiers, command, cliside,
         user
<1>27. CASE CliJoins
  BY <1>27
     DEF CliJoins, CliInv, TypeInv, TypeOK, daemon, copiers, command, cliside,
         user
<1>28. CASE CliDies
  BY <1>28 DEF CliDies, CliInv, TypeInv, TypeOK, daemon, copiers, command, cliside, user
<1>29. CASE UserTypes
  BY <1>29
     DEF UserTypes, CliInv, TypeInv, TypeOK, daemon, copiers, command, cliside,
         user
<1>30. CASE StdinEnds
  BY <1>30
     DEF StdinEnds, CliInv, TypeInv, TypeOK, daemon, copiers, command, cliside,
         user
<1>31. CASE UNCHANGED vars
  BY <1>31 DEF vars, daemon, copiers, command, cliside, user, CliInv, TypeInv, TypeOK
<1>32. CASE CheckDone
  BY <1>32
     DEF CheckDone, CliInv, TypeInv, TypeOK, daemon, copiers, command, cliside,
         user
<1> QED
  BY <1>1, <1>2, <1>3, <1>4, <1>5, <1>6, <1>7, <1>8, <1>9, <1>10, <1>11, <1>12,
     <1>13, <1>14, <1>15, <1>16, <1>17, <1>18, <1>19, <1>20, <1>21, <1>22,
     <1>23, <1>24, <1>25, <1>26, <1>27, <1>28, <1>29, <1>30, <1>31, <1>32
     DEF Next, Handler, Waiter, CopyOut, CopyIn, CopyStdin, Cli

\* No step loses a chunk.
LEMMA DeliverStep ==
    TypeInv /\ CliInv /\ DeliverInv /\ [Next]_vars => DeliverInv'
<1> SUFFICES ASSUME TypeInv, CliInv, DeliverInv, [Next]_vars PROVE DeliverInv'
  OBVIOUS
<1> USE SessionsAssumption
<1>1. CASE StartCommand
  BY <1>1
     DEF StartCommand, DeliverInv, CliInv, TypeInv, TypeOK, ControlInv, InHand,
         Joined, AllModes, Loop, Tty, Exec, Closed, daemon, copiers, command,
         cliside, user
<1>2. CASE StartFails
  BY <1>2
     DEF StartFails, DeliverInv, CliInv, TypeInv, TypeOK, ControlInv, InHand,
         Joined, AllModes, Loop, Tty, Exec, Closed, daemon, copiers, command,
         cliside, user
<1>3. CASE SetupDone
  BY <1>3
     DEF SetupDone, DeliverInv, CliInv, TypeInv, TypeOK, ControlInv, InHand,
         Joined, AllModes, Loop, Tty, Exec, Closed, daemon, copiers, command,
         cliside, user
<1>4. CASE SetupFails
  BY <1>4
     DEF SetupFails, DeliverInv, CliInv, TypeInv, TypeOK, ControlInv, InHand,
         Joined, AllModes, Loop, Tty, Exec, Closed, daemon, copiers, command,
         cliside, user
<1>5. CASE Report
  BY <1>5
     DEF Report, DeliverInv, CliInv, TypeInv, TypeOK, ControlInv, InHand, Joined,
         AllModes, Loop, Tty, Exec, Closed, daemon, copiers, command, cliside,
         user
<1>6. CASE CopyDone
  BY <1>6
     DEF CopyDone, DeliverInv, CliInv, TypeInv, TypeOK, ControlInv, InHand,
         Joined, AllModes, Loop, Tty, Exec, Closed, daemon, copiers, command,
         cliside, user
<1>7. CASE WaitCommand
  BY <1>7
     DEF WaitCommand, DeliverInv, CliInv, TypeInv, TypeOK, ControlInv, InHand,
         Joined, AllModes, Loop, Tty, Exec, Closed, daemon, copiers, command,
         cliside, user
<1>8. CASE CopiersDone
  BY <1>8
     DEF CopiersDone, DeliverInv, CliInv, TypeInv, TypeOK, ControlInv, InHand,
         Joined, AllModes, Loop, Tty, Exec, Closed, daemon, copiers, command,
         cliside, user
<1>9. CASE ClosePtmx
  BY <1>9
     DEF ClosePtmx, DeliverInv, CliInv, TypeInv, TypeOK, ControlInv, InHand,
         Joined, AllModes, Loop, Tty, Exec, Closed, daemon, copiers, command,
         cliside, user
<1>10. CASE Join
  BY <1>10
     DEF Join, DeliverInv, CliInv, TypeInv, TypeOK, ControlInv, InHand, Joined,
         AllModes, Loop, Tty, Exec, Closed, daemon, copiers, command, cliside,
         user
<1>11. CASE Record
  BY <1>11
     DEF Record, DeliverInv, CliInv, TypeInv, TypeOK, ControlInv, InHand, Joined,
         AllModes, Loop, Tty, Exec, Closed, daemon, copiers, command, cliside,
         user
<1>12. CASE Return
  BY <1>12
     DEF Return, DeliverInv, CliInv, TypeInv, TypeOK, ControlInv, InHand, Joined,
         AllModes, Loop, Tty, Exec, Closed, daemon, copiers, command, cliside,
         user
<1>13. CASE WaiterReaps
  BY <1>13
     DEF WaiterReaps, DeliverInv, CliInv, TypeInv, TypeOK, ControlInv, InHand,
         Joined, AllModes, Loop, Tty, Exec, Closed, daemon, copiers, command,
         cliside, user
<1>14. CASE WaiterEnds
  BY <1>14
     DEF WaiterEnds, DeliverInv, CliInv, TypeInv, TypeOK, ControlInv, InHand,
         Joined, AllModes, Loop, Tty, Exec, Closed, daemon, copiers, command,
         cliside, user
<1>15. CASE OutRead
  BY <1>15
     DEF OutRead, DeliverInv, CliInv, TypeInv, TypeOK, ControlInv, InHand,
         Joined, AllModes, Loop, Tty, Exec, Closed, daemon, copiers, command,
         cliside, user
<1>16. CASE OutWrite
  BY <1>16
     DEF OutWrite, DeliverInv, CliInv, TypeInv, TypeOK, ControlInv, InHand,
         Joined, AllModes, Loop, Tty, Exec, Closed, daemon, copiers, command,
         cliside, user
<1>17. CASE InRead
  BY <1>17
     DEF InRead, DeliverInv, CliInv, TypeInv, TypeOK, ControlInv, InHand, Joined,
         AllModes, Loop, Tty, Exec, Closed, daemon, copiers, command, cliside,
         user
<1>18. CASE InWrite
  BY <1>18
     DEF InWrite, DeliverInv, CliInv, TypeInv, TypeOK, ControlInv, InHand,
         Joined, AllModes, Loop, Tty, Exec, Closed, daemon, copiers, command,
         cliside, user
<1>19. CASE CommandWrites
  BY <1>19
     DEF CommandWrites, DeliverInv, CliInv, TypeInv, TypeOK, ControlInv, InHand,
         Joined, AllModes, Loop, Tty, Exec, Closed, daemon, copiers, command,
         cliside, user
<1>20. CASE CommandReads
  BY <1>20
     DEF CommandReads, DeliverInv, CliInv, TypeInv, TypeOK, ControlInv, InHand,
         Joined, AllModes, Loop, Tty, Exec, Closed, daemon, copiers, command,
         cliside, user
<1>21. CASE CommandExits
  BY <1>21
     DEF CommandExits, DeliverInv, CliInv, TypeInv, TypeOK, ControlInv, InHand,
         Joined, AllModes, Loop, Tty, Exec, Closed, daemon, copiers, command,
         cliside, user
<1>22. CASE Show
  BY <1>22
     DEF Show, DeliverInv, CliInv, TypeInv, TypeOK, ControlInv, InHand, Joined,
         AllModes, Loop, Tty, Exec, Closed, daemon, copiers, command, cliside,
         user
<1>23. CASE ReadStdin
  BY <1>23
     DEF ReadStdin, DeliverInv, CliInv, TypeInv, TypeOK, ControlInv, InHand,
         Joined, AllModes, Loop, Tty, Exec, Closed, daemon, copiers, command,
         cliside, user
<1>24. CASE PollStdin
  BY <1>24
     DEF PollStdin, DeliverInv, CliInv, TypeInv, TypeOK, ControlInv, InHand,
         Joined, AllModes, Loop, Tty, Exec, Closed, daemon, copiers, command,
         cliside, user
<1>25. CASE SendInput
  BY <1>25
     DEF SendInput, DeliverInv, CliInv, TypeInv, TypeOK, ControlInv, InHand,
         Joined, AllModes, Loop, Tty, Exec, Closed, daemon, copiers, command,
         cliside, user
<1>26. CASE CliWaits
  BY <1>26
     DEF CliWaits, DeliverInv, CliInv, TypeInv, TypeOK, ControlInv, InHand,
         Joined, AllModes, Loop, Tty, Exec, Closed, daemon, copiers, command,
         cliside, user
<1>27. CASE CliJoins
  BY <1>27
     DEF CliJoins, DeliverInv, CliInv, TypeInv, TypeOK, ControlInv, InHand,
         Joined, AllModes, Loop, Tty, Exec, Closed, daemon, copiers, command,
         cliside, user
<1>28. CASE CliDies
  BY <1>28
     DEF CliDies, DeliverInv, CliInv, TypeInv, TypeOK, ControlInv, InHand,
         Joined, AllModes, Loop, Tty, Exec, Closed, daemon, copiers, command,
         cliside, user
<1>29. CASE UserTypes
  BY <1>29
     DEF UserTypes, DeliverInv, CliInv, TypeInv, TypeOK, ControlInv, InHand,
         Joined, AllModes, Loop, Tty, Exec, Closed, daemon, copiers, command,
         cliside, user
<1>30. CASE StdinEnds
  BY <1>30
     DEF StdinEnds, DeliverInv, CliInv, TypeInv, TypeOK, ControlInv, InHand,
         Joined, AllModes, Loop, Tty, Exec, Closed, daemon, copiers, command,
         cliside, user
<1>31. CASE UNCHANGED vars
  BY <1>31
     DEF vars, daemon, copiers, command, cliside, user, DeliverInv, CliInv,
         TypeInv, TypeOK, ControlInv, InHand, Joined, AllModes, Loop, Tty, Exec,
         Closed
<1>32. CASE CheckDone
  BY <1>32
     DEF CheckDone, DeliverInv, CliInv, TypeInv, TypeOK, ControlInv, InHand,
         Joined, AllModes, Loop, Tty, Exec, Closed, daemon, copiers, command,
         cliside, user
<1> QED
  BY <1>1, <1>2, <1>3, <1>4, <1>5, <1>6, <1>7, <1>8, <1>9, <1>10, <1>11, <1>12,
     <1>13, <1>14, <1>15, <1>16, <1>17, <1>18, <1>19, <1>20, <1>21, <1>22,
     <1>23, <1>24, <1>25, <1>26, <1>27, <1>28, <1>29, <1>30, <1>31, <1>32
     DEF Next, Handler, Waiter, CopyOut, CopyIn, CopyStdin, Cli

\* Every thread goes on waiting for something that exists.
LEMMA WaitStep == TypeInv /\ WaitInv /\ [Next]_vars => WaitInv'
<1> SUFFICES ASSUME TypeInv, WaitInv, [Next]_vars PROVE WaitInv'
  OBVIOUS
<1> USE SessionsAssumption
<1>1. CASE StartCommand
  BY <1>1
     DEF StartCommand, WaitInv, TypeInv, TypeOK, ControlInv, Loop, Exec, Tty,
         daemon, copiers, command, cliside, user
<1>2. CASE StartFails
  BY <1>2
     DEF StartFails, WaitInv, TypeInv, TypeOK, ControlInv, Loop, Exec, Tty,
         daemon, copiers, command, cliside, user
<1>3. CASE SetupDone
  BY <1>3
     DEF SetupDone, WaitInv, TypeInv, TypeOK, ControlInv, Loop, Exec, Tty,
         daemon, copiers, command, cliside, user
<1>4. CASE SetupFails
  BY <1>4
     DEF SetupFails, WaitInv, TypeInv, TypeOK, ControlInv, Loop, Exec, Tty,
         daemon, copiers, command, cliside, user
<1>5. CASE Report
  BY <1>5
     DEF Report, WaitInv, TypeInv, TypeOK, ControlInv, Loop, Exec, Tty, daemon,
         copiers, command, cliside, user
<1>6. CASE CopyDone
  BY <1>6
     DEF CopyDone, WaitInv, TypeInv, TypeOK, ControlInv, Loop, Exec, Tty, daemon,
         copiers, command, cliside, user
<1>7. CASE WaitCommand
  BY <1>7
     DEF WaitCommand, WaitInv, TypeInv, TypeOK, ControlInv, Loop, Exec, Tty,
         daemon, copiers, command, cliside, user
<1>8. CASE CopiersDone
  BY <1>8
     DEF CopiersDone, WaitInv, TypeInv, TypeOK, ControlInv, Loop, Exec, Tty,
         daemon, copiers, command, cliside, user
<1>9. CASE ClosePtmx
  BY <1>9
     DEF ClosePtmx, WaitInv, TypeInv, TypeOK, ControlInv, Loop, Exec, Tty,
         daemon, copiers, command, cliside, user
<1>10. CASE Join
  BY <1>10
     DEF Join, WaitInv, TypeInv, TypeOK, ControlInv, Loop, Exec, Tty, daemon,
         copiers, command, cliside, user
<1>11. CASE Record
  BY <1>11
     DEF Record, WaitInv, TypeInv, TypeOK, ControlInv, Loop, Exec, Tty, daemon,
         copiers, command, cliside, user
<1>12. CASE Return
  BY <1>12
     DEF Return, WaitInv, TypeInv, TypeOK, ControlInv, Loop, Exec, Tty, daemon,
         copiers, command, cliside, user
<1>13. CASE WaiterReaps
  BY <1>13
     DEF WaiterReaps, WaitInv, TypeInv, TypeOK, ControlInv, Loop, Exec, Tty,
         daemon, copiers, command, cliside, user
<1>14. CASE WaiterEnds
  BY <1>14
     DEF WaiterEnds, WaitInv, TypeInv, TypeOK, ControlInv, Loop, Exec, Tty,
         daemon, copiers, command, cliside, user
<1>15. CASE OutRead
  BY <1>15
     DEF OutRead, WaitInv, TypeInv, TypeOK, ControlInv, Loop, Exec, Tty, daemon,
         copiers, command, cliside, user
<1>16. CASE OutWrite
  BY <1>16
     DEF OutWrite, WaitInv, TypeInv, TypeOK, ControlInv, Loop, Exec, Tty, daemon,
         copiers, command, cliside, user
<1>17. CASE InRead
  BY <1>17
     DEF InRead, WaitInv, TypeInv, TypeOK, ControlInv, Loop, Exec, Tty, daemon,
         copiers, command, cliside, user
<1>18. CASE InWrite
  BY <1>18
     DEF InWrite, WaitInv, TypeInv, TypeOK, ControlInv, Loop, Exec, Tty, daemon,
         copiers, command, cliside, user
<1>19. CASE CommandWrites
  BY <1>19
     DEF CommandWrites, WaitInv, TypeInv, TypeOK, ControlInv, Loop, Exec, Tty,
         daemon, copiers, command, cliside, user
<1>20. CASE CommandReads
  BY <1>20
     DEF CommandReads, WaitInv, TypeInv, TypeOK, ControlInv, Loop, Exec, Tty,
         daemon, copiers, command, cliside, user
<1>21. CASE CommandExits
  BY <1>21
     DEF CommandExits, WaitInv, TypeInv, TypeOK, ControlInv, Loop, Exec, Tty,
         daemon, copiers, command, cliside, user
<1>22. CASE Show
  BY <1>22
     DEF Show, WaitInv, TypeInv, TypeOK, ControlInv, Loop, Exec, Tty, daemon,
         copiers, command, cliside, user
<1>23. CASE ReadStdin
  BY <1>23
     DEF ReadStdin, WaitInv, TypeInv, TypeOK, ControlInv, Loop, Exec, Tty,
         daemon, copiers, command, cliside, user
<1>24. CASE PollStdin
  BY <1>24
     DEF PollStdin, WaitInv, TypeInv, TypeOK, ControlInv, Loop, Exec, Tty,
         daemon, copiers, command, cliside, user
<1>25. CASE SendInput
  BY <1>25
     DEF SendInput, WaitInv, TypeInv, TypeOK, ControlInv, Loop, Exec, Tty,
         daemon, copiers, command, cliside, user
<1>26. CASE CliWaits
  BY <1>26
     DEF CliWaits, WaitInv, TypeInv, TypeOK, ControlInv, Loop, Exec, Tty, daemon,
         copiers, command, cliside, user
<1>27. CASE CliJoins
  BY <1>27
     DEF CliJoins, WaitInv, TypeInv, TypeOK, ControlInv, Loop, Exec, Tty, daemon,
         copiers, command, cliside, user
<1>28. CASE CliDies
  BY <1>28
     DEF CliDies, WaitInv, TypeInv, TypeOK, ControlInv, Loop, Exec, Tty, daemon,
         copiers, command, cliside, user
<1>29. CASE UserTypes
  BY <1>29
     DEF UserTypes, WaitInv, TypeInv, TypeOK, ControlInv, Loop, Exec, Tty,
         daemon, copiers, command, cliside, user
<1>30. CASE StdinEnds
  BY <1>30
     DEF StdinEnds, WaitInv, TypeInv, TypeOK, ControlInv, Loop, Exec, Tty,
         daemon, copiers, command, cliside, user
<1>31. CASE UNCHANGED vars
  BY <1>31 DEF vars, WaitInv, daemon, copiers, command, cliside, user
<1>32. CASE CheckDone
  BY <1>32
     DEF CheckDone, WaitInv, TypeInv, TypeOK, ControlInv, Loop, Exec, Tty,
         daemon, copiers, command, cliside, user
<1> QED
  BY <1>1, <1>2, <1>3, <1>4, <1>5, <1>6, <1>7, <1>8, <1>9, <1>10, <1>11, <1>12,
     <1>13, <1>14, <1>15, <1>16, <1>17, <1>18, <1>19, <1>20, <1>21, <1>22,
     <1>23, <1>24, <1>25, <1>26, <1>27, <1>28, <1>29, <1>30, <1>31, <1>32
     DEF Next, Handler, Waiter, CopyOut, CopyIn, CopyStdin, Cli

\* Each step of a thread leaves less to do.
LEMMA WorkStep ==
    TypeInv /\ [Next]_vars =>
        [Work' < Work \/ Polls \/ UserTypes \/ CommandWrites \/ CommandReads \/ CommandExits]_vars
<1> SUFFICES ASSUME TypeInv, Next, ~UserTypes, ~CommandWrites, ~CommandReads, ~CommandExits
             PROVE  Work' < Work \/ Polls
  OBVIOUS
<1> USE SessionsAssumption
<1>1. CASE StartCommand
  BY <1>1, SMTT(30)
     DEF StartCommand, Work, Stages, LoopWork, TypeInv, TypeOK, ControlInv, Loop,
         Exec, Tty, daemon, copiers, command, cliside, user
<1>2. CASE StartFails
  BY <1>2
     DEF StartFails, Work, Stages, LoopWork, TypeInv, TypeOK, ControlInv, Loop,
         Exec, Tty, daemon, copiers, command, cliside, user
<1>3. CASE SetupDone
  BY <1>3
     DEF SetupDone, Work, Stages, LoopWork, TypeInv, TypeOK, ControlInv, Loop,
         Exec, Tty, daemon, copiers, command, cliside, user
<1>4. CASE SetupFails
  BY <1>4
     DEF SetupFails, Work, Stages, LoopWork, TypeInv, TypeOK, ControlInv, Loop,
         Exec, Tty, daemon, copiers, command, cliside, user
<1>5. CASE Report
  BY <1>5, SMTT(30)
     DEF Report, Work, Stages, LoopWork, TypeInv, TypeOK, ControlInv, Loop, Exec,
         Tty, daemon, copiers, command, cliside, user
<1>6. CASE CopyDone
  BY <1>6
     DEF CopyDone, Work, Stages, LoopWork, TypeInv, TypeOK, ControlInv, Loop,
         Exec, Tty, daemon, copiers, command, cliside, user
<1>7. CASE WaitCommand
  BY <1>7
     DEF WaitCommand, Work, Stages, LoopWork, TypeInv, TypeOK, ControlInv, Loop,
         Exec, Tty, daemon, copiers, command, cliside, user
<1>8. CASE CopiersDone
  BY <1>8
     DEF CopiersDone, Work, Stages, LoopWork, TypeInv, TypeOK, ControlInv, Loop,
         Exec, Tty, daemon, copiers, command, cliside, user
<1>9. CASE ClosePtmx
  BY <1>9
     DEF ClosePtmx, Work, Stages, LoopWork, TypeInv, TypeOK, ControlInv, Loop,
         Exec, Tty, daemon, copiers, command, cliside, user
<1>10. CASE Join
  BY <1>10
     DEF Join, Work, Stages, LoopWork, TypeInv, TypeOK, ControlInv, Loop, Exec,
         Tty, daemon, copiers, command, cliside, user
<1>11. CASE Record
  BY <1>11
     DEF Record, Work, Stages, LoopWork, TypeInv, TypeOK, ControlInv, Loop, Exec,
         Tty, daemon, copiers, command, cliside, user
<1>12. CASE Return
  BY <1>12
     DEF Return, Work, Stages, LoopWork, TypeInv, TypeOK, ControlInv, Loop, Exec,
         Tty, daemon, copiers, command, cliside, user
<1>13. CASE WaiterReaps
  BY <1>13
     DEF WaiterReaps, Work, Stages, LoopWork, TypeInv, TypeOK, ControlInv, Loop,
         Exec, Tty, daemon, copiers, command, cliside, user
<1>14. CASE WaiterEnds
  BY <1>14
     DEF WaiterEnds, Work, Stages, LoopWork, TypeInv, TypeOK, ControlInv, Loop,
         Exec, Tty, daemon, copiers, command, cliside, user
<1>15. CASE OutRead
  BY <1>15, SMTT(30)
     DEF OutRead, Work, Stages, LoopWork, TypeInv, TypeOK, ControlInv, Loop,
         Exec, Tty, daemon, copiers, command, cliside, user
<1>16. CASE OutWrite
  <2>1. CASE outCopy' = "read"
    BY <1>16, <2>1, SMTT(30)
       DEF OutWrite, Work, Stages, LoopWork, TypeInv, TypeOK, Loop, daemon, copiers, command,
           cliside, user
  <2>2. CASE ~(outCopy' = "read")
    BY <1>16, <2>2, SMTT(30)
       DEF OutWrite, Work, Stages, LoopWork, TypeInv, TypeOK, Loop, daemon, copiers, command,
           cliside, user
  <2> QED BY <2>1, <2>2
<1>17. CASE InRead
  BY <1>17, SMTT(30)
     DEF InRead, Work, Stages, LoopWork, TypeInv, TypeOK, ControlInv, Loop, Exec,
         Tty, daemon, copiers, command, cliside, user
<1>18. CASE InWrite
  BY <1>18, SMTT(30)
     DEF InWrite, Work, Stages, LoopWork, TypeInv, TypeOK, ControlInv, Loop,
         Exec, Tty, daemon, copiers, command, cliside, user
<1>19. CASE Show
  <2>1. CASE show' = show
    BY <1>19, <2>1, SMTT(30)
       DEF Show, Work, Stages, LoopWork, TypeInv, TypeOK, Loop, daemon, copiers, command,
           cliside, user
  <2>2. CASE ~(show' = show)
    BY <1>19, <2>2, SMTT(30)
       DEF Show, Work, Stages, LoopWork, TypeInv, TypeOK, Loop, daemon, copiers, command,
           cliside, user
  <2> QED BY <2>1, <2>2
<1>20. CASE ReadStdin
  <2>1. CASE read' = "write"
    BY <1>20, <2>1, SMTT(30)
       DEF ReadStdin, Work, Stages, LoopWork, TypeInv, TypeOK, Loop, daemon, copiers, command,
           cliside, user
  <2>2. CASE ~(read' = "write")
    BY <1>20, <2>2, SMTT(30)
       DEF ReadStdin, Work, Stages, LoopWork, TypeInv, TypeOK, Loop, daemon, copiers, command,
           cliside, user
  <2> QED BY <2>1, <2>2
<1>21. CASE PollStdin
  <2>1. CASE read' = "done" \/ read' = "write"
    BY <1>21, <2>1, SMTT(30)
       DEF PollStdin, Work, Stages, LoopWork, TypeInv, TypeOK, ControlInv, Loop, Exec, Tty,
           daemon, copiers, command, cliside, user
  <2>2. CASE read' = "read"
    BY <1>21, <2>2 DEF PollStdin, Polls, TypeInv, ControlInv, user
  <2> QED BY <1>21, <2>1, <2>2 DEF PollStdin
<1>27. CASE CheckDone
  <2>1. CASE show = "done"
    BY <1>27, <2>1, SMTT(30)
       DEF CheckDone, Work, Stages, LoopWork, TypeInv, TypeOK, ControlInv, Loop, Exec, Tty,
           daemon, copiers, command, cliside, user
  <2>2. CASE show # "done"
    BY <1>27, <2>2 DEF CheckDone, Polls
  <2> QED BY <2>1, <2>2
<1>22. CASE SendInput
  BY <1>22, SMTT(30)
     DEF SendInput, Work, Stages, LoopWork, TypeInv, TypeOK, ControlInv, Loop,
         Exec, Tty, daemon, copiers, command, cliside, user
<1>23. CASE CliWaits
  BY <1>23, SMTT(30)
     DEF CliWaits, Work, Stages, LoopWork, TypeInv, TypeOK, ControlInv, Loop,
         Exec, Tty, daemon, copiers, command, cliside, user
<1>24. CASE CliJoins
  BY <1>24, SMTT(30)
     DEF CliJoins, Work, Stages, LoopWork, TypeInv, TypeOK, ControlInv, Loop,
         Exec, Tty, daemon, copiers, command, cliside, user
<1>25. CASE CliDies
  BY <1>25, SMTT(30)
     DEF CliDies, Work, Stages, LoopWork, TypeInv, TypeOK, ControlInv, Loop,
         Exec, Tty, daemon, copiers, command, cliside, user
<1>26. CASE StdinEnds
  BY <1>26
     DEF StdinEnds, Work, Stages, LoopWork, TypeInv, TypeOK, ControlInv, Loop,
         Exec, Tty, daemon, copiers, command, cliside, user
<1> QED
  BY <1>1, <1>2, <1>3, <1>4, <1>5, <1>6, <1>7, <1>8, <1>9, <1>10, <1>11, <1>12,
     <1>13, <1>14, <1>15, <1>16, <1>17, <1>18, <1>19, <1>20, <1>21, <1>22,
     <1>23, <1>24, <1>25, <1>26, <1>27
     DEF Next, Handler, Waiter, CopyOut, CopyIn, CopyStdin, Cli

\* What is left to do is a natural number, so it cannot become less for ever.
LEMMA WorkInNat == TypeInv => Work \in Nat
<1> SUFFICES ASSUME TypeInv PROVE Work \in Nat
  OBVIOUS
<1>1. Stages \in Nat
  BY DEF Stages
<1>2. /\ LoopWork(outCopy, 6) \in Nat /\ LoopWork(show, 0) \in Nat
      /\ LoopWork(read, 7) \in Nat /\ LoopWork(inCopy, 4) \in Nat
  BY DEF LoopWork
<1>3. output \in Nat /\ down \in Nat /\ unread \in Nat /\ up \in Nat
  BY SessionsAssumption DEF TypeInv, TypeOK
<1> QED BY <1>1, <1>2, <1>3, SMTT(30) DEF Work

-----------------------------------------------------------------------------
LEMMA SessionsInit == Init => TypeInv /\ CliInv /\ DeliverInv /\ WaitInv
<1> SUFFICES ASSUME Init PROVE TypeInv /\ CliInv /\ DeliverInv /\ WaitInv
  OBVIOUS
<1> USE SessionsAssumption
<1>1. TypeOK
  <2>1. ptmx \in BOOLEAN /\ server \in BOOLEAN /\ client \in BOOLEAN /\ eof \in BOOLEAN
    BY DEF Init
  <2>2. mode \in AllModes /\ stdin \in {"hangup", "file"}
    BY DEF Init
  <2> QED BY <2>1, <2>2 DEF Init, TypeOK, Loop
<1>2. ControlInv
  BY DEF Init, ControlInv, Exec, Tty
<1>3. CountInv
  BY DEF Init, CountInv, InHand
<1>4. CliInv
  BY DEF Init, CliInv
<1>5. DeliverInv
  BY DEF Init, DeliverInv, InHand, Joined
<1>6. WaitInv
  BY DEF Init, WaitInv
<1> QED BY <1>1, <1>2, <1>3, <1>4, <1>5, <1>6 DEF TypeInv

\* Every counter stays within the buffer it belongs to: no loop writes to a
\* full buffer or reads from an empty one, and no more is shown than written.
THEOREM SessionsTypeCorrect == Spec => []TypeOK
<1>1. Init => TypeInv
  BY SessionsInit
<1>2. TypeInv => TypeOK
  BY DEF TypeInv
<1> QED BY <1>1, <1>2, TypeStep, PTL DEF Spec

\* exec with a terminal and start without one have written all the output of
\* their command when they close the connection after its end, unless the user
\* has gone: for buffers of any size, any output and any interleaving.
THEOREM NoOutputLost == Spec => []OutputDelivered
<1>1. TypeInv /\ CliInv /\ DeliverInv => OutputDelivered
  <2> SUFFICES ASSUME TypeInv, DeliverInv, mode \in {"execTty", "start"}, ~server,
                      proc \in {"exited", "reaped"}, cli # "died"
               PROVE  shown + down = produced
    BY DEF OutputDelivered
  <2>1. main = "returned"
    BY DEF TypeInv, TypeOK, ControlInv
  <2>2. outCopy = "done" /\ output = 0
    BY <2>1 DEF DeliverInv, Joined
  <2>3. produced = output + InHand + down + shown /\ InHand = 0
    BY <2>2 DEF DeliverInv, InHand
  <2> QED BY <2>2, <2>3 DEF TypeInv, TypeOK
<1> QED BY <1>1, SessionsInit, TypeStep, CliStep, DeliverStep, PTL DEF Spec

\* A session in which nobody can go on is left alone: standard input is polled in vain, and
\* its next other step is one of the command, of the user or the death of the CLI.
LEMMA StuckRests ==
    ASSUME TypeOK, Stuck
    PROVE  ~(Handler \/ Waiter \/ CopyOut \/ CopyIn \/ Show \/ Cli) /\ (CopyStdin => Polls)
<1>1. ~Handler
  BY DEF Stuck, HandlerWaits, Handler, StartCommand, StartFails, SetupDone, SetupFails, Report,
         CopyDone, WaitCommand, CopiersDone, ClosePtmx, Join, Record, Return, TypeOK
<1>2. ~Waiter
  BY DEF Stuck, WaiterWaits, Waiter, WaiterReaps, WaiterEnds
<1>3. ~CopyOut
  BY DEF Stuck, CopyOutWaits, CopyOut, OutRead, OutWrite, TypeOK
<1>4. ~CopyIn
  BY DEF Stuck, CopyInWaits, CopyIn, InRead, InWrite, TypeOK
<1>5. ~Show
  BY DEF Stuck, ShowWaits, Show, TypeOK
<1>6. CopyStdin => Polls
  <2>1. ~ReadStdin /\ ~SendInput
    BY DEF Stuck, StdinWaits, ReadStdin, SendInput, TypeOK
  <2>2. CheckDone => Polls
    BY DEF Stuck, StdinWaits, CheckDone, Polls
  <2>3. PollStdin => Polls
    BY DEF Stuck, StdinWaits, PollStdin, Polls, user
  <2> QED BY <2>1, <2>2, <2>3 DEF CopyStdin
<1>7. ~Cli
  BY DEF Stuck, CliIsWaiting, Cli, CliWaits, CliJoins
<1> QED BY <1>1, <1>2, <1>3, <1>4, <1>5, <1>6, <1>7

\* The threads of a session never hold one another up in a circle, for buffers of any size
\* and any output and input: a session in which nobody can go on has no output held up,
\* and once the command has ended it is over or waits for input that may never come.
THEOREM NoCircularWait == Spec => []NeverStuck
<1>1. TypeInv /\ CliInv /\ WaitInv => NeverStuck
  <2> SUFFICES ASSUME TypeInv, CliInv, WaitInv, Stuck
               PROVE  outCopy # "write" /\ (proc # "running" => Over \/ AwaitsInput)
    BY DEF NeverStuck
  <2>1. cli = "died" => ~client
    BY DEF WaitInv
  <2>2. server /\ client => show = "read" /\ cli = "wait" /\ down = 0
    BY DEF CliInv, WaitInv, TypeInv, TypeOK, Stuck, ShowWaits
  <2>3. outCopy # "write"
    BY <2>2, SessionsAssumption DEF Stuck, CopyOutWaits
  <2> SUFFICES ASSUME proc # "running" PROVE Over \/ AwaitsInput
    BY <2>3
  <2>4. outCopy \in {"off", "done"}
    BY <2>3 DEF Stuck, CopyOutWaits, TypeInv, TypeOK, Loop
  <2>5. inCopy \in {"off", "read", "done"} /\ (inCopy = "read" => server /\ client)
    BY DEF Stuck, CopyInWaits, TypeInv, TypeOK, Loop
  <2>6. CASE main = "returned"
    <3>1. ~server
      BY <2>6 DEF WaitInv
    <3>2. inCopy \in {"off", "done"} /\ show = "done"
      BY <3>1, <2>5 DEF Stuck, ShowWaits, TypeInv, TypeOK
    <3>3. waiter \in {"off", "done"}
      <4>1. waiter # "wait"
        BY DEF WaitInv, Stuck, WaiterWaits
      <4>2. waiter # "copiers"
        BY <2>4, <3>2 DEF WaitInv, Stuck, WaiterWaits
      <4> QED BY <4>1, <4>2 DEF TypeInv, TypeOK
    <3>4. Exec \/ cli \in {"exited", "died"}
      <4> SUFFICES ASSUME ~Exec PROVE cli \in {"exited", "died"}
        OBVIOUS
      <4>1. read = "done"
        BY <3>1, <3>2 DEF Stuck, StdinWaits, TypeInv, TypeOK
      <4> QED BY <4>1, <3>2 DEF Stuck, CliIsWaiting, TypeInv, TypeOK
    <3> QED BY <2>4, <2>6, <3>2, <3>3, <3>4 DEF Over
  <2>7. CASE main = "report"
    <3>1. server
      BY <2>7 DEF TypeInv, TypeOK, ControlInv, AllModes, Exec
    <3> QED BY <2>2, <2>7, <3>1, SessionsAssumption DEF Stuck, HandlerWaits
  <2>8. CASE main = "wait"
    BY <2>8 DEF WaitInv, Stuck, HandlerWaits
  <2>9. CASE main = "join"
    BY <2>4, <2>9 DEF WaitInv, Stuck, HandlerWaits
  <2>10. CASE main \in {"copy", "copiers"}
    <3>1. outCopy = "done" /\ inCopy # "off"
      BY <2>4, <2>10 DEF WaitInv
    <3>2. inCopy = "read"
      BY <2>5, <2>10, <3>1 DEF Stuck, HandlerWaits
    <3>3. (mode = "execTty" /\ main = "copy") \/ (mode = "start" /\ main = "copiers")
      BY <2>10 DEF TypeInv, ControlInv
    <3> QED BY <2>2, <2>5, <3>2, <3>3 DEF AwaitsInput
  <2> QED BY <2>6, <2>7, <2>8, <2>9, <2>10 DEF Stuck, HandlerWaits
<1> QED BY <1>1, SessionsInit, TypeStep, CliStep, WaitStep, PTL DEF Spec

\* For any buffers, each step of the daemon and of the CLI leaves less to do than before,
\* until the command or the user makes more: the only thread that ever goes round is the
\* loop of CopyInputUntilClosed, when it gets nothing.
THEOREM OnlyPollingRepeats == Spec => [](Work \in Nat) /\ WorkRunsOut
<1>1. Init => TypeInv
  BY SessionsInit
<1> QED BY <1>1, TypeStep, WorkStep, WorkInNat, PTL DEF Spec, WorkRunsOut
=============================================================================
