------------------------------ MODULE Sessions ------------------------------
(***************************************************************************)
(* One terminal session with a command in a container: `gocker exec` and   *)
(* `gocker start --attach` in the CLI, handleExec and Manager.Start in the *)
(* daemon, a unix socket between them and, on the daemon's side, either a  *)
(* pseudo terminal or the pipes and copying goroutines of os/exec.         *)
(*                                                                         *)
(* Each copy loop is a thread of its own and the data are chunks that move *)
(* through buffers of size Buf: output from the command to the terminal or *)
(* pipe, to the socket, to the user; input the other way.  A loop that     *)
(* finds its buffer full, or nothing to read, waits.                       *)
(***************************************************************************)
EXTENDS Naturals

CONSTANTS
    Modes,      \* the sessions considered: see AllModes
    StdinKinds, \* how the CLI's standard input may end: "hangup" for a pipe or a terminal,
                \* "file" for a regular file, where a read returns nothing
    Buf,        \* chunks a buffer holds
    MaxOut,     \* bound: chunks the command writes
    MaxIn       \* bound: chunks the user types

AllModes == {"exec", "execTty", "start", "startTty"}

ASSUME SessionsAssumption ==
    /\ Modes \subseteq AllModes
    /\ StdinKinds \subseteq {"hangup", "file"}
    /\ Buf \in Nat \ {0} /\ MaxOut \in Nat /\ MaxIn \in Nat

VARIABLES
    mode,      \* the kind of session
    main,      \* the daemon's handler goroutine
    waiter,    \* the goroutine handleExec leaves behind
    outCopy,   \* the copy loop from the command to the socket
    inCopy,    \* the copy loop from the socket to the command
    ptmx,      \* the daemon has the pseudo terminal open
    proc,      \* the command
    output,    \* chunks written by the command and not read by outCopy
    produced,  \* chunks written for the user, by the command or as an error report
    input,     \* chunks the command has not read
    server,    \* the daemon's end of the socket is open
    client,    \* the CLI's end of the socket is open
    down, up,  \* chunks inside the socket, to the CLI and to the daemon
    cli,       \* the CLI's main thread
    show,      \* the CLI's copy loop from the socket to standard output
    shown,     \* chunks the user has seen
    read,      \* the CLI's copy loop from standard input to the socket
    typed,     \* chunks the user has typed
    unread,    \* typed chunks the CLI has not read
    stdin,     \* the kind of standard input the CLI has
    eof        \* standard input has ended

daemon == <<main, waiter, ptmx, server>>
copiers == <<outCopy, inCopy>>
command == <<proc, produced>>
cliside == <<client, cli, show, shown, read>>
user == <<typed, unread, stdin, eof>>
vars == <<mode, daemon, copiers, command, output, input, down, up, cliside, user>>

Tty == mode \in {"execTty", "startTty"}
Exec == mode \in {"exec", "execTty"}
Loop == {"off", "read", "write", "done"}

TypeOK ==
    /\ mode \in AllModes
    /\ main \in {"start", "setup", "copy", "wait", "close", "copiers", "join", "record",
                 "report", "return", "returned"}
    /\ waiter \in {"off", "wait", "copiers", "done"}
    /\ outCopy \in Loop /\ inCopy \in Loop
    /\ ptmx \in BOOLEAN /\ server \in BOOLEAN /\ client \in BOOLEAN
    /\ proc \in {"none", "running", "exited", "reaped", "abandoned"}
    /\ output \in 0 .. Buf /\ input \in 0 .. Buf
    /\ down \in 0 .. Buf /\ up \in 0 .. Buf
    /\ produced \in 0 .. MaxOut + 1 /\ shown \in 0 .. MaxOut + 1
    /\ typed \in 0 .. MaxIn /\ unread \in 0 .. MaxIn
    /\ cli \in {"wait", "join", "exited", "died"}
    /\ show \in {"read", "done"} /\ read \in {"read", "poll", "write", "done"}
    /\ stdin \in {"hangup", "file"} /\ eof \in BOOLEAN

\* The CLI has sent its request and the daemon has found the container.  start
\* asks for a terminal only when its standard input is one.
Init ==
    /\ mode \in Modes /\ stdin \in StdinKinds
    /\ mode = "startTty" => stdin # "file"
    /\ main = "start" /\ waiter = "off"
    /\ outCopy = "off" /\ inCopy = "off"
    /\ ptmx = FALSE /\ server = TRUE /\ client = TRUE
    /\ proc = "none" /\ output = 0 /\ produced = 0 /\ input = 0
    /\ down = 0 /\ up = 0
    /\ cli = "wait" /\ show = "read" /\ shown = 0 /\ read = "read"
    /\ typed = 0 /\ unread = 0 /\ eof = FALSE

-----------------------------------------------------------------------------
\* pty.Start or cmd.Start.  With a pseudo terminal the copy loops are the
\* daemon's own (in handleExec the handler itself copies the input); without
\* one they belong to os/exec, because the connection is no *os.File.
StartCommand ==
    /\ main = "start"
    /\ proc' = "running"
    /\ outCopy' = "read" /\ inCopy' = "read"
    /\ ptmx' = Tty
    /\ main' = CASE mode = "execTty" -> "copy"
                 [] mode = "exec" -> "return"
                 [] OTHER -> "setup"
    /\ waiter' = IF mode = "exec" THEN "wait" ELSE "off"
    /\ UNCHANGED <<mode, server, produced, output, input, down, up, cliside, user>>

\* exec -t falls back to a session without a terminal, exec closes the
\* connection and returns, Start returns an error.
StartFails ==
    /\ main = "start"
    /\ \/ mode = "execTty" /\ mode' = "exec" /\ UNCHANGED main
       \/ mode = "exec" /\ main' = "return" /\ UNCHANGED mode
       \/ ~Exec /\ main' = "report" /\ UNCHANGED mode
    /\ UNCHANGED <<waiter, ptmx, server, copiers, command, output, input, down, up, cliside,
                   user>>

\* Start goes on to the network, the address, the pipe and the cgroup; on an
\* error it kills the command and returns without waiting for it.
SetupDone ==
    /\ main = "setup" /\ main' = "wait"
    /\ UNCHANGED <<mode, waiter, ptmx, server, copiers, command, output, input, down, up,
                   cliside, user>>
SetupFails ==
    /\ main = "setup" /\ main' = "report"
    /\ proc' = "abandoned"
    /\ ptmx' = FALSE
    /\ UNCHANGED <<mode, waiter, server, copiers, produced, output, input, down, up, cliside,
                   user>>

\* handleStart writes the error to the connection.
Report ==
    /\ main = "report" /\ main' = "return"
    /\ \/ client /\ down < Buf /\ down' = down + 1 /\ produced' = produced + 1
       \/ ~client /\ UNCHANGED <<down, produced>>
    /\ UNCHANGED <<mode, waiter, ptmx, server, copiers, proc, output, input, up, cliside, user>>

\* io.Copy(ptmx, conn) in handleExec has returned.
CopyDone ==
    /\ main = "copy" /\ inCopy = "done"
    /\ main' = "wait"
    /\ UNCHANGED <<mode, waiter, ptmx, server, copiers, command, output, input, down, up,
                   cliside, user>>

\* Wrong variant: handleExec does not wait for its output loop.
WaitWithoutJoin ==
    /\ main = "wait" /\ proc = "exited"
    /\ proc' = "reaped"
    /\ main' = "return"
    /\ UNCHANGED <<mode, waiter, ptmx, server, copiers, produced, output, input, down, up,
                   cliside, user>>

\* cmd.Wait reaps the command; then it waits for os/exec's own copy loops.
WaitCommand ==
    /\ main = "wait" /\ proc = "exited"
    /\ proc' = "reaped"
    /\ main' = CASE mode = "execTty" -> "join"
                 [] mode = "startTty" -> "close"
                 [] OTHER -> "copiers"
    /\ UNCHANGED <<mode, waiter, ptmx, server, copiers, produced, output, input, down, up,
                   cliside, user>>
CopiersDone ==
    /\ main = "copiers" /\ inCopy = "done" /\ outCopy = "done"
    /\ main' = "record"
    /\ UNCHANGED <<mode, waiter, ptmx, server, copiers, command, output, input, down, up,
                   cliside, user>>

\* ptmx.Close in Start, before it waits for the output loop.
ClosePtmx ==
    /\ main = "close" /\ main' = "join"
    /\ ptmx' = FALSE
    /\ UNCHANGED <<mode, waiter, server, copiers, command, output, input, down, up, cliside,
                   user>>

\* <-done in handleExec, <-ttyDone in Start.
Join ==
    /\ main = "join" /\ outCopy = "done"
    /\ main' = IF Exec THEN "return" ELSE "record"
    /\ UNCHANGED <<mode, waiter, ptmx, server, copiers, command, output, input, down, up,
                   cliside, user>>

\* Start writes "stopped" and cleans up (module Lifecycle).
Record ==
    /\ main = "record" /\ main' = "return"
    /\ UNCHANGED <<mode, waiter, ptmx, server, copiers, command, output, input, down, up,
                   cliside, user>>

\* Wrong variant: the connection is left open.
ReturnOpen ==
    /\ main = "return" /\ main' = "returned"
    /\ ptmx' = FALSE
    /\ UNCHANGED <<mode, waiter, server, copiers, command, output, input, down, up, cliside,
                   user>>

\* The handler returns: its deferred ptmx.Close, and the deferred conn.Close of
\* handleConnection.
Return ==
    /\ main = "return" /\ main' = "returned"
    /\ ptmx' = FALSE /\ server' = FALSE
    /\ UNCHANGED <<mode, waiter, copiers, command, output, input, down, up, cliside, user>>

\* The goroutine of handleExec: cmd.Wait, then conn.Close.
WaiterReaps ==
    /\ waiter = "wait" /\ proc = "exited"
    /\ waiter' = "copiers" /\ proc' = "reaped"
    /\ UNCHANGED <<mode, main, ptmx, server, copiers, produced, output, input, down, up,
                   cliside, user>>
WaiterEnds ==
    /\ waiter = "copiers" /\ inCopy = "done" /\ outCopy = "done"
    /\ waiter' = "done" /\ server' = FALSE
    /\ UNCHANGED <<mode, main, ptmx, copiers, command, output, input, down, up, cliside, user>>

-----------------------------------------------------------------------------
\* The terminal or pipe the loops of a session use is gone.
Closed == Tty /\ ~ptmx

OutRead ==
    /\ outCopy = "read"
    /\ \/ /\ output > 0 /\ ~Closed
          /\ output' = output - 1 /\ outCopy' = "write"
       \/ /\ Closed \/ (output = 0 /\ proc # "running")
          /\ outCopy' = "done" /\ UNCHANGED output
    /\ UNCHANGED <<mode, daemon, inCopy, command, input, down, up, cliside, user>>

OutWrite ==
    /\ outCopy = "write"
    /\ \/ /\ server /\ client /\ down < Buf
          /\ down' = down + 1 /\ outCopy' = "read"
       \/ ~(server /\ client) /\ outCopy' = "done" /\ UNCHANGED down
    /\ UNCHANGED <<mode, daemon, inCopy, command, output, input, up, cliside, user>>

InRead ==
    /\ inCopy = "read"
    /\ \/ /\ server /\ up > 0
          /\ up' = up - 1 /\ inCopy' = "write"
       \/ /\ ~server \/ (~client /\ up = 0)
          /\ inCopy' = "done" /\ UNCHANGED up
    /\ UNCHANGED <<mode, daemon, outCopy, command, output, input, down, cliside, user>>

\* A write to a terminal or pipe nobody has open any more fails.
InWrite ==
    /\ inCopy = "write"
    /\ \/ /\ proc = "running" /\ ~Closed /\ input < Buf
          /\ input' = input + 1 /\ inCopy' = "read"
       \/ /\ proc # "running" \/ Closed
          /\ inCopy' = "done" /\ UNCHANGED input
    /\ UNCHANGED <<mode, daemon, outCopy, command, output, down, up, cliside, user>>

\* The command writes, reads and ends as it likes.
CommandWrites ==
    /\ proc = "running" /\ produced < MaxOut /\ output < Buf
    /\ produced' = produced + 1 /\ output' = output + 1
    /\ UNCHANGED <<mode, daemon, copiers, proc, input, down, up, cliside, user>>
CommandReads ==
    /\ proc = "running" /\ input > 0
    /\ input' = input - 1
    /\ UNCHANGED <<mode, daemon, copiers, command, output, down, up, cliside, user>>
CommandExits ==
    /\ proc = "running" /\ proc' = "exited"
    /\ UNCHANGED <<mode, daemon, copiers, produced, output, input, down, up, cliside, user>>

-----------------------------------------------------------------------------
\* io.Copy(os.Stdout, conn)
Show ==
    /\ show = "read"
    /\ \/ down > 0 /\ down' = down - 1 /\ shown' = shown + 1 /\ UNCHANGED show
       \/ down = 0 /\ ~server /\ show' = "done" /\ UNCHANGED <<down, shown>>
    /\ UNCHANGED <<mode, daemon, copiers, command, output, input, up, client, cli, read, user>>

\* io.Copy(conn, os.Stdin) in exec reads what there is, and stops at the end.
ReadStdin ==
    /\ read = "read" /\ Exec
    /\ \/ unread > 0 /\ unread' = unread - 1 /\ read' = "write"
       \/ unread = 0 /\ eof /\ read' = "done" /\ UNCHANGED unread
    /\ UNCHANGED <<mode, daemon, copiers, command, output, input, down, up, client, cli, show,
                   shown, typed, stdin, eof>>

\* Wrong variant: the loop does not look at the done channel.
CheckNothing ==
    /\ read = "read" /\ ~Exec
    /\ read' = "poll"
    /\ UNCHANGED <<mode, daemon, copiers, command, output, input, down, up, client, cli, show,
                   shown, user>>

\* CopyInputUntilClosed begins each round with a look at the done channel, ...
CheckDone ==
    /\ read = "read" /\ ~Exec
    /\ read' = IF show = "done" THEN "done" ELSE "poll"
    /\ UNCHANGED <<mode, daemon, copiers, command, output, input, down, up, client, cli, show,
                   shown, user>>

\* ... polls, and ends at a hang-up or reads what there is.  It goes round when it got
\* nothing: after 200 ms, on a signal and, without any pause, at the end of a file, where
\* a read of nothing is no error.
PollStdin ==
    /\ read = "poll" /\ ~Exec
    /\ \/ eof /\ stdin = "hangup" /\ read' = "done" /\ UNCHANGED unread
       \/ /\ ~(eof /\ stdin = "hangup") /\ unread > 0
          /\ unread' = unread - 1 /\ read' = "write"
       \/ read' = "read" /\ UNCHANGED unread
    /\ UNCHANGED <<mode, daemon, copiers, command, output, input, down, up, client, cli, show,
                   shown, typed, stdin, eof>>

\* Wrong variant: a chunk that cannot be sent is kept and tried again.
SendAgain ==
    /\ read = "write"
    /\ \/ server /\ client /\ up < Buf /\ up' = up + 1 /\ UNCHANGED unread
       \/ ~(server /\ client) /\ unread' = unread + 1 /\ UNCHANGED up
    /\ read' = "read"
    /\ UNCHANGED <<mode, daemon, copiers, command, output, input, down, client, cli, show,
                   shown, typed, stdin, eof>>

SendInput ==
    /\ read = "write"
    /\ \/ server /\ client /\ up < Buf /\ up' = up + 1 /\ read' = "read"
       \/ ~(server /\ client) /\ read' = "done" /\ UNCHANGED up
    /\ UNCHANGED <<mode, daemon, copiers, command, output, input, down, client, cli, show,
                   shown, user>>

\* exec's main thread is its input loop and then waits for the output; start's
\* waits for the output, closes the socket and waits for the input loop.
CliWaits ==
    /\ cli = "wait" /\ show = "done"
    /\ \/ Exec /\ read = "done" /\ cli' = "exited"
       \/ ~Exec /\ cli' = "join"
    /\ client' = FALSE
    /\ UNCHANGED <<mode, daemon, copiers, command, output, input, down, up, show, shown, read,
                   user>>
CliJoins ==
    /\ cli = "join" /\ read = "done"
    /\ cli' = "exited"
    /\ UNCHANGED <<mode, daemon, copiers, command, output, input, down, up, client, show,
                   shown, read, user>>

\* The user closes the window.
CliDies ==
    /\ cli \in {"wait", "join"} /\ cli' = "died"
    /\ client' = FALSE /\ show' = "done" /\ read' = "done"
    /\ UNCHANGED <<mode, daemon, copiers, command, output, input, down, up, shown, user>>

UserTypes ==
    /\ cli \in {"wait", "join"} /\ ~eof /\ typed < MaxIn
    /\ typed' = typed + 1 /\ unread' = unread + 1
    /\ UNCHANGED <<mode, daemon, copiers, command, output, input, down, up, cliside, stdin, eof>>
StdinEnds ==
    /\ ~eof /\ eof' = TRUE
    /\ UNCHANGED <<mode, daemon, copiers, command, output, input, down, up, cliside, typed,
                   unread, stdin>>

Handler ==
    \/ StartCommand \/ StartFails \/ SetupDone \/ SetupFails \/ Report \/ CopyDone \/ WaitCommand
    \/ CopiersDone \/ ClosePtmx \/ Join \/ Record \/ Return
Waiter == WaiterReaps \/ WaiterEnds
CopyOut == OutRead \/ OutWrite
CopyIn == InRead \/ InWrite
CopyStdin == ReadStdin \/ CheckDone \/ PollStdin \/ SendInput
Cli == CliWaits \/ CliJoins

Next ==
    \/ Handler \/ Waiter \/ CopyOut \/ CopyIn
    \/ CommandWrites \/ CommandReads \/ CommandExits
    \/ Show \/ CopyStdin \/ Cli \/ CliDies \/ UserTypes \/ StdinEnds

Spec == Init /\ [][Next]_vars

\* Every goroutine and thread that can go on does; the command and the user
\* owe nothing.
Fairness ==
    /\ WF_vars(Handler) /\ WF_vars(Waiter) /\ WF_vars(CopyOut) /\ WF_vars(CopyIn)
    /\ WF_vars(Show) /\ WF_vars(CopyStdin) /\ WF_vars(Cli)

FairSpec == Spec /\ Fairness

-----------------------------------------------------------------------------
\* In the sessions whose handler waits for its output loop, all a command wrote
\* is in the socket or on the user's screen when the daemon closes the
\* connection after the command's end (handlers.go 156-157, manager.go 482).
OutputDelivered ==
    mode \in {"execTty", "start"} /\ ~server /\ proc \in {"exited", "reaped"} /\ cli # "died"
        => shown + down = produced

\* No copy loop outlives its session: once the handler has returned and the
\* command is gone both loops end, whatever they were blocked on.
CopiersEnd ==
    (main = "returned" /\ proc # "running") ~>
        (outCopy \in {"off", "done"} /\ inCopy \in {"off", "done"})

\* A session ends with its command, without any help from the user.  Of an exec
\* without terminal, handleExec's goroutine gets through cmd.Wait, which also waits
\* for os/exec's input loop, and the CLI's output loop ends.  Of a start with a
\* terminal, the daemon finishes its handler (Start writes "stopped" on the way) and
\* the CLI exits: the done channel of CopyInputUntilClosed sees to that.
SessionEnds ==
    /\ (mode = "exec" /\ proc = "exited") ~> (waiter = "done" /\ show = "done")
    /\ (mode = "startTty" /\ proc = "exited") ~> (main = "returned" /\ cli \in {"exited", "died"})

-----------------------------------------------------------------------------
\* What each thread waits for, if it has not ended; the loop that polls standard input
\* goes round meanwhile.
HandlerWaits ==
    \/ main = "report" /\ client /\ down = Buf
    \/ main = "copy" /\ inCopy # "done"
    \/ main = "wait" /\ proc # "exited"
    \/ main = "copiers" /\ ~(inCopy = "done" /\ outCopy = "done")
    \/ main = "join" /\ outCopy # "done"
    \/ main = "returned"
WaiterWaits ==
    /\ waiter = "wait" => proc # "exited"
    /\ waiter = "copiers" => ~(inCopy = "done" /\ outCopy = "done")
CopyOutWaits ==
    /\ outCopy = "read" => ~Closed /\ output = 0 /\ proc = "running"
    /\ outCopy = "write" => server /\ client /\ down = Buf
CopyInWaits ==
    /\ inCopy = "read" => server /\ client /\ up = 0
    /\ inCopy = "write" => ~Closed /\ proc = "running" /\ input = Buf
ShowWaits == show = "read" => server /\ down = 0
StdinWaits ==
    /\ read \in {"read", "poll"} =>
           unread = 0 /\ IF Exec THEN ~eof ELSE show # "done" /\ ~(eof /\ stdin = "hangup")
    /\ read = "write" => server /\ client /\ up = Buf
CliIsWaiting ==
    /\ cli = "wait" => show # "done" \/ (Exec /\ read # "done")
    /\ cli = "join" => read # "done"

\* Nobody in the daemon and the CLI can go on.
Stuck ==
    /\ HandlerWaits /\ WaiterWaits /\ CopyOutWaits /\ CopyInWaits
    /\ ShowWaits /\ StdinWaits /\ CliIsWaiting

\* The daemon is done with the session, and so is the CLI, but for the main thread of
\* exec, which reads standard input.
Over ==
    /\ main = "returned" /\ waiter \in {"off", "done"} /\ show = "done"
    /\ outCopy \in {"off", "done"} /\ inCopy \in {"off", "done"}
    /\ Exec \/ cli \in {"exited", "died"}

\* The daemon waits for input, and the CLI for output: handleExec before it waits for the
\* command (handlers.go 155), cmd.Wait for the input loop of os/exec (manager.go 482).
AwaitsInput ==
    /\ inCopy = "read" /\ cli = "wait" /\ show = "read"
    /\ (mode = "execTty" /\ main = "copy") \/ (mode = "start" /\ main = "copiers")

\* The threads of a session never wait for one another in a circle: output is never held
\* up, and when the command has ended nobody waits before the session is over, but in the
\* two places where the daemon waits for input the user may never type.
NeverStuck ==
    Stuck => /\ outCopy # "write"
             /\ proc # "running" => Over \/ AwaitsInput

\* What the threads still have to do: steps of the handler, threads to end, and chunks,
\* which count the more the more steps are ahead of them.
Stages ==
    CASE main = "start" -> 9
      [] main \in {"setup", "copy"} -> 8
      [] main \in {"wait", "report"} -> 7
      [] main \in {"close", "copiers"} -> 6
      [] main = "join" -> 5
      [] main = "record" -> 4
      [] main = "return" -> 3
      [] OTHER -> 0
LoopWork(loop, inHand) ==
    CASE loop \in {"read", "poll"} -> 1 [] loop = "write" -> inHand [] OTHER -> 0
Work ==
    4 * Stages + (IF mode = "execTty" THEN 1 ELSE 0)
    + (CASE waiter = "wait" -> 2 [] waiter = "copiers" -> 1 [] OTHER -> 0)
    + 6 * output + LoopWork(outCopy, 6) + 3 * down + LoopWork(show, 0)
    + 7 * unread + LoopWork(read, 7) + 4 * up + LoopWork(inCopy, 4)
    + (CASE cli = "wait" -> 2 [] cli = "join" -> 1 [] OTHER -> 0)
    + (IF eof THEN 0 ELSE 1)

\* A round of CopyInputUntilClosed that brings nothing: the session is not over, and there
\* was nothing to read.
Polls ==
    /\ ~Exec /\ {read, read'} = {"read", "poll"}
    /\ UNCHANGED <<mode, daemon, copiers, command, output, input, down, up, client, cli, show,
                   shown, user>>

\* No thread goes round for ever but the loop that polls standard input, which does so at
\* full speed at the end of a regular file (tty/io.go 43): each step of the others leaves
\* less to do, failures and retries included, and only the command and the user make more.
WorkRunsOut ==
    [][Work' < Work \/ Polls \/ UserTypes \/ CommandWrites \/ CommandReads \/ CommandExits]_vars

-----------------------------------------------------------------------------
\* After the command of an attached start has ended Start gets to recording it
\* (manager.go 491).
ExitIsRecorded == proc = "exited" ~> main = "returned"
=============================================================================
