---------------------------- MODULE CommandStream ----------------------------
(***************************************************************************)
(* One command through an executor of internal/ssh/executor.go, with its   *)
(* output streamed to the debug log (internal/logging/logger.go).          *)
(*                                                                         *)
(* Four goroutines meet here: the caller, which waits for the command; one *)
(* pumpOutputStream per stream, which fills a buffer and calls the line    *)
(* handler; and, under a deadline, the context.  Outside are the command   *)
(* itself and, for SSH, the channel to the host.                           *)
(*                                                                         *)
(*   local  runCmdWithStream: cmd.Wait returns when the process is gone,   *)
(*          and closes the pipes the pumps are reading                     *)
(*   ssh    session.Wait returns when the channel is closed, which the     *)
(*          server does once no process holds the streams; received lines  *)
(*          stay readable                                                  *)
(*                                                                         *)
(* The specification is CommandSpec, so that a module can extend this one  *)
(* and the runner whose steps execute the commands.                        *)
(***************************************************************************)
EXTENDS Integers, Sequences

CONSTANTS L,                     \* most lines a command writes to one stream
          Cap                    \* lines a pipe or channel window holds

ASSUME LAssumption == L \in Nat
ASSUME CapAssumption == Cap \in Nat \ {0}

Streams == {"stdout", "stderr"}

VARIABLES cmd,                   \* the call, and how the command will behave
          child,                 \* the process: "idle", "running", "exited", "killed"
          exitCode,              \* its exit code
          written,               \* lines it has written, per stream
          unread,                \* lines no pump has taken yet, per stream
          link,                  \* the pipes or the channel
          status,                \* what Wait knows of the exit code
          buf,                   \* lines in stdoutBuf and stderrBuf
          pump,                  \* "read", "emit" or "done", per stream
          main,                  \* where the caller is
          expired, timedOut,     \* the context is done; the caller saw it first
          code, err,             \* what the call returns
          log                    \* the debug log of this command

commandVars == <<cmd, child, exitCode, written, unread, link, status, buf, pump,
                 main, expired, timedOut, code, err, log>>

(* bounded: ExecuteContext rather than Execute; attached: the executor     *)
(* takes a line handler; hangs: the command never exits by itself; daemon: *)
(* it leaves a process behind that holds the streams.                      *)
Commands == [local : BOOLEAN, bounded : BOOLEAN, attached : BOOLEAN,
             hangs : BOOLEAN, daemon : BOOLEAN, lines : [Streams -> 0..L]]

(* A log line: a line of a stream by number, 0 for "(empty)", or the exit  *)
(* code.                                                                   *)
Line(s, n) == <<s, n>>
Empty(s) == <<s, 0>>
ExitLine(c) == <<"exit_code", c>>

NoCode == -1                     \* what both exitCodeFrom... give without a status
TimeoutCode == 124

CommandInit ==
    /\ cmd \in Commands
    /\ child = "idle" /\ exitCode = 0
    /\ written = [s \in Streams |-> 0] /\ unread = written /\ buf = written
    /\ link = "open" /\ status = NoCode
    /\ pump = [s \in Streams |-> "read"]
    /\ main = "start"
    /\ expired = FALSE /\ timedOut = FALSE
    /\ code = NoCode /\ err = FALSE
    /\ log = <<>>

ChildDone == child \in {"exited", "killed"}
LinkUp == link \in {"open", "closing"}

-----------------------------------------------------------------------------
(* Outside the program. *)

ChildWrites(s) ==
    /\ child = "running" /\ LinkUp
    /\ written[s] < cmd.lines[s]
    /\ unread[s] < Cap
    /\ written' = [written EXCEPT ![s] = @ + 1]
    /\ unread' = [unread EXCEPT ![s] = @ + 1]
    /\ UNCHANGED <<cmd, child, exitCode, link, status, buf, pump, main, expired,
                   timedOut, code, err, log>>

ChildExits ==
    /\ child = "running" /\ LinkUp
    /\ ~cmd.hangs
    /\ written = cmd.lines
    /\ child' = "exited"
    /\ exitCode' \in {0, 1}
    /\ UNCHANGED <<cmd, written, unread, link, status, buf, pump, main, expired,
                   timedOut, code, err, log>>

(* Some of the lines not taken yet are lost, the last ones first. *)
LoseSomeUnread ==
    \E kept \in [Streams -> 0..Cap] :
        /\ \A s \in Streams : kept[s] <= unread[s]
        /\ unread' = kept

ExitStatus == IF child = "exited" THEN exitCode ELSE NoCode

(* The server closes the channel: after everything was sent, or in answer  *)
(* to session.Close.                                                       *)
RemoteCloses ==
    /\ ~cmd.local /\ child # "idle"
    /\ \/ link = "open" /\ child = "exited" /\ ~cmd.daemon /\ UNCHANGED unread
       \/ link = "closing" /\ LoseSomeUnread
    /\ link' = "closed"
    /\ status' = ExitStatus
    /\ UNCHANGED <<cmd, child, exitCode, written, buf, pump, main, expired,
                   timedOut, code, err, log>>

(* The connection is lost, and with it whatever was on its way. *)
TransportBreaks ==
    /\ ~cmd.local /\ child # "idle" /\ LinkUp
    /\ LoseSomeUnread
    /\ link' = "broken"
    /\ status' \in {NoCode, ExitStatus}
    /\ UNCHANGED <<cmd, child, exitCode, written, buf, pump, main, expired,
                   timedOut, code, err, log>>

DeadlineExpires ==
    /\ cmd.bounded /\ ~expired /\ main # "returned"
    /\ expired' = TRUE
    /\ UNCHANGED <<cmd, child, exitCode, written, unread, link, status, buf, pump,
                   main, timedOut, code, err, log>>

-----------------------------------------------------------------------------
(* The caller. *)

(* The session or the process is started; the pumps are. *)
Starts ==
    /\ main = "start"
    /\ main' = "wait"
    /\ child' = "running"
    /\ UNCHANGED <<cmd, exitCode, written, unread, link, status, buf, pump,
                   expired, timedOut, code, err, log>>

(* It cannot be: no session, no pipe, no process.  A local call reports    *)
(* that as an error only if the deadline has passed; Execute over SSH does *)
(* when no session was granted, but not when its Start fails.              *)
StartFails ==
    /\ main = "start"
    /\ main' = "finish"
    /\ \/ cmd.local /\ ~expired /\ code' = NoCode /\ err' = FALSE
       \/ cmd.local /\ expired /\ code' = TimeoutCode /\ err' = TRUE
       \/ ~cmd.local /\ code' = NoCode /\ err' \in {cmd.bounded, TRUE}
    /\ UNCHANGED <<cmd, child, exitCode, written, unread, link, status, buf, pump,
                   expired, timedOut, log>>

(* exec.CommandContext kills the process when the context is done. *)
KillLocal ==
    /\ cmd.local /\ cmd.bounded /\ expired
    /\ main = "wait" /\ child = "running"
    /\ child' = "killed"
    /\ UNCHANGED <<cmd, exitCode, written, unread, link, status, buf, pump, main,
                   expired, timedOut, code, err, log>>

(* cmd.Wait: the process is gone and the read ends of the pipes are closed;*)
(* only lines a pump had already pulled into its bufio.Reader are kept.    *)
WaitReturnsLocal ==
    /\ cmd.local /\ main = "wait" /\ ChildDone
    /\ link' = "cut"
    /\ LoseSomeUnread
    /\ status' = ExitStatus
    /\ main' = "join"
    /\ UNCHANGED <<cmd, child, exitCode, written, buf, pump, expired, timedOut,
                   code, err, log>>

WaitReturnsSSH ==
    /\ ~cmd.local /\ main \in {"wait", "drain"}
    /\ ~LinkUp
    /\ main' = "join"
    /\ UNCHANGED <<cmd, child, exitCode, written, unread, link, status, buf, pump,
                   expired, timedOut, code, err, log>>

OnTimeoutWithoutClose ==                 \* mutant: SIGKILL only, which servers may ignore
    /\ ~cmd.local /\ cmd.bounded /\ expired /\ main = "wait"
    /\ timedOut' = TRUE
    /\ main' = "drain"
    /\ UNCHANGED <<cmd, child, exitCode, written, unread, link, status, buf, pump,
                   expired, code, err, log>>

(* The select takes ctx.Done: SIGKILL, Close, and then still <-ch.  Whether *)
(* the server delivers the signal makes no difference.                     *)
OnTimeout ==
    /\ ~cmd.local /\ cmd.bounded /\ expired /\ main = "wait"
    /\ timedOut' = TRUE
    /\ link' = IF link = "open" THEN "closing" ELSE link
    /\ main' = "drain"
    /\ UNCHANGED <<cmd, child, exitCode, written, unread, status, buf, pump,
                   expired, code, err, log>>

DeadlineSeen == IF cmd.local THEN expired ELSE timedOut

JoinTrustingWait ==                      \* mutant: a Wait error counts as exit code 0
    /\ main = "join"
    /\ \A s \in Streams : pump[s] = "done"
    /\ code' = IF DeadlineSeen THEN TimeoutCode ELSE IF status = NoCode THEN 0 ELSE status
    /\ err' = DeadlineSeen
    /\ main' = "finish"
    /\ UNCHANGED <<cmd, child, exitCode, written, unread, link, status, buf, pump,
                   expired, timedOut, log>>

(* wg.Wait, then the exit code.  Only ExecuteContext returns an error: the *)
(* deadline, or over SSH an end without exit status.                       *)
Join ==
    /\ main = "join"
    /\ \A s \in Streams : pump[s] = "done"
    /\ code' = IF DeadlineSeen THEN TimeoutCode ELSE status
    /\ err' = (DeadlineSeen \/ (~cmd.local /\ cmd.bounded /\ status = NoCode))
    /\ main' = "finish"
    /\ UNCHANGED <<cmd, child, exitCode, written, unread, link, status, buf, pump,
                   expired, timedOut, log>>

(* LogCommandResult writes a whole stream, CommandStream.End only a note   *)
(* that it had no line.                                                    *)
Lines(s) == IF buf[s] = 0 THEN <<Empty(s)>> ELSE [n \in 1..buf[s] |-> Line(s, n)]

SawLine(s) == \E k \in DOMAIN log : log[k][1] = s

Note(s) == IF SawLine(s) THEN <<>> ELSE <<Empty(s)>>

(* The function BindCommandDebugStream returned: the handler is cleared    *)
(* and the command's account in the log is closed.                         *)
Finish ==
    /\ main = "finish"
    /\ log' = log \o <<ExitLine(code)>>
              \o (IF cmd.attached THEN Note("stdout") \o Note("stderr")
                                  ELSE Lines("stdout") \o Lines("stderr"))
    /\ main' = "returned"
    /\ UNCHANGED <<cmd, child, exitCode, written, unread, link, status, buf, pump,
                   expired, timedOut, code, err>>

-----------------------------------------------------------------------------
(* pumpOutputStream: a line is buffered, then handed to the handler. *)

PumpReadOneByOne(s) ==                   \* mutant: stderr is read after stdout
    /\ child # "idle" /\ pump[s] = "read" /\ unread[s] > 0
    /\ s = "stderr" => pump["stdout"] = "done"
    /\ unread' = [unread EXCEPT ![s] = @ - 1]
    /\ buf' = [buf EXCEPT ![s] = @ + 1]
    /\ pump' = [pump EXCEPT ![s] = IF cmd.attached THEN "emit" ELSE "read"]
    /\ UNCHANGED <<cmd, child, exitCode, written, link, status, main, expired,
                   timedOut, code, err, log>>

PumpReadUnbuffered(s) ==                 \* mutant: a handled line is not buffered
    /\ child # "idle" /\ pump[s] = "read" /\ unread[s] > 0
    /\ unread' = [unread EXCEPT ![s] = @ - 1]
    /\ buf' = IF cmd.attached THEN buf ELSE [buf EXCEPT ![s] = @ + 1]
    /\ pump' = [pump EXCEPT ![s] = IF cmd.attached THEN "emit" ELSE "read"]
    /\ UNCHANGED <<cmd, child, exitCode, written, link, status, main, expired,
                   timedOut, code, err, log>>

PumpRead(s) ==
    /\ child # "idle" /\ pump[s] = "read" /\ unread[s] > 0
    /\ unread' = [unread EXCEPT ![s] = @ - 1]
    /\ buf' = [buf EXCEPT ![s] = @ + 1]
    /\ pump' = [pump EXCEPT ![s] = IF cmd.attached THEN "emit" ELSE "read"]
    /\ UNCHANGED <<cmd, child, exitCode, written, link, status, main, expired,
                   timedOut, code, err, log>>

(* CommandStream.OnLine *)
PumpEmit(s) ==
    /\ pump[s] = "emit"
    /\ log' = Append(log, Line(s, buf[s]))
    /\ pump' = [pump EXCEPT ![s] = "read"]
    /\ UNCHANGED <<cmd, child, exitCode, written, unread, link, status, buf, main,
                   expired, timedOut, code, err>>

(* End of file, or the pipe was closed under the reader. *)
PumpEnds(s) ==
    /\ child # "idle" /\ pump[s] = "read" /\ unread[s] = 0
    /\ ~LinkUp \/ (ChildDone /\ ~cmd.daemon)
    /\ pump' = [pump EXCEPT ![s] = "done"]
    /\ UNCHANGED <<cmd, child, exitCode, written, unread, link, status, buf, main,
                   expired, timedOut, code, err, log>>

Outside == \/ \E s \in Streams : ChildWrites(s)
           \/ ChildExits \/ RemoteCloses \/ TransportBreaks \/ DeadlineExpires

Caller == \/ Starts \/ StartFails \/ WaitReturnsLocal \/ WaitReturnsSSH
          \/ OnTimeout \/ Join \/ Finish

Pump(s) == PumpRead(s) \/ PumpEmit(s) \/ PumpEnds(s)

CommandNext == Outside \/ Caller \/ KillLocal \/ \E s \in Streams : Pump(s)

CommandSpec == CommandInit /\ [][CommandNext]_commandVars

(* Runnable goroutines are scheduled, a command that does not hang makes   *)
(* progress, and a server answers a close.  A lost connection and an       *)
(* expiring deadline need not happen.                                      *)
CommandFairness ==
    /\ WF_commandVars(Caller) /\ WF_commandVars(KillLocal)
    /\ \A s \in Streams : WF_commandVars(Pump(s)) /\ WF_commandVars(ChildWrites(s))
    /\ WF_commandVars(ChildExits) /\ WF_commandVars(RemoteCloses)

FairCommandSpec == CommandSpec /\ CommandFairness

-----------------------------------------------------------------------------
(* Types of the state; no stream ever holds more than was written to it.   *)
CommandTypeOK ==
    /\ cmd \in Commands
    /\ child \in {"idle", "running", "exited", "killed"} /\ exitCode \in {0, 1}
    /\ written \in [Streams -> 0..L] /\ buf \in [Streams -> 0..L]
    /\ unread \in [Streams -> 0..Cap]
    /\ \A s \in Streams : buf[s] + unread[s] <= written[s]
    /\ link \in {"open", "closing", "closed", "broken", "cut"}
    /\ status \in {NoCode, 0, 1}
    /\ pump \in [Streams -> {"read", "emit", "done"}]
    /\ main \in {"start", "wait", "drain", "join", "finish", "returned"}
    /\ expired \in BOOLEAN /\ timedOut \in BOOLEAN
    /\ code \in {NoCode, 0, 1, TimeoutCode} /\ err \in BOOLEAN
    /\ \A k \in DOMAIN log :
          log[k] \in (Streams \X (0..L)) \cup {ExitLine(c) : c \in {NoCode, 0, 1, TimeoutCode}}

(* A command whose SSH channel was closed in order gives the caller every  *)
(* line it wrote.                                                          *)
RemoteOutputComplete ==
    main = "returned" /\ link = "closed" /\ code \in {0, 1} => buf = cmd.lines

(* Exit codes 0 and 1 are the command's own, and a command that was        *)
(* stopped, or whose end was not seen, never has one.                      *)
ExitCodeTruthful ==
    main = "returned" /\ code \in {0, 1} => child = "exited" /\ code = exitCode

(* A command that ends by itself lets the call return, however much it     *)
(* writes to either stream; over SSH it must also leave nobody behind who  *)
(* holds the streams.                                                      *)
CommandReturns ==
    ~cmd.hangs /\ (cmd.local \/ ~cmd.daemon) ~> main = "returned"

(* ExecuteContext returns once its deadline has passed, although the       *)
(* command hangs or a process it left behind keeps the streams open.       *)
DeadlineReturns == cmd.bounded /\ expired ~> main = "returned"
=============================================================================
