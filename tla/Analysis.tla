------------------------------ MODULE Analysis ------------------------------
(***************************************************************************)
(* One analysis in the guest (malbox-agent): the task that the Analyze RPC *)
(* spawns (agent.rs) and that executes run_analysis (analysis.rs), the     *)
(* command pipe thread (pipes/command.rs), the log reader thread of the    *)
(* sample (pipes/logserver.rs) and the sample with the monitor in it.      *)
(*                                                                         *)
(* mpc is where run_analysis stands, cpc the command pipe thread:          *)
(*   check     at the while, about to load do_run                          *)
(*   create    do_run was true, about to create a pipe instance            *)
(*   connect   in pipe.connect(), which blocks until there is a client     *)
(*   recheck   connected, about to load do_run again                       *)
(*   exited    the thread has returned                                     *)
(* and rpc the log reader: connect, header, read, ended.                   *)
(***************************************************************************)
EXTENDS Integers

CONSTANTS
  AgentFaults,  \* what may fail in the guest
  ExitCodes,    \* codes the sample may exit with
  MaxCalls,     \* bound: API calls the monitor logs
  MaxCommands   \* bound: connections the monitored processes make to the
                \* command pipe

AgentFaultKinds == {
  "setup",      \* MonitorBinaries::setup cannot write its files
  "execute",    \* a winmgmt command or CreateProcessW fails
  "logpipe",    \* the log pipe cannot be created
  "inject",     \* the loader fails, or the thread cannot be resumed
  "cmdpipe",    \* an instance of the command pipe cannot be created
  "header",     \* the monitor's log header holds no pid
  "frame",      \* a log frame is cut off or malformed
  "close",      \* CloseHandle fails
  "open",       \* OpenProcess fails for a process that is there
  "access",     \* it grants no more than PROCESS_QUERY_LIMITED_INFORMATION
  "pidreuse",   \* the pid of an exited process names another process
  "terminate",  \* TerminateProcess fails
  "tamper",     \* the sample removes, renames or replaces its own file
  "pe"          \* it leaves a file in its place that ends inside the magic of
                \* the optional header, where detect_pe_type panics (Report)
}

ASSUME AnalysisAssumption ==
  /\ AgentFaults \subseteq AgentFaultKinds
  /\ ExitCodes \subseteq Nat
  /\ MaxCalls \in Nat /\ MaxCommands \in Nat

STILL_ACTIVE == 259     \* what GetExitCodeProcess says of a running process
Killed       == 1       \* the code TerminateProcess is given
Unknown      == -1      \* exit_code().unwrap_or(-1)

VARIABLES
  mpc, cpc, rpc,
  do_run,       \* the flag the command pipe thread looks at
  pipe,         \* the thread's pipe instance: none, free, taken by a client
                \* that is there, or left by one that has closed again
  missedAt,     \* cpc when nudge_server found no free instance, else "no"
  commands,     \* connections made so far
  tracked,      \* the collector knows the sample's pid
  joinable,     \* logserver_tasks holds the reader's handle
  logpipe,      \* none, free, open, closed by the monitor
  header,       \* the pid in the log header: none, good, bad
  written,      \* calls written to the log pipe
  read,         \* calls read from it
  collected,    \* calls in the collector
  broken,       \* the reader gave up early
  sample,       \* none, suspended, running, exited
  code,         \* the sample's exit code
  handle,       \* sample_process.h_process: none, open, limited, null, or
                \* of another process
  otherCode,    \* what was last read of that other process
  seen,         \* a round of the poll loop has found the sample alive
  file,         \* at sample_path: none, the sample, or tampered with
  installed,    \* the monitor's files are in work_dir
  kill,         \* what the timeout did: no (there was none), done, failed,
                \* moot (the sample was gone), other (it hit another process)
  drained,      \* how drain_logservers ended: no, joined, timeout
  outcome,      \* of the RPC: none, features, empty, panic
  exit,         \* the exit code reported
  reported      \* the calls reported

threads  == <<mpc, cpc, rpc>>
command  == <<do_run, pipe, missedAt, commands>>
logs     == <<tracked, joinable, logpipe, header, written, read, collected, broken>>
files    == <<file, installed>>
opened   == <<handle, otherCode>>
process  == <<sample, code, opened, seen, kill, files>>
answer   == <<drained, outcome, exit, reported>>
avars    == <<threads, command, logs, process, answer>>

AStart ==
  /\ mpc = "init" /\ cpc = "none" /\ rpc = "none"
  /\ do_run = TRUE /\ pipe = "none" /\ missedAt = "no" /\ commands = 0
  /\ tracked = FALSE /\ joinable = FALSE /\ logpipe = "none" /\ header = "none"
  /\ written = 0 /\ read = 0 /\ collected = 0 /\ broken = FALSE
  /\ sample = "none" /\ code = STILL_ACTIVE /\ handle = "none"
  /\ otherCode = STILL_ACTIVE /\ seen = FALSE /\ kill = "no"
  /\ drained = "no" /\ outcome = "none" /\ exit = Unknown /\ reported = 0
  /\ installed = FALSE

\* An analysis of a sample that was uploaded under the name it is asked for.
AInit == AStart /\ file = "sample"

-----------------------------------------------------------------------------
(***************************************************************************)
(* run_analysis, up to the poll loop.  Err becomes an empty result that is *)
(* sent as Done; a panic ends the stream without one.                      *)
(***************************************************************************)
MainTo(p) == mpc' = p /\ UNCHANGED <<cpc, rpc>>

GiveUp(o) ==
  /\ MainTo("over")
  /\ outcome' = o
  /\ exit' = IF o = "empty" THEN 1 ELSE exit
  /\ UNCHANGED <<command, logs, process, drained, reported>>

Setup ==
  /\ mpc = "init"
  /\ \/ /\ mpc' = "execute" /\ cpc' = "check" /\ installed' = TRUE
        /\ UNCHANGED <<rpc, command, logs, sample, code, opened, seen, kill, file, answer>>
     \/ "setup" \in AgentFaults /\ GiveUp("empty")

\* execute() fails at once without the file; its Err is unwrapped.
Execute ==
  /\ mpc = "execute"
  /\ \/ /\ file = "sample"
        /\ sample' = "suspended" /\ handle' = "open"
        /\ MainTo("register")
        /\ UNCHANGED <<code, otherCode, seen, kill, files, command, logs, answer>>
     \/ file = "none" /\ GiveUp("panic")
     \/ "execute" \in AgentFaults /\ GiveUp("panic")

register_process ==
  /\ mpc = "register"
  /\ tracked' = TRUE
  /\ MainTo("reader")
  /\ UNCHANGED <<joinable, logpipe, header, written, read, collected, broken>>
  /\ UNCHANGED <<command, process, answer>>

\* Mutant: the reader's handle is not kept.
spawn_reader_detached ==
  /\ mpc = "reader"
  /\ logpipe' = "free" /\ rpc' = "connect"
  /\ mpc' = "inject" /\ UNCHANGED cpc
  /\ UNCHANGED <<tracked, joinable, header, written, read, collected, broken>>
  /\ UNCHANGED <<command, process, answer>>

spawn_reader ==
  /\ mpc = "reader"
  /\ \/ /\ logpipe' = "free" /\ rpc' = "connect" /\ joinable' = TRUE
        /\ mpc' = "inject" /\ UNCHANGED cpc
        /\ UNCHANGED <<tracked, header, written, read, collected, broken>>
        /\ UNCHANGED <<command, process, answer>>
     \/ "logpipe" \in AgentFaults /\ GiveUp("empty")

\* inject() and then resume(); the sample runs from here on.
InjectAndResume ==
  /\ mpc = "inject"
  /\ \/ /\ sample' = "running"
        /\ MainTo("close")
        /\ UNCHANGED <<code, opened, seen, kill, files, command, logs, answer>>
     \/ "inject" \in AgentFaults /\ GiveUp("panic")

\* Mutant: the monitor's files are removed once the sample has been started.
CloseCleaning ==
  /\ mpc = "close"
  /\ handle' = "none" /\ installed' = FALSE
  /\ MainTo("poll")
  /\ UNCHANGED <<sample, code, otherCode, seen, kill, file, command, logs, answer>>

\* Mutant: the error of close() is returned with `?` instead of unwrapped.
CloseReturning ==
  /\ mpc = "close"
  /\ handle' = "none"
  /\ \/ MainTo("poll") /\ UNCHANGED <<outcome, exit>>
     \/ "close" \in AgentFaults /\ MainTo("over") /\ outcome' = "empty" /\ exit' = 1
  /\ UNCHANGED <<sample, code, otherCode, seen, kill, files, command, logs>>
  /\ UNCHANGED <<drained, reported>>

\* close() takes the handle before it closes it, and its Err is unwrapped.
Close ==
  /\ mpc = "close"
  /\ handle' = "none"
  /\ \/ MainTo("poll") /\ UNCHANGED outcome
     \/ "close" \in AgentFaults /\ MainTo("over") /\ outcome' = "panic"
  /\ UNCHANGED <<sample, code, otherCode, seen, kill, files, command, logs>>
  /\ UNCHANGED <<drained, exit, reported>>

(***************************************************************************)
(* Process::exit_code opens the process by its pid when there is no        *)
(* handle.  An exited process may or may not be there to be opened.  A     *)
(* null handle is kept: open() only looks for None.                        *)
(***************************************************************************)
Own == {"open", "limited"}

Opened ==
  IF handle # "none" THEN {handle}
  ELSE {"open"} \cup {h \in {"limited"} : "access" \in AgentFaults}
                \cup {h \in {"null"} : sample = "exited" \/ "open" \in AgentFaults}
                \cup {h \in {"other"} : sample = "exited" /\ "pidreuse" \in AgentFaults}

\* Mutant: a failed GetExitCodeProcess leaves the initial 0.
exit_code_unchecked(h) ==
  CASE h \in Own -> {IF sample = "exited" THEN code ELSE STILL_ACTIVE}
    [] h = "other" -> IF otherCode = STILL_ACTIVE THEN {STILL_ACTIVE} \cup ExitCodes ELSE {otherCode}
    [] OTHER -> {0}

\* What GetExitCodeProcess may answer for handle h.  Another process may have
\* exited since it was last asked.
exit_code(h) ==
  CASE h \in Own -> {IF sample = "exited" THEN code ELSE STILL_ACTIVE}
    [] h = "other" -> IF otherCode = STILL_ACTIVE THEN {STILL_ACTIVE} \cup ExitCodes ELSE {otherCode}
    [] OTHER -> {Unknown}

is_alive(c) == c = STILL_ACTIVE

\* exit_code() answers c for handle h.
Asks(h, c) ==
  /\ h \in Opened /\ c \in exit_code(h)
  /\ handle' = h
  /\ otherCode' = IF h = "other" THEN c ELSE otherCode

\* One round of the poll loop that finds the sample gone.
PollExited ==
  /\ mpc = "poll"
  /\ \E h \in Opened : \E c \in exit_code(h) : ~is_alive(c) /\ Asks(h, c)
  /\ MainTo("drain")
  /\ UNCHANGED <<sample, code, seen, kill, files, command, logs, answer>>

PollAlive ==
  /\ mpc = "poll"
  /\ \E h \in Opened : \E c \in exit_code(h) :
       is_alive(c) /\ Asks(h, c) /\ seen' = (seen \/ h \in Own)
  /\ UNCHANGED <<threads, sample, code, kill, files, command, logs, answer>>

\* Mutant: on timeout the handles are only closed.
PollTimeoutClosing ==
  /\ mpc = "poll"
  /\ \E h \in Opened : \E c \in exit_code(h) : is_alive(c) /\ seen' = (seen \/ h \in Own)
  /\ handle' = "none" /\ otherCode' = STILL_ACTIVE
  /\ MainTo("drain")
  /\ UNCHANGED <<sample, code, kill, files, command, logs, answer>>

\* A round that finds it alive after timeout_secs: terminate_and_close, whose
\* TerminateProcess is not checked.  The sample may exit just before it.
PollTimeout ==
  /\ mpc = "poll"
  /\ \E h \in Opened : \E c \in exit_code(h) :
       /\ is_alive(c)
       /\ seen' = (seen \/ h \in Own)
       /\ \/ h = "other" /\ kill' = "other" /\ UNCHANGED <<sample, code>>
          \/ h \in Own /\ sample = "exited" /\ kill' = "moot" /\ UNCHANGED <<sample, code>>
          \/ /\ h = "open" /\ sample # "exited"
             /\ sample' = "exited" /\ code' \in {Killed} \cup ExitCodes /\ kill' = "done"
          \/ /\ h \in Own /\ sample # "exited" /\ (h = "limited" \/ "terminate" \in AgentFaults)
             /\ kill' = "failed" /\ UNCHANGED <<sample, code>>
  /\ handle' = "none" /\ otherCode' = STILL_ACTIVE
  /\ MainTo("drain")
  /\ UNCHANGED <<files, command, logs, answer>>

(***************************************************************************)
(* The shutdown sequence.                                                  *)
(***************************************************************************)
\* Mutant: no timeout.
drain_logservers_forever ==
  /\ mpc = "drain"
  /\ joinable => rpc = "ended"
  /\ drained' = "joined"
  /\ joinable' = FALSE
  /\ MainTo("stop")
  /\ UNCHANGED <<tracked, logpipe, header, written, read, collected, broken>>
  /\ UNCHANGED <<command, process, outcome, exit, reported>>

\* signal_shutdown, then join the reader or give up after three seconds.
drain_logservers ==
  /\ mpc = "drain"
  /\ \/ (joinable => rpc = "ended") /\ drained' = "joined"
     \/ joinable /\ rpc # "ended" /\ drained' = "timeout"
  /\ joinable' = FALSE
  /\ MainTo("stop")
  /\ UNCHANGED <<tracked, logpipe, header, written, read, collected, broken>>
  /\ UNCHANGED <<command, process, outcome, exit, reported>>

\* Mutant: the nudge is sent while do_run still holds.
StopForgotten ==
  /\ mpc = "stop"
  /\ MainTo("nudge")
  /\ UNCHANGED <<command, logs, process, answer>>

Stop ==
  /\ mpc = "stop"
  /\ do_run' = FALSE
  /\ MainTo("nudge")
  /\ UNCHANGED <<pipe, missedAt, commands, logs, process, answer>>

\* A client that connects and closes at once, if there is an instance.
nudge_server ==
  /\ mpc = "nudge"
  /\ \/ pipe = "free" /\ pipe' = "left" /\ UNCHANGED missedAt
     \/ pipe # "free" /\ missedAt' = cpc /\ UNCHANGED pipe
  /\ MainTo("join")
  /\ UNCHANGED <<do_run, commands, logs, process, answer>>

Join ==
  /\ mpc = "join"
  /\ cpc = "exited"
  /\ MainTo("report")
  /\ UNCHANGED <<command, logs, process, answer>>

\* build_target_file, which looks at the path as the sample has left it,
\* Report::build, exit_code and cleanup.
BuildReport ==
  /\ mpc = "report"
  /\ \/ /\ reported' = collected /\ outcome' = "features"
        /\ \E h \in Opened : \E c \in exit_code(h) : Asks(h, c) /\ exit' = c
        /\ installed' = FALSE
        /\ MainTo("over")
        /\ UNCHANGED <<drained, sample, code, seen, kill, file, command, logs>>
     \/ file = "tampered" /\ GiveUp("empty")
     \/ file = "tampered" /\ "pe" \in AgentFaults /\ GiveUp("panic")

Main == \/ Setup \/ Execute \/ register_process \/ spawn_reader \/ InjectAndResume
        \/ Close \/ PollExited \/ PollTimeout \/ drain_logservers \/ Stop
        \/ nudge_server \/ Join \/ BuildReport

-----------------------------------------------------------------------------
(***************************************************************************)
(* serve_command_pipe.  Handlers of established connections only echo, so  *)
(* they have no state here.                                                *)
(***************************************************************************)
CmdTo(p) == cpc' = p /\ UNCHANGED <<mpc, rpc>>

CheckRun ==
  /\ cpc \in {"check", "recheck"}
  /\ CmdTo(CASE ~do_run -> "exited"
               [] do_run /\ cpc = "check" -> "create"
               [] OTHER -> "check")
  /\ pipe' = "none"
  /\ UNCHANGED <<do_run, missedAt, commands, logs, process, answer>>

CreatePipe ==
  /\ cpc = "create"
  /\ \/ pipe' = "free" /\ CmdTo("connect")
     \/ "cmdpipe" \in AgentFaults /\ UNCHANGED pipe /\ CmdTo("exited")
  /\ UNCHANGED <<do_run, missedAt, commands, logs, process, answer>>

\* ConnectNamedPipe fails for an instance whose client came and went before
\* the call; `continue` then drops the instance and makes another one.
Connect ==
  /\ cpc = "connect"
  /\ pipe # "free"
  /\ \/ CmdTo("recheck") /\ UNCHANGED pipe
     \/ pipe = "left" /\ CmdTo("check") /\ pipe' = "none"
  /\ UNCHANGED <<do_run, missedAt, commands, logs, process, answer>>

CommandThread == CheckRun \/ CreatePipe \/ Connect

-----------------------------------------------------------------------------
(***************************************************************************)
(* read_loop.                                                              *)
(***************************************************************************)
ReaderTo(p) == rpc' = p /\ UNCHANGED <<mpc, cpc>>

\* connect() fails like the command pipe's when the monitor came and went.
ReaderConnect ==
  /\ rpc = "connect"
  /\ logpipe # "free"
  /\ \/ ReaderTo("header") /\ UNCHANGED broken
     \/ logpipe = "closed" /\ ReaderTo("ended") /\ broken' = TRUE
  /\ UNCHANGED <<tracked, joinable, logpipe, header, written, read, collected>>
  /\ UNCHANGED <<command, process, answer>>

read_header ==
  /\ rpc = "header"
  /\ \/ header # "none" /\ ReaderTo("read")
     \/ header = "none" /\ logpipe = "closed" /\ ReaderTo("ended")
  /\ UNCHANGED <<command, logs, process, answer>>

\* Mutant: the stream is not advanced past a frame, which is collected again.
ReadFrameAgain ==
  /\ rpc = "read"
  /\ read < written
  /\ read' = read
  /\ collected' = IF tracked /\ header = "good" THEN collected + 1 ELSE collected
  /\ UNCHANGED <<tracked, joinable, logpipe, header, written, broken>>
  /\ UNCHANGED <<threads, command, process, answer>>

\* A frame; push_call ignores calls of a pid the collector does not know.
ReadFrame ==
  /\ rpc = "read"
  /\ read < written
  /\ read' = read + 1
  /\ collected' = IF tracked /\ header = "good" THEN collected + 1 ELSE collected
  /\ UNCHANGED <<tracked, joinable, logpipe, header, written, broken>>
  /\ UNCHANGED <<threads, command, process, answer>>

EndOfLog ==
  /\ rpc = "read"
  /\ \/ read = written /\ logpipe = "closed" /\ UNCHANGED broken
     \/ "frame" \in AgentFaults /\ broken' = TRUE
  /\ ReaderTo("ended")
  /\ UNCHANGED <<tracked, joinable, logpipe, header, written, read, collected>>
  /\ UNCHANGED <<command, process, answer>>

LogReader == ReaderConnect \/ read_header \/ ReadFrame \/ EndOfLog

-----------------------------------------------------------------------------
(***************************************************************************)
(* The sample and the monitor in it (external).  Processes the sample has  *)
(* started may use the command pipe when the sample itself is gone.        *)
(***************************************************************************)
MonitorLogs ==
  /\ sample = "running"
  /\ rpc # "ended"
  /\ \/ logpipe = "free" /\ logpipe' = "open" /\ UNCHANGED <<header, written>>
     \/ /\ logpipe = "open" /\ header = "none"
        /\ header' \in {"good"} \cup (IF "header" \in AgentFaults THEN {"bad"} ELSE {})
        /\ UNCHANGED <<logpipe, written>>
     \/ /\ logpipe = "open" /\ header # "none" /\ written < MaxCalls
        /\ written' = written + 1
        /\ UNCHANGED <<logpipe, header>>
  /\ UNCHANGED <<tracked, joinable, read, collected, broken>>
  /\ UNCHANGED <<threads, command, process, answer>>

SampleExits ==
  /\ sample = "running"
  /\ sample' = "exited"
  /\ code' \in ExitCodes
  /\ UNCHANGED <<opened, seen, kill, files, threads, command, logs, answer>>

\* By the sample, or later by a process it has started: the file is gone, or
\* there is another one in its place.
FileTampered ==
  /\ "tamper" \in AgentFaults
  /\ sample \in {"running", "exited"}
  /\ file = "sample"
  /\ file' = "tampered"
  /\ UNCHANGED <<sample, code, opened, seen, kill, installed, threads, command, logs, answer>>

\* What the monitor has written stays readable after its end is closed.
LogPipeCloses ==
  /\ sample = "exited"
  /\ logpipe = "open"
  /\ logpipe' = "closed"
  /\ UNCHANGED <<tracked, joinable, header, written, read, collected, broken>>
  /\ UNCHANGED <<threads, command, process, answer>>

MonitorCommands ==
  /\ sample \in {"running", "exited"}
  /\ \/ /\ pipe = "free" /\ commands < MaxCommands
        /\ pipe' = "taken" /\ commands' = commands + 1
     \/ pipe = "taken" /\ pipe' = "left" /\ UNCHANGED commands
  /\ UNCHANGED <<do_run, missedAt, threads, logs, process, answer>>

Guest == MonitorLogs \/ SampleExits \/ FileTampered \/ LogPipeCloses \/ MonitorCommands

ANext == Main \/ PollAlive \/ CommandThread \/ LogReader \/ Guest

ASpec == AInit /\ [][ANext]_avars

(***************************************************************************)
(* The three threads run, and Windows closes the pipe of a process that is *)
(* gone.  The sample need not do anything.                                 *)
(***************************************************************************)
AFairSpec ==
  /\ ASpec
  /\ WF_avars(Main) /\ WF_avars(CommandThread) /\ WF_avars(LogReader)
  /\ WF_avars(LogPipeCloses)

-----------------------------------------------------------------------------
(***************************************************************************)
(* What the analysis promises.                                             *)
(***************************************************************************)

\* The state of an analysis; the reader never runs ahead of the monitor and
\* the collector never holds a call that was not read (push_call is the only
\* writer of ProcInfo.calls).
ATypeOK ==
  /\ mpc \in {"init", "execute", "register", "reader", "inject", "close", "poll",
             "drain", "stop", "nudge", "join", "report", "over"}
  /\ cpc \in {"none", "check", "create", "connect", "recheck", "exited"}
  /\ rpc \in {"none", "connect", "header", "read", "ended"}
  /\ do_run \in BOOLEAN /\ tracked \in BOOLEAN /\ joinable \in BOOLEAN
  /\ broken \in BOOLEAN /\ seen \in BOOLEAN /\ installed \in BOOLEAN
  /\ pipe \in {"none", "free", "taken", "left"}
  /\ missedAt \in {"no", "check", "create", "connect", "recheck", "exited"}
  /\ commands \in 0..MaxCommands
  /\ logpipe \in {"none", "free", "open", "closed"}
  /\ header \in {"none", "good", "bad"}
  /\ written \in 0..MaxCalls /\ read \in 0..written
  /\ collected \in 0..read /\ reported \in 0..collected
  /\ sample \in {"none", "suspended", "running", "exited"}
  /\ code \in ExitCodes \cup {STILL_ACTIVE, Killed}
  /\ handle \in {"none", "open", "limited", "null", "other"}
  /\ otherCode \in ExitCodes \cup {STILL_ACTIVE}
  /\ file \in {"none", "sample", "tampered"}
  /\ kill \in {"no", "done", "failed", "moot", "other"}
  /\ drained \in {"no", "joined", "timeout"}
  /\ outcome \in {"none", "features", "empty", "panic"}
  /\ exit \in ExitCodes \cup {STILL_ACTIVE, Killed, Unknown, 1}

\* When drain_logservers could join the reader and the log was well formed,
\* the report holds every call the monitor has written: none is still in the
\* pipe and none is refused by push_call, because the pid is registered and
\* the reader is waiting before the sample runs.
ReportComplete ==
  (outcome = "features" /\ drained = "joined" /\ ~broken /\ header # "bad")
    => reported = written

\* OpenProcess failed in the first round of the poll loop, which took that for
\* the end of the sample; the null handle is never opened again.
NeverOpened == handle = "null" /\ ~seen

\* The exit code in the result is the sample's own whenever a round of the poll
\* loop found the sample alive and it ended by itself.  It is -1 or that of
\* another process only when the sample was gone before the first round or
\* could not be opened in it, or when the timeout ended the analysis and the pid
\* was opened once more; "still active" is reported of the sample itself only
\* when TerminateProcess failed.
ExitCodeTrue ==
  outcome = "features" =>
    \/ sample = "exited" /\ exit = code
    \/ (~seen \/ kill # "no") /\ (exit = Unknown \/ handle = "other")
    \/ exit = STILL_ACTIVE /\ kill = "failed"

\* Once the poll loop is left the sample no longer runs, however that came
\* about, unless TerminateProcess itself has failed or the process could not
\* be opened in the first round, when nothing stops it.
SampleStopped ==
  mpc \in {"drain", "stop", "nudge", "join", "report"} \/ outcome = "features"
    => sample = "exited" \/ kill = "failed" \/ NeverOpened

\* The monitor's files stay in place while the sample runs with the monitor in
\* it; cleanup comes early only if TerminateProcess has failed or the process
\* could not be opened.
MonitorStays ==
  sample \in {"suspended", "running"} => installed \/ kill = "failed" \/ NeverOpened

\* run_analysis hangs in cmd_thread.join() only if the nudge came in the
\* window between the thread's check of do_run and CreateNamedPipeW.
JoinHangsOnlyIfMissed ==
  (mpc = "join" /\ cpc = "connect" /\ pipe = "free") => missedAt = "create"

\* Every analysis ends, whatever the sample does and whatever fails, or hangs
\* in the one known way.
AnalysisEnds ==
  mpc = "init" ~> (mpc = "over" \/ (mpc = "join" /\ missedAt = "create"))
-----------------------------------------------------------------------------
(***************************************************************************)
(* The inductive invariant: how far run_analysis is tells what the sample, *)
(* the handle, the command pipe, the log and the answer can look like.     *)
(***************************************************************************)
Starting == {"init", "execute", "register", "reader", "inject", "close"}
Ending   == {"drain", "stop", "nudge", "join", "report"}

SampleTracks ==
  /\ mpc \in {"init", "execute"} => sample = "none" /\ file # "tampered"
  /\ mpc \in {"register", "reader", "inject"} => sample = "suspended"
  /\ mpc \in {"close", "poll"} => sample \in {"running", "exited"}
  /\ mpc \in Ending \/ outcome = "features"
       => sample = "exited" \/ (sample = "running" /\ (kill = "failed" \/ NeverOpened))
  /\ mpc = "over" /\ sample = "running" => kill = "failed" \/ NeverOpened \/ outcome = "panic"
  /\ mpc \notin {"init", "over"} => installed
  /\ MonitorStays

HandleTracks ==
  /\ mpc \in Starting => ~seen
  /\ mpc \in Starting \cup {"poll"} => kill = "no" /\ otherCode = STILL_ACTIVE
  /\ mpc = "poll" => \/ handle = "none" /\ ~seen
                     \/ handle \in Own /\ seen
                     \/ handle = "other" /\ sample = "exited" /\ ~seen
  /\ mpc \in Ending => \/ handle \in Own /\ sample = "exited"
                       \/ NeverOpened
                       \/ handle = "other" /\ ~seen
                       \/ handle = "none" /\ kill # "no"

CommandTracks ==
  /\ mpc = "init" => cpc = "none"
  /\ mpc \notin {"init", "over"} => cpc # "none"
  /\ mpc \in {"nudge", "join", "report"} => ~do_run
  /\ pipe \in CASE cpc = "connect" -> {"free", "taken", "left"}
               [] cpc = "recheck" -> {"taken", "left"}
               [] OTHER -> {"none"}
  /\ mpc = "join" /\ (cpc = "create" \/ pipe = "free") => missedAt = "create"

LogTracks ==
  /\ mpc = "reader" \/ rpc # "none" => tracked
  /\ mpc \in {"inject", "close", "poll", "drain"} => joinable
  /\ header = "none" => written = 0
  /\ rpc = "read" => header # "none"
  /\ header # "bad" => collected = read
  /\ rpc = "ended" /\ ~broken => read = written
  /\ mpc \in Starting \cup {"poll", "drain"} => drained = "no"
  /\ drained = "joined" => rpc = "ended"

AnswerTracks ==
  /\ outcome # "none" => mpc = "over"
  /\ outcome = "features" /\ drained = "joined" => reported = collected
  /\ outcome = "empty" => sample \in {"none", "suspended"} \/ file = "tampered"
  /\ ExitCodeTrue

\* At every step of run_analysis, of the two pipe threads and of the sample:
\* the sample, its handle and the monitor's files are what the step reached so
\* far has made of them, the command thread knows that it is to stop or was
\* missed by the nudge, nothing the reader took is missing from the collector,
\* and the answer agrees with what was collected and how the sample ended.
AInv == ATypeOK /\ SampleTracks /\ HandleTracks /\ CommandTracks /\ LogTracks /\ AnswerTracks
=============================================================================
