--------------------------- MODULE AnalysisProofs ---------------------------
(***************************************************************************)
(* Theorems about Analysis, for every bound on the calls and commands, any *)
(* set of exit codes and any choice of faults.                             *)
(***************************************************************************)
EXTENDS Analysis, TLAPS

USE DEF threads, command, logs, files, opened, process, answer, MainTo, CmdTo, ReaderTo,
        Starting, Ending, NeverOpened, Own

\* An early return or a panic before the sample runs, or one at the report,
\* leaves everything but the answer as it is.
LEMMA GiveUpPreserves ==
  ASSUME AInv, NEW o \in {"empty", "panic"}, GiveUp(o),
         mpc \notin {"close", "poll", "over"},
         o = "empty" => sample \in {"none", "suspended"} \/ file = "tampered"
  PROVE  AInv'
<1> USE DEF GiveUp
<1>1. ATypeOK'
  BY DEF AInv, ATypeOK
<1>2. SampleTracks'
  BY DEF AInv, ATypeOK, SampleTracks, MonitorStays
<1>3. HandleTracks' /\ CommandTracks' /\ LogTracks'
  BY DEF AInv, HandleTracks, CommandTracks, LogTracks
<1>4. AnswerTracks'
  BY DEF AInv, AnswerTracks, ExitCodeTrue
<1> QED
  BY <1>1, <1>2, <1>3, <1>4 DEF AInv

\* Every step of run_analysis keeps the invariant.
LEMMA MainPreserves ==
  ASSUME AInv, Main
  PROVE  AInv'
<1> USE DEF AInv, ATypeOK, SampleTracks, HandleTracks, CommandTracks, LogTracks,
            AnswerTracks, MonitorStays, ExitCodeTrue
<1>0. ASSUME NEW o \in {"empty", "panic"}, GiveUp(o),
             mpc \notin {"close", "poll", "over"},
             o = "empty" => sample \in {"none", "suspended"} \/ file = "tampered"
      PROVE  AInv'
  BY <1>0, GiveUpPreserves
<1>1. CASE Setup
  <2>1. CASE GiveUp("empty")
    BY <1>0, <1>1, <2>1 DEF Setup
  <2>2. CASE /\ mpc' = "execute" /\ cpc' = "check" /\ installed' = TRUE
             /\ UNCHANGED <<rpc, command, logs, sample, code, opened, seen, kill, file, answer>>
    <3>1. installed' \in BOOLEAN
      BY <2>2, Zenon
    <3>2. ATypeOK'
      BY <2>2, <3>1
    <3>3. mpc = "init"
      BY <1>1 DEF Setup
    <3>4. SampleTracks'
      BY <2>2, <3>3
    <3>5. HandleTracks' /\ CommandTracks' /\ LogTracks'
      BY <2>2, <3>3
    <3>6. AnswerTracks'
      BY <2>2, <3>3
    <3> QED  BY <3>2, <3>4, <3>5, <3>6
  <2> QED  BY <1>1, <2>1, <2>2 DEF Setup
<1>2. CASE Execute
  <2>1. CASE GiveUp("panic")
    BY <1>0, <1>2, <2>1 DEF Execute
  <2>2. CASE /\ sample' = "suspended" /\ handle' = "open"
             /\ MainTo("register")
             /\ UNCHANGED <<code, otherCode, seen, kill, files, command, logs, answer>>
    <3>1. mpc = "execute"
      BY <1>2 DEF Execute
    <3> QED  BY <2>2, <3>1
  <2> QED  BY <1>2, <2>1, <2>2 DEF Execute
<1>3. CASE register_process
  BY <1>3 DEF register_process
<1>4. CASE spawn_reader
  <2>1. CASE GiveUp("empty")
    BY <1>0, <1>4, <2>1 DEF spawn_reader
  <2>2. CASE /\ logpipe' = "free" /\ rpc' = "connect" /\ joinable' = TRUE
             /\ mpc' = "inject" /\ UNCHANGED cpc
             /\ UNCHANGED <<tracked, header, written, read, collected, broken>>
             /\ UNCHANGED <<command, process, answer>>
    <3>1. joinable' \in BOOLEAN
      BY <2>2, Zenon
    <3>2. ATypeOK'
      BY <2>2, <3>1
    <3>3. SampleTracks' /\ HandleTracks' /\ CommandTracks' /\ LogTracks' /\ AnswerTracks'
      BY <1>4, <2>2 DEF spawn_reader
    <3> QED  BY <3>2, <3>3
  <2> QED  BY <1>4, <2>1, <2>2 DEF spawn_reader
<1>5. CASE InjectAndResume
  <2>1. CASE GiveUp("panic")
    BY <1>0, <1>5, <2>1 DEF InjectAndResume
  <2>2. CASE /\ sample' = "running"
             /\ MainTo("close")
             /\ UNCHANGED <<code, opened, seen, kill, files, command, logs, answer>>
    <3>1. mpc = "inject"
      BY <1>5 DEF InjectAndResume
    <3> QED  BY <2>2, <3>1
  <2> QED  BY <1>5, <2>1, <2>2 DEF InjectAndResume
<1>6. CASE Close
  BY <1>6 DEF Close
<1>7. CASE PollExited
  <2>1. PICK h \in Opened : \E c \in exit_code(h) : ~is_alive(c) /\ Asks(h, c)
    BY <1>7 DEF PollExited
  <2>2. PICK c \in exit_code(h) : ~is_alive(c) /\ Asks(h, c)
    BY <2>1
  <2>3. /\ mpc = "poll" /\ MainTo("drain")
        /\ UNCHANGED <<sample, code, seen, kill, files, command, logs, answer>>
    BY <1>7 DEF PollExited
  <2>4. /\ handle' \in {"open", "limited", "null", "other"}
        /\ otherCode' \in ExitCodes \cup {STILL_ACTIVE}
        /\ handle' \in Own => sample = "exited"
        /\ handle' = "other" => sample = "exited" /\ ~seen
        /\ handle' = "null" => ~seen
    BY <2>2, <2>3 DEF Opened, exit_code, is_alive, Asks
  <2>5. ATypeOK' /\ HandleTracks'
    BY <2>3, <2>4
  <2>6. SampleTracks' /\ CommandTracks' /\ LogTracks' /\ AnswerTracks'
    BY <2>3, <2>4
  <2> QED  BY <2>5, <2>6
<1>8. CASE PollTimeout
  <2>1. /\ mpc = "poll" /\ handle' = "none" /\ otherCode' = STILL_ACTIVE /\ MainTo("drain")
        /\ UNCHANGED <<files, command, logs, answer>>
    BY <1>8 DEF PollTimeout
  <2>2. /\ kill' \in {"done", "failed", "moot", "other"}
        /\ code' \in {code, Killed} \cup ExitCodes
        /\ sample' = "exited" \/ (sample' = "running" /\ kill' = "failed")
    BY <1>8 DEF PollTimeout, Opened
  <2>3. seen' \in BOOLEAN
    BY <1>8, Zenon DEF PollTimeout
  <2>4. ATypeOK'
    BY <2>1, <2>2, <2>3
  <2>5. SampleTracks' /\ HandleTracks' /\ CommandTracks' /\ LogTracks'
    BY <2>1, <2>2
  <2>6. AnswerTracks'
    BY <2>1
  <2> QED  BY <2>4, <2>5, <2>6
<1>9. CASE drain_logservers
  <2>1. joinable' \in BOOLEAN
    BY <1>9, Zenon DEF drain_logservers
  <2>2. ATypeOK'
    BY <1>9, <2>1 DEF drain_logservers
  <2>3. SampleTracks' /\ HandleTracks' /\ CommandTracks' /\ AnswerTracks'
    BY <1>9 DEF drain_logservers
  <2>4. LogTracks'
    BY <1>9 DEF drain_logservers
  <2> QED  BY <2>2, <2>3, <2>4
<1>10. CASE Stop
  <2>1. do_run' \in BOOLEAN
    BY <1>10, Zenon DEF Stop
  <2>2. ATypeOK'
    BY <1>10, <2>1 DEF Stop
  <2>3. SampleTracks' /\ HandleTracks' /\ CommandTracks' /\ LogTracks' /\ AnswerTracks'
    BY <1>10 DEF Stop
  <2> QED  BY <2>2, <2>3
<1>11. CASE nudge_server
  BY <1>11 DEF nudge_server
<1>12. CASE Join
  BY <1>12 DEF Join
<1>13. CASE BuildReport
  <2>1. CASE \E o \in {"empty", "panic"} : GiveUp(o) /\ (o = "empty" => file = "tampered")
    BY <1>0, <1>13, <2>1 DEF BuildReport
  <2>2. CASE /\ reported' = collected /\ outcome' = "features"
             /\ \E h \in Opened : \E c \in exit_code(h) : Asks(h, c) /\ exit' = c
             /\ installed' = FALSE
             /\ MainTo("over")
             /\ UNCHANGED <<drained, sample, code, seen, kill, file, command, logs>>
    <3>0. installed' \in BOOLEAN
      BY <2>2, Zenon
    <3>1. PICK h \in Opened : \E c \in exit_code(h) : Asks(h, c) /\ exit' = c
      BY <2>2
    <3>2. PICK c \in exit_code(h) : Asks(h, c) /\ exit' = c
      BY <3>1
    <3>3. mpc = "report"
      BY <1>13 DEF BuildReport
    <3>4. /\ handle' \in {"open", "limited", "null", "other"}
          /\ otherCode' \in ExitCodes \cup {STILL_ACTIVE}
          /\ exit' \in ExitCodes \cup {STILL_ACTIVE, Killed, Unknown, 1}
          /\ NeverOpened => handle' = "null"
      BY <3>2, <3>3 DEF Opened, exit_code, Asks
    <3>5. ATypeOK'
      BY <2>2, <3>0, <3>4
    <3>6. SampleTracks' /\ HandleTracks' /\ CommandTracks' /\ LogTracks'
      BY <2>2, <3>3, <3>4
    <3>7. \/ handle' \in Own /\ exit' = IF sample = "exited" THEN code ELSE STILL_ACTIVE
          \/ handle' = "other"
          \/ handle' = "null" /\ exit' = Unknown
      BY <3>2, <3>3 DEF Opened, exit_code, Asks
    <3>8. handle' \in {"null", "other"} => ~seen \/ kill # "no"
      BY <3>2, <3>3 DEF Opened, Asks
    <3>9. AnswerTracks'
      BY <2>2, <3>3, <3>4, <3>7, <3>8
    <3> QED  BY <3>5, <3>6, <3>9
  <2> QED  BY <1>13, <2>1, <2>2 DEF BuildReport
<1> QED
  BY <1>1, <1>2, <1>3, <1>4, <1>5, <1>6, <1>7, <1>8, <1>9, <1>10, <1>11, <1>12, <1>13
     DEF Main

\* Every round of the poll loop that finds a process alive keeps it.
LEMMA PollPreserves ==
  ASSUME AInv, PollAlive
  PROVE  AInv'
<1> USE DEF AInv, ATypeOK, PollAlive
<1>1. PICK h \in Opened : \E c \in exit_code(h) :
             is_alive(c) /\ Asks(h, c) /\ seen' = (seen \/ h \in Own)
  BY Zenon
<1>2. seen' \in BOOLEAN
  BY <1>1, Zenon
<1>3. /\ handle' = h /\ h \in Opened /\ seen' = (seen \/ h \in Own)
      /\ otherCode' \in {otherCode, STILL_ACTIVE}
      /\ h # "null"
  BY <1>1 DEF Asks, is_alive, exit_code, STILL_ACTIVE, Unknown
<1>4. ATypeOK'
  BY <1>2, <1>3 DEF Opened
<1>5. HandleTracks'
  BY <1>3 DEF HandleTracks, Opened
<1>6. SampleTracks' /\ CommandTracks' /\ LogTracks'
  BY <1>3 DEF SampleTracks, HandleTracks, MonitorStays, CommandTracks, LogTracks, Opened
<1>7. AnswerTracks'
  BY DEF AnswerTracks, ExitCodeTrue
<1> QED
  BY <1>4, <1>5, <1>6, <1>7

\* The command pipe thread keeps it.
LEMMA CommandPreserves ==
  ASSUME AInv, CommandThread
  PROVE  AInv'
<1> USE DEF AInv, ATypeOK
<1>1. UNCHANGED <<mpc, rpc, do_run, missedAt, commands, logs, process, answer>>
  BY DEF CommandThread, CheckRun, CreatePipe, Connect
<1>2. ATypeOK'
  BY <1>1 DEF CommandThread, CheckRun, CreatePipe, Connect
<1>3. SampleTracks' /\ HandleTracks' /\ LogTracks' /\ AnswerTracks'
  BY <1>1 DEF SampleTracks, MonitorStays, HandleTracks, LogTracks, AnswerTracks, ExitCodeTrue
<1>4. CommandTracks'
  <2> USE <1>1 DEF CommandTracks
  <2>1. CASE CheckRun
    <3>1. cpc \in {"check", "recheck"} /\ pipe' = "none"
      BY <2>1 DEF CheckRun
    <3>2. CASE do_run
      <4>1. cpc' \in {"create", "check"}
        BY <2>1, <3>2, <3>1 DEF CheckRun
      <4> QED  BY <3>1, <3>2, <4>1
    <3>3. CASE ~do_run
      <4>1. cpc' = "exited"
        BY <2>1, <3>3 DEF CheckRun
      <4> QED  BY <3>1, <4>1
    <3> QED
      BY <3>2, <3>3
  <2>2. CASE CreatePipe
    BY <2>2 DEF CreatePipe
  <2>3. CASE Connect
    BY <2>3 DEF Connect
  <2> QED
    BY <2>1, <2>2, <2>3 DEF CommandThread
<1> QED
  BY <1>2, <1>3, <1>4

\* The log reader keeps it.
LEMMA ReaderPreserves ==
  ASSUME AInv, LogReader
  PROVE  AInv'
<1> USE DEF AInv, ATypeOK
<1>1. UNCHANGED <<mpc, cpc, command, process, answer, tracked, joinable, logpipe, header, written>>
  BY DEF LogReader, ReaderConnect, read_header, ReadFrame, EndOfLog
<1>2. ATypeOK'
  <2>1. broken' \in BOOLEAN
    BY Zenon DEF LogReader, ReaderConnect, read_header, ReadFrame, EndOfLog
  <2>2. rpc' \in {"none", "connect", "header", "read", "ended"}
    BY DEF LogReader, ReaderConnect, read_header, ReadFrame, EndOfLog
  <2>3. read' \in 0..written /\ collected' \in 0..read' /\ reported \in 0..collected'
    BY AnalysisAssumption DEF LogReader, ReaderConnect, read_header, ReadFrame, EndOfLog
  <2> QED
    BY <1>1, <2>1, <2>2, <2>3
<1>3. SampleTracks' /\ HandleTracks' /\ CommandTracks'
  BY <1>1 DEF SampleTracks, MonitorStays, HandleTracks, CommandTracks
<1>4. LogTracks'
  BY DEF LogTracks, LogReader, ReaderConnect, read_header, ReadFrame, EndOfLog
<1>5. AnswerTracks'
  BY DEF LogTracks, AnswerTracks, ExitCodeTrue, LogReader, ReaderConnect, read_header, ReadFrame, EndOfLog
<1> QED
  BY <1>2, <1>3, <1>4, <1>5

\* The sample and its monitor keep it.
LEMMA GuestPreserves ==
  ASSUME AInv, Guest
  PROVE  AInv'
<1> USE DEF AInv, ATypeOK, SampleTracks, HandleTracks, CommandTracks, LogTracks,
            AnswerTracks, MonitorStays, ExitCodeTrue
<1>1. CASE MonitorLogs
  <2>1. /\ UNCHANGED <<tracked, joinable, read, collected, broken>>
        /\ UNCHANGED <<threads, command, process, answer>>
    BY <1>1 DEF MonitorLogs
  <2>2. ATypeOK'
    BY <1>1, <2>1, AnalysisAssumption DEF MonitorLogs
  <2>3. SampleTracks' /\ HandleTracks' /\ CommandTracks' /\ AnswerTracks'
    BY <2>1
  <2>4. LogTracks'
    BY <1>1, <2>1 DEF MonitorLogs
  <2> QED  BY <2>2, <2>3, <2>4
<1>2. CASE SampleExits
  BY <1>2 DEF SampleExits
<1>3. CASE FileTampered
  BY <1>3 DEF FileTampered
<1>4. CASE LogPipeCloses
  BY <1>4 DEF LogPipeCloses
<1>5. CASE MonitorCommands
  <2>1. ATypeOK'
    BY <1>5, AnalysisAssumption DEF MonitorCommands
  <2>2. SampleTracks' /\ HandleTracks' /\ LogTracks' /\ AnswerTracks'
    BY <1>5 DEF MonitorCommands
  <2>3. CommandTracks'
    BY <1>5 DEF MonitorCommands
  <2> QED  BY <2>1, <2>2, <2>3
<1> QED
  BY <1>1, <1>2, <1>3, <1>4, <1>5 DEF Guest

\* An analysis that has not begun satisfies it, whether or not there is a file.
LEMMA StartOK ==
  ASSUME AStart, file \in {"none", "sample"}
  PROVE  AInv
<1>1. /\ do_run \in BOOLEAN /\ tracked \in BOOLEAN /\ joinable \in BOOLEAN
      /\ broken \in BOOLEAN /\ seen \in BOOLEAN /\ installed \in BOOLEAN
  BY Zenon DEF AStart
<1>2. ATypeOK
  BY <1>1, AnalysisAssumption DEF AStart, ATypeOK, Unknown
<1>3. SampleTracks /\ HandleTracks /\ CommandTracks /\ LogTracks /\ AnswerTracks
  BY DEF AStart, SampleTracks, HandleTracks, CommandTracks, LogTracks,
         AnswerTracks, MonitorStays, ExitCodeTrue
<1> QED
  BY <1>2, <1>3 DEF AInv

\* Every step keeps the invariant, in any system the analysis is part of.
LEMMA StepPreserves ==
  ASSUME AInv, [ANext]_avars
  PROVE  AInv'
<1>1. CASE UNCHANGED avars
  BY <1>1 DEF avars, AInv, ATypeOK, SampleTracks, HandleTracks, CommandTracks, LogTracks,
              AnswerTracks, MonitorStays, ExitCodeTrue
<1> QED
  BY <1>1, MainPreserves, PollPreserves, CommandPreserves, ReaderPreserves, GuestPreserves
     DEF ANext

-----------------------------------------------------------------------------
\* The invariant of the analysis.
THEOREM AnalysisInvariant == ASpec => []AInv
<1>1. AInit => AInv
  BY StartOK DEF AInit
<1>2. AInv /\ [ANext]_avars => AInv'
  BY StepPreserves
<1> QED
  BY <1>1, <1>2, PTL DEF ASpec

\* The state keeps its type: the reader never overtakes the monitor, and the
\* collector holds no call that was not read.
THEOREM AnalysisTypes == ASpec => []ATypeOK
<1>1. AInv => ATypeOK
  BY DEF AInv
<1> QED
  BY <1>1, AnalysisInvariant, PTL

\* A report built after drain_logservers has joined the reader of a well-formed
\* log holds every call: the reader has ended at the end of the log, and the
\* pid was registered before there was a reader.
THEOREM ReportIsComplete == ASpec => []ReportComplete
<1>1. AInv => ReportComplete
  BY DEF AInv, LogTracks, AnswerTracks, ReportComplete
<1> QED
  BY <1>1, AnalysisInvariant, PTL

\* The exit code reported is the sample's own when a round of the poll loop found
\* the sample alive and it ended by itself, whatever else uses its pid later; the
\* other codes are those of the cases that ExitCodeTrue names.
THEOREM ExitCodeIsTrue == ASpec => []ExitCodeTrue
<1>1. AInv => ExitCodeTrue
  BY DEF AInv, AnswerTracks
<1> QED
  BY <1>1, AnalysisInvariant, PTL

\* After the poll loop the sample has exited, unless TerminateProcess failed or
\* OpenProcess did so in the first round.
THEOREM SampleIsStopped == ASpec => []SampleStopped
<1>1. AInv => SampleStopped
  BY DEF AInv, SampleTracks, SampleStopped
<1> QED
  BY <1>1, AnalysisInvariant, PTL

\* The monitor's files are there while the sample has the monitor in it, with the
\* same two exceptions.
THEOREM MonitorIsKept == ASpec => []MonitorStays
<1>1. AInv => MonitorStays
  BY DEF AInv, SampleTracks
<1> QED
  BY <1>1, AnalysisInvariant, PTL

\* cmd_thread.join() can wait for a client that never comes only when the nudge
\* came between the thread's check of do_run and CreateNamedPipeW.
THEOREM HangOnlyIfMissed == ASpec => []JoinHangsOnlyIfMissed
<1>1. AInv => JoinHangsOnlyIfMissed
  BY DEF AInv, CommandTracks, JoinHangsOnlyIfMissed
<1> QED
  BY <1>1, AnalysisInvariant, PTL

-----------------------------------------------------------------------------
(***************************************************************************)
(* How many steps an analysis has left: those of run_analysis, one round   *)
(* of the command thread for every client that may still come, and what    *)
(* the monitor may still write and the reader read.                        *)
(***************************************************************************)
MainLeft ==
  CASE mpc = "init" -> 12 [] mpc = "execute" -> 11 [] mpc = "register" -> 10
    [] mpc = "reader" -> 9 [] mpc = "inject" -> 8 [] mpc = "close" -> 7
    [] mpc = "poll" -> 6 [] mpc = "drain" -> 5 [] mpc = "stop" -> 4
    [] mpc = "nudge" -> 3 [] mpc = "join" -> 2 [] mpc = "report" -> 1
    [] OTHER -> 0

\* A client makes the thread go round once more.
CommandLeft ==
  CASE cpc = "connect" -> (CASE pipe = "taken" -> 8 [] pipe = "left" -> 7 [] OTHER -> 2)
    [] cpc = "recheck" -> (IF pipe = "taken" THEN 6 ELSE 5)
    [] cpc = "check" -> 4
    [] cpc = "create" -> 3
    [] OTHER -> 0

ReaderLeft == CASE rpc = "connect" -> 3 [] rpc = "header" -> 2 [] rpc = "read" -> 1 [] OTHER -> 0

PipeLeft ==
  (CASE logpipe = "free" -> 2 [] logpipe = "open" -> 1 [] OTHER -> 0)
    + (IF header = "none" THEN 1 ELSE 0)

CallsLeft == 2 * (MaxCalls - written) + (written - read)

SampleLeft ==
  (IF sample = "running" THEN 1 ELSE 0) + (IF file = "sample" THEN 1 ELSE 0)
    + (IF handle = "none" THEN 1 ELSE 0)

AnalysisLeft ==
  12 * (MainLeft + (MaxCommands - commands)) + CommandLeft + ReaderLeft + PipeLeft + CallsLeft
    + SampleLeft

\* Every step of run_analysis, of its threads and of the guest is one less that
\* is left; a round of the poll loop that finds nothing new changes nothing.
AnalysisAdvances == [][AnalysisLeft' < AnalysisLeft]_avars

LEMMA LeftTypes ==
  ASSUME ATypeOK
  PROVE  /\ MainLeft \in 0..12 /\ CommandLeft \in 0..8 /\ ReaderLeft \in 0..3
         /\ PipeLeft \in 0..3 /\ SampleLeft \in 0..3
         /\ CallsLeft \in Nat /\ MaxCommands - commands \in Nat /\ AnalysisLeft \in Nat
<1>1. MainLeft \in 0..12
  BY DEF MainLeft, ATypeOK
<1>2. CommandLeft \in 0..8 /\ ReaderLeft \in 0..3 /\ PipeLeft \in 0..3 /\ SampleLeft \in 0..3
  BY DEF CommandLeft, ReaderLeft, PipeLeft, SampleLeft
<1>3. CallsLeft \in Nat /\ MaxCommands - commands \in Nat
  BY AnalysisAssumption DEF CallsLeft, ATypeOK
<1> QED
  BY <1>1, <1>2, <1>3 DEF AnalysisLeft

\* The sum falls when the main thread moves on, even if it starts a thread or
\* wakes one, and when another thread moves and the main one does not.
LEMMA StepsAdvance ==
  ASSUME AInv, AInv', ANext, ~UNCHANGED avars
  PROVE  AnalysisLeft' < AnalysisLeft
<1> USE DEF AInv
<1>1. /\ MainLeft \in 0..12 /\ CommandLeft \in 0..8 /\ ReaderLeft \in 0..3
      /\ PipeLeft \in 0..3 /\ SampleLeft \in 0..3
      /\ CallsLeft \in Nat /\ MaxCommands - commands \in Nat
  BY LeftTypes
<1>2. /\ (MainLeft \in 0..12)' /\ (CommandLeft \in 0..8)' /\ (ReaderLeft \in 0..3)'
      /\ (PipeLeft \in 0..3)' /\ (SampleLeft \in 0..3)'
      /\ (CallsLeft \in Nat)' /\ (MaxCommands - commands \in Nat)'
  BY LeftTypes, PTL
<1>3. CASE Main
  <2>1. MainLeft' < MainLeft
    BY <1>3 DEF MainLeft, Main, Setup, Execute, register_process, spawn_reader, InjectAndResume,
       Close, PollExited, PollTimeout, drain_logservers, Stop, nudge_server, Join, BuildReport, GiveUp
  <2>2. MainLeft' + (MaxCommands - commands') <= MainLeft + (MaxCommands - commands) - 1
    <3>1. commands' = commands
      BY <1>3 DEF Main, Setup, Execute, register_process, spawn_reader,
       InjectAndResume, Close, PollExited, PollTimeout, drain_logservers, Stop, nudge_server, Join,
       BuildReport, GiveUp
    <3> QED
      BY <2>1, <3>1, <1>1, <1>2
  <2>3. CASE Setup \/ nudge_server
    <3>1. CommandLeft' <= CommandLeft + 5
      BY <2>3 DEF Setup, nudge_server, GiveUp, CommandLeft, CommandTracks
    <3>2. UNCHANGED <<ReaderLeft, PipeLeft, CallsLeft, SampleLeft>>
      BY <2>3 DEF Setup, nudge_server, GiveUp, ReaderLeft, PipeLeft, CallsLeft, SampleLeft
    <3> QED
      BY <2>2, <3>1, <3>2, <1>1, <1>2 DEF AnalysisLeft
  <2>4. CASE spawn_reader
    <3>1. ReaderLeft' <= ReaderLeft + 3 /\ PipeLeft' <= PipeLeft + 2
      BY <2>4 DEF spawn_reader, GiveUp, ReaderLeft, PipeLeft
    <3>2. UNCHANGED <<CommandLeft, CallsLeft, SampleLeft>>
      BY <2>4 DEF spawn_reader, GiveUp, CommandLeft, CallsLeft, SampleLeft
    <3> QED
      BY <2>2, <3>1, <3>2, <1>1, <1>2 DEF AnalysisLeft
  <2>5. CASE Main /\ ~Setup /\ ~nudge_server /\ ~spawn_reader
    <3>1. SampleLeft' <= SampleLeft + 3
      BY <2>5 DEF SampleLeft, Main, Execute, register_process, InjectAndResume, Close, PollExited,
         PollTimeout, drain_logservers, Stop, Join, BuildReport, GiveUp
    <3>2. UNCHANGED <<CommandLeft, ReaderLeft, PipeLeft, CallsLeft>>
      BY <2>5 DEF CommandLeft, ReaderLeft, PipeLeft, CallsLeft, Main, Execute, register_process,
         InjectAndResume, Close, PollExited, PollTimeout, drain_logservers, Stop, Join, BuildReport,
         GiveUp
    <3> QED
      BY <2>2, <3>1, <3>2, <1>1, <1>2 DEF AnalysisLeft
  <2> QED
    BY <1>3, <2>3, <2>4, <2>5
<1>4. CASE PollAlive
  <2>1. PICK h \in Opened : \E c \in exit_code(h) :
             is_alive(c) /\ Asks(h, c) /\ seen' = (seen \/ h \in Own)
    BY <1>4, Zenon DEF PollAlive
  <2>2. SampleLeft' < SampleLeft
    <3>1. /\ handle' = h /\ h # "none"
          /\ handle # "none" => handle' = handle
          /\ otherCode' = otherCode
      BY <1>4, <2>1 DEF PollAlive, Asks, Opened, is_alive, HandleTracks
    <3>2. CASE handle # "none"
      <4>1. seen' = seen
        BY <1>4, <2>1, <3>1, <3>2 DEF PollAlive, HandleTracks, ATypeOK
      <4> QED  BY <1>4, <3>1, <3>2, <4>1 DEF PollAlive, avars
    <3>3. CASE handle = "none"
      BY <1>4, <3>1, <3>3 DEF PollAlive, SampleLeft
    <3> QED  BY <3>2, <3>3
  <2>3. UNCHANGED <<MainLeft, CommandLeft, ReaderLeft, PipeLeft, CallsLeft, commands>>
    BY <1>4 DEF PollAlive, MainLeft, CommandLeft, ReaderLeft, PipeLeft, CallsLeft
  <2> QED
    BY <2>2, <2>3, <1>1, <1>2 DEF AnalysisLeft
<1>5. CASE CommandThread
  <2>1. CommandLeft' < CommandLeft
    BY <1>5 DEF CommandThread, CheckRun, CreatePipe, Connect, CommandLeft, CommandTracks
  <2>2. UNCHANGED <<MainLeft, ReaderLeft, PipeLeft, CallsLeft, SampleLeft, commands>>
    BY <1>5 DEF CommandThread, CheckRun, CreatePipe, Connect, MainLeft, ReaderLeft, PipeLeft,
       CallsLeft, SampleLeft
  <2> QED
    BY <2>1, <2>2, <1>1, <1>2 DEF AnalysisLeft
<1>6. CASE LogReader
  <2>1. \/ ReaderLeft' < ReaderLeft /\ CallsLeft' = CallsLeft
        \/ ReaderLeft' = ReaderLeft /\ CallsLeft' = CallsLeft - 1
    BY <1>6, AnalysisAssumption DEF LogReader, ReaderConnect, read_header, ReadFrame, EndOfLog,
       ReaderLeft, CallsLeft, ATypeOK
  <2>2. UNCHANGED <<MainLeft, CommandLeft, PipeLeft, SampleLeft, commands>>
    BY <1>6 DEF LogReader, ReaderConnect, read_header, ReadFrame, EndOfLog, MainLeft, CommandLeft,
       PipeLeft, SampleLeft
  <2> QED
    BY <2>1, <2>2, <1>1, <1>2 DEF AnalysisLeft
<1>7. CASE MonitorLogs \/ LogPipeCloses
  <2>1. \/ PipeLeft' < PipeLeft /\ CallsLeft' = CallsLeft
        \/ PipeLeft' = PipeLeft /\ CallsLeft' = CallsLeft - 1
    BY <1>7, AnalysisAssumption DEF MonitorLogs, LogPipeCloses, PipeLeft, CallsLeft, ATypeOK
  <2>2. UNCHANGED <<MainLeft, CommandLeft, ReaderLeft, SampleLeft, commands>>
    BY <1>7 DEF MonitorLogs, LogPipeCloses, MainLeft, CommandLeft, ReaderLeft, SampleLeft
  <2> QED
    BY <2>1, <2>2, <1>1, <1>2 DEF AnalysisLeft
<1>8. CASE SampleExits \/ FileTampered
  <2>1. SampleLeft' < SampleLeft
    BY <1>8 DEF SampleExits, FileTampered, SampleLeft
  <2>2. UNCHANGED <<MainLeft, CommandLeft, ReaderLeft, PipeLeft, CallsLeft, commands>>
    BY <1>8 DEF SampleExits, FileTampered, MainLeft, CommandLeft, ReaderLeft, PipeLeft, CallsLeft
  <2> QED
    BY <2>1, <2>2, <1>1, <1>2 DEF AnalysisLeft
<1>9. CASE MonitorCommands
  <2>1. \/ CommandLeft' < CommandLeft /\ commands' = commands
        \/ CommandLeft' <= CommandLeft + 8 /\ commands' = commands + 1
    BY <1>9, <1>1, <1>2 DEF MonitorCommands, CommandLeft, CommandTracks, ATypeOK
  <2>2. UNCHANGED <<MainLeft, ReaderLeft, PipeLeft, CallsLeft, SampleLeft>>
    BY <1>9 DEF MonitorCommands, MainLeft, ReaderLeft, PipeLeft, CallsLeft, SampleLeft
  <2> QED
    <3>1. CASE CommandLeft' < CommandLeft /\ commands' = commands
      BY <3>1, <2>2, <1>1, <1>2 DEF AnalysisLeft
    <3>2. CASE CommandLeft' <= CommandLeft + 8 /\ commands' = commands + 1
      <4>1. MainLeft' + (MaxCommands - commands') = MainLeft + (MaxCommands - commands) - 1
        BY <3>2, <2>2, <1>1, AnalysisAssumption DEF ATypeOK
      <4> QED
        BY <3>2, <4>1, <2>2, <1>1, <1>2 DEF AnalysisLeft
    <3> QED
      BY <2>1, <3>1, <3>2
<1> QED
  BY <1>3, <1>4, <1>5, <1>6, <1>7, <1>8, <1>9 DEF ANext, Guest

\* An analysis is finite: each step takes one from a natural number, which is
\* linear in the calls and connections the guest makes.  No thread of the agent
\* goes round for ever on its own, whatever the order of the steps.
THEOREM AnalysisIsFinite == ASpec => AnalysisAdvances /\ [](AnalysisLeft \in Nat)
<1>1. AInv => AnalysisLeft \in Nat
  BY LeftTypes DEF AInv
<1>2. AInv /\ AInv' /\ [ANext]_avars => [AnalysisLeft' < AnalysisLeft]_avars
  BY StepsAdvance
<1> QED
  BY <1>1, <1>2, AnalysisInvariant, PTL DEF ASpec, AnalysisAdvances
=============================================================================
