# Malbox in TLA+

Malbox runs a Windows sample in a throw-away virtual machine and reports what
it did. This directory holds TLA+ models of its two programs, the TLC runs that
check them on small instances and the TLAPS proofs about them. Paths below are
relative to the repository.

## The system

`malbox-controller` (host) serves HTTP. `POST /jobs` stores the sample, inserts
a job into the tracker and spawns a tokio task for it. The task creates a
libvirt domain, exchanges certificates with the agent in the guest, uploads the
sample, asks for the analysis, tears the domain down and publishes the result.
`malbox-agent` (guest) first serves a plain bootstrap service, then an mTLS one;
its analysis runs the sample under a monitor DLL that reports through pipes.

| Component | State | Operations | Interacts with |
|---|---|---|---|
| job tracker (`job.rs`) | map id -> status, result, broadcast sender, behind one RwLock | submit, get, subscribe, cancel, has, set_status, set_result, emit_error | called by job tasks and HTTP handlers, concurrently |
| job task (`job.rs`) | where run_job / run_job_inner stands, what it will return | create VM, bootstrap, connect, upload, analyse, tear down, publish | tracker, VM manager, the agent by gRPC |
| VM manager (`vm.rs`) | overlay and nvram files, domain definition, running domain, lease | create_job_domain, teardown | host commands, libvirt; blocks a runtime thread |
| routes (`routes.rs`, `main.rs`) | a broadcast receiver per open stream | submit_job, get_job, job_events, cancel_job | tracker; share the runtime's threads with the job tasks |
| test frontend (`frontend.html`) | status line, EventSource, current job | upload, listen, event listeners, fetchResult | routes |
| agent analysis (`analysis.rs`, `agent.rs`) | stage of run_analysis, sample process handle | set up, execute, inject, poll, time out, drain, stop, report | the pipe threads, the sample, the Analyze stream |
| command pipe (`pipes/command.rs`, `pipes/raw.rs`) | do_run, the current pipe instance | serve, nudge | analysis, monitored processes |
| log pipe (`pipes/logserver.rs`, `bson_log.rs`, `collector.rs`) | reader thread, calls collected | spawn_reader, read_loop, push_call | monitor, analysis |
| sample process (`process.rs`, `monitor.rs`) | pid, handles | execute, inject, resume, close, open, exit_code, terminate | Windows |
| report builder (`report.rs`) | none | build, build_tree, detect_pe_type | collector |
| mTLS bootstrap (`bootstrap.rs`, agent `main.rs`, `certs.rs`, `cert.rs`) | certificates, which server is up | who_am_i, request_csr, switch_connection, start_mtls_server | controller's bootstrap_mtls and connect_mtls |
| sample upload (`job.rs`, `agent.rs`) | file, chunk stream | upload_sample on both sides | each other |
| volatility, configuration, protobuf, templates | - | unused code, start-up input, generated code, data | - |

What is hard: a DELETE can fall between any two steps of a task; publishing a
failure takes two critical sections; VM calls block the threads everything else
needs; pages subscribe late, lose their connection and get a bounded channel;
every host command and libvirt call can fail, with partial clean-up; guests
hang or disappear while a call to them has no timeout; a task finds its agent by address
only, and addresses are leased again; in the guest, three threads and the sample
shut down in an order nobody controls, and the log is written by the program
under analysis. `PROJECT.json` lists these as hazards, each at its line.

What makes the parts correct:

- tracker and routes: a job only moves forward, DELETE is final, one outcome is
  announced and it is the last event;
- VM manager: nothing is left on the host without a reason that can be named,
  and a machine that is in use is whole;
- task: it ends unless its guest never answers, cancellation stops it at the next stage, a result is published
  only after clean-up;
- page: it shows what the API would say, and learns of the outcome; what it
  shows is about the job submitted last;
- bootstrap: a connected task talks to an agent that is its own, however the
  calls of several tasks interleave, and an acknowledged switch holds;
- upload: an acknowledged sample is stored whole and is found by the analysis;
- log and report: the calls are those of the log, in order and under the names
  in force when they were made, and every process is in the tree;
- analysis: it ends, the report holds every call, the exit code is the sample's,
  the sample is stopped;
- command pipe: the shutdown cannot hang.

## Modules

| Module | Models | Main correspondence |
|---|---|---|
| `ControllerParameters` | constants of the controller | `Faults` says which failures of files, libvirt, guest and connection an instance allows |
| `JobTracker` | `JobTracker` | one operator per method, named after it; a channel is the sequence of its events, `tx` the jobs that still hold their sender |
| `EventStream` | `job_events`, the page | `subscribe`, `recv` (with the skip of a lagging receiver), `EndStream`; `Listen` and `Display` are `listen()` and its listeners |
| `VmManager` | `create_job_domain`, `teardown` | one action per host or libvirt call with its failure branch; `warned` records that a warning was logged |
| `JobLifecycle` | abstract specification of a job | what GET and the stream may ever report |
| `Controller` | `run_job`, `run_job_inner`, the handlers | composes the four above; one action per step between two points where another actor can intervene |
| `ControllerProofs` | - | theorems about `Controller`: host, task, tracker, streams |
| `ViewProofs` | - | theorems about `Controller`: the refinement of `JobLifecycle`, the pages |
| `Analysis` | the agent's `run_analysis`, pipe threads, `Process` | `Main`, `CommandThread`, `LogReader` are the three threads; `Guest` is the sample and its monitor (external) |
| `AnalysisProofs` | - | theorems about `Analysis` |
| `Bootstrap` | `bootstrap_mtls`, `connect_mtls`, the agent's `main`, `BootstrapService`, `cert.rs` | `Callers` are the tasks that dial this agent's address; `pc`/`rpc` where each stands and its call in flight, `server` what the agent serves, `certs` its `AgentCerts`, `served` what the mTLS server was configured with |
| `BootstrapProofs` | - | theorems about `Bootstrap` |
| `Upload` | `upload_sample` on both sides | `rd` the reader task, `queue` the mpsc channel of 4, `wire` the HTTP/2 stream, `disk` the agent's file |
| `Session` | `run_job_inner` between upload and result, the Analyze RPC | composes `Upload` and `Analysis`; `stream` is the channel of the RPC, `result` what the controller's `run_analysis` returns |
| `SessionProofs` | - | theorems about `Upload` and `Session`, over the lemmas of `AnalysisProofs` |
| `LogStream` | `SchemaRegistry`, `process_doc`, `push_call` | `log` the monitor's documents, `map` the registry (a function on the indices announced so far), `calls` what the collector holds |
| `LogProofs` | - | theorems about `LogStream` |
| `Report` | `AnalysisCollector`, `Report::build`, `build_tree`, `detect_pe_type` | pure operators over the table of processes, and over a file known by its length, its `pe_offset` and what its header says; the tree is given by its roots and the children of every node |
| `ReportProofs` | - | theorems about `Report` |
| `Page` | `frontend.html` with several jobs | extends `JobLifecycle`, which is all the page can count on; `evtSource` and `currentJobId` are the globals, `live`/`open` the sources not closed and those being answered, `fetch` the fetchResult of each job |
| `PageProofs` | - | theorems about `Page` |
| `MC...` | - | instances for TLC |

Choices worth knowing:

- A task occupies a runtime thread from one await to the next, so `create` and
  `teardown` hold it (`WorkerFree`). HTTP handlers need a thread as well.
- `has()` and the `set_status` it guards are different steps, as are
  `set_status(Failed)` and `emit_error`. Each tracker method is one step: it
  takes the lock once.
- A domain and its files carry a fresh uuid; they are identified with their job.
  That two jobs do not touch each other's files is thereby assumed, not shown.
- Status texts are modelled by what the two conversions produce ("spawningvm"
  in the stream, "spawning_vm" in the API), since two properties depend on it.
- In `Controller`, each of bootstrap, connect, upload and analysis is one awaited
  call. It may fail at any time, and it need not ever return, also with a guest
  that is up. It succeeds only while some guest is up, which need not be the job's
  own, as the task knows an address and addresses are leased again. What happens
  inside the calls is the subject of `Bootstrap`, `Upload` and `Session`.
- In `Bootstrap`, a CA, a key and a certificate are named by the task they were
  made for, which is all that TLS acceptance depends on. Connections of the plain
  server outlive its listener (each is a task of its own), so bootstrap calls may
  still arrive after the switch, until `start_mtls_server` takes the lock, which
  it never gives back. With TLS 1.3 the client's `connect` may succeed before the
  server has refused the client's certificate, so the refusal comes with the
  first call. A task that dials without TLS is let in by the mTLS listener and
  fails with its first call.
- In `Upload`, a file name is one of six kinds: ordinary, with a leading space,
  blank, a Windows path into a directory that is not there, an absolute path, and
  one that leads to the parent directory (`..\x`). The controller runs on Linux
  and takes a Windows path for a name, and the agent then joins it to its
  directory; `starts_with` compares components and resolves no `..`, so the last
  kind is accepted and the file is created outside (`agent.rs:48`). A path that
  leads back to a file in the directory (`.\x`, or an absolute one that begins with
  it) behaves like an ordinary name. What Windows itself makes of a name (devices,
  trailing dots, streams) is left out.
- A connection can break, which both ends see, or fall silent, which neither does:
  nothing is delivered any more, and an end that waits for an answer waits for
  ever (`link`).
- In `Session`, the names decide whether `analyze` looks where `upload_sample`
  has written: one trims and follows the path, the other takes the last component.
- `Report` allows any calls of `register_process`, which has no guard: the same pid
  twice, children before parents, cycles. `run_analysis` makes one today, of the
  sample with parent 0; the collector's interface and `build_tree` are written for
  families. What is promised of the tree is promised for processes registered as
  they start (`Orderly`).
- In `Analysis`, a client that came and went before `ConnectNamedPipe` may make
  it fail or not; a malformed frame, a cut-off one and a document that
  panics `process_doc` (`LogStream`) all end the reader.
- `Process::open` by pid, in `Analysis`: a process that is there may be opened,
  opened for queries only (it cannot be terminated then) or not at all; one that
  has exited may still be there, or be gone, or have left its pid to another
  process, which may exit as well and whose code is then taken for the sample's
  (`otherCode`). A null handle is kept for good. `seen` records that a round of the
  poll loop has found the sample itself alive.
- The sample may remove, replace or lock its file, or leave one that makes
  `detect_pe_type` panic; `build_target_file` looks at the path after the run
  (`FileTampered`, `Report`).
- In `Page`, an event source receives only what is sent after its request
  arrived, and a 404 closes it for good, as in `EventStream`.

## Runs

| Run | Instance | Shows |
|---|---|---|
| `faults` | 1 job, 1 page, 2 results, 2 threads, all faults | the safety properties, the inductive invariant `ViewInv` (which contains `IInv`), the refinement |
| `jobs` | 2 jobs, 1 page, 1 thread, no faults | `JobEnds` when VM calls block the only thread and guests may not answer |
| `liveness` | 1 job, 1 page, 1 thread, all faults but lost connections | `JobEnds`, `OutcomeReachesPage` |
| `outcome_shown` | 1 job, 1 page, no faults | violated, see Findings |
| `status_shown` | 1 job, 1 page, no faults | violated, see Findings |
| `analysis` | all guest faults, 2 calls, 2 command connections, exit codes 0 and 259 | the safety properties of `Analysis`, the inductive invariant `AInv`, `AnalysisEnds` |
| `bootstrap` | 3 tasks, 1 reboot, all faults | the safety properties of `Bootstrap`, the invariant `BInv`, `ExchangeEnds` |
| `upload` | files of 0 to 7 chunks, window 2, all names, all faults | `InOrder`, `AckMeansWhole`, `UploadEnds` |
| `session` | files of 0 to 2 chunks, all names, upload faults and the guest faults that decide the RPC's outcome | `ResultOfSample`, `AckedIsFound`, `EmptyResultExplained`, the inductive invariant `SInv` (which contains `UInv` and `AInv`), `SessionEnds` |
| `log_stream` | 2 indices, 4 kinds of info, 16 calls, logs of 3 documents | `CallsAreTheLog`, `PanicsAtFirstBreach` |
| `report` | any 3 calls of `register_process` with 3 pids, 77 files around every bound, readable, locked or gone | `TreeHoldsAll`, `TypeIsRight` |
| `page` | 3 jobs, lost requests and broken streams | `LineIsCurrent`, `BoxIsRight`, `ResultIsShown` |

Properties of `Controller`: `OrphanExplained` (leaks only after one of four named
early returns, or with a warning), `InUseIntact` (whatever failed on the way, a
machine that is in use has its domain and its files),
`CompletedMeansDone` (completed means cleaned up and result available),
`StreamEndsWithOutcome`, `NoneMissed` (a channel of 64 is enough), `ViewAgrees`
(page and API agree), `CancelHonoured`, `ImplementsLifecycle` (refinement),
`JobEnds` (a task ends, or waits for an answer of its guest for ever: nothing else
can hold it), `OutcomeReachesPage`.

Properties of `Analysis`: `ReportComplete`, `ExitCodeTrue` (the sample's own code,
or which uncertainty explains another), `SampleStopped`, `MonitorStays` (the
monitor's files outlast the sample), `JoinHangsOnlyIfMissed`, `AnalysisEnds`.

Properties of `Bootstrap`: `OwnAgent` (a connected task has an agent whose key,
certificate and CA are its own, so no two share one), `ServedTogether` (the CA an
agent trusts signed its certificate), `SwitchSticks` (an acknowledged switch
holds), `CertsFrozen` (no late call changes what is served), `ExchangeEnds`.

Properties of `Upload` and `Session`: `InOrder`, `AckMeansWhole` (what is
acknowledged is the whole sample, or a read failed), `UploadEnds` (the call and
the reader task end unless the peer has fallen silent),
`ResultOfSample` (features come from a run of the sample submitted), `AckedIsFound`
(what was acknowledged is found, unless its name was trimmed or led elsewhere),
`EmptyResultExplained` (when a completed job's result is empty), `SessionEnds`.

Properties of `LogStream`, `Report` and `Page`: `CallsAreTheLog` and `TypeIsRight`
compare with references that are defined without the code's data structures;
`PanicsAtFirstBreach` says exactly which document ends the reader thread;
`TreeHoldsAll` says that every process is listed and, if processes are registered
as they start, that `build_tree` returns and each is at one place of the tree,
under its own parent, and can be reached from a root; `LineIsCurrent`, `BoxIsRight`, `ResultIsShown`.

Many of these name the exceptions the code really has. In the controller and the
analysis they are: errors that leave by `?` leak the
machine; a panic in `create_job_domain` strands the job; a guest that does not
answer is waited for without limit; a sample that cannot be opened in the first
round of the poll loop counts as ended and runs on (`process.rs:62`), with the
monitor's files removed under it; a handle that grants only queries cannot stop
it; a pid that was taken over gives the other process's exit code; a `CloseHandle`
that fails panics the analysis; the nudge of the command pipe can be missed between
`command.rs:9` and `command.rs:10`, after which `cmd_thread.join()` may block for
ever. In the exchanges: a read error on the controller cuts the sample short and
the agent acknowledges what it got (`job.rs:376`); a name with spaces around it is
stored trimmed and looked for untrimmed (`agent.rs:40`, `agent.rs:86`), and one
with `..` is stored outside the folder it is looked for in; a result
is empty, and published as completed, when the analysis returns an error, which
it does if the sample has removed its own file (`analysis.rs:113`), and describes
the file that is there if the sample has replaced it; a task is
stranded when its agent serves with another task's certificates, when a bootstrap
call waits for the lock the mTLS server holds, and when the guest reboots after
the switch; a `request_csr` that panics leaves the CA of one task with the key of
another; a file that ends inside the magic panics `detect_pe_type`
(`report.rs:219`), and one that cannot be read has no type (`report.rs:214`); a
process registered as its own ancestor makes `build_node` endless; a late answer for an earlier job takes the result box
(`frontend.html:149`). Nothing in the repository promises otherwise, so they are exceptions in the
properties and not findings.

Bounds. Jobs do not share state except the runtime's threads and the page, so
two show every interaction for `JobEnds`; the safety properties are proved for
any number of jobs and pages, so `faults` needs only one of each. A job sends at most six
events, so the channel never fills, which `NoneMissed` says and the proof
establishes for any instance. Two calls let the reader be behind, level and
cut off; two command connections let one be pending when the nudge comes and one
arrive after it. Three tasks let two disturb
a third that has switched, before and after the reboot that one `MaxBoots` allows.
Seven chunks are more than the channel (4) and the window (2) hold together, so
the reader blocks; `session` needs only empty, one and several. Three documents
are an announcement, another one for the same or another index, and a call, or a
call before, between and after. Three registrations of three
pids give chains, siblings, orphans with children, repetitions and cycles. Three jobs let a page move on while an answer for each of two earlier
jobs is under way. Runs with a symmetry set check no liveness. Runs say
`CHECK_DEADLOCK FALSE` because the system may stop: the finite set of job ids is
used up, and an analysis is over.

Fairness. In `Controller`, tasks are polled when ready (`WF` of `TaskStep`), host
commands return (`HostStep`) and streams are polled (`StreamStep`); tokio's
scheduler gives that as long as a thread is free, which is part of the actions.
Nothing is assumed of the guest: at the four places where a task awaits it
(`Waits`) there is no fairness, as no call has a timeout and `Bootstrap` and
`Analysis` show guests that are up and never answer. Calls need not fail, nobody
has to submit or delete. In `Analysis`, the three threads run and Windows closes the pipe of
an ended process; the sample need never exit, because the 300 s timeout ends the
poll loop (`PollTimeout` is part of `Main`). In `Bootstrap`, the agent's runtime and
every task that is ready run, and the connections of an ended process are closed;
a dial is retried for ever, so a task that can get through does. In `Upload`, the
job's task, the reader task, the connection and the handler each run as long as
the connection is not silent; it need neither break nor fall silent. `Session` has
the fairness of both. In `Page`, the browser runs handlers whose events have
arrived and the server answers; jobs need not end and nobody has to upload.

## Findings

- `outcome_shown`: `routes.rs:99` names the failure event `error`; `SETUP.md:330`
  and `frontend.html:135` say `analysis_error`. A page that subscribes between
  `set_status(Failed)` and `emit_error` keeps showing "queued".
- `status_shown`: `job.rs:153` announces "spawningvm", the page tests for
  "spawning_vm" (`frontend.html:121`), so it ignores the event.

## Proofs

`ControllerProofs` proves, for any sets of jobs, pages and results, any positive
number of threads and any choice of faults:

- `Invariance`: `Spec => []IInv`, which contains `TypeOK`;
- `TypeCorrect`: `TypeOK` on its own;
- `OrphansAreExplained` (`OrphanExplained`), `InUseStaysIntact` (`InUseIntact`),
  `CompletionIsComplete` (`CompletedMeansDone`), `StreamsEndWithOutcome`
  (`StreamEndsWithOutcome`) and `NoEventMissed` (`NoneMissed`), each from `IInv`;
- `CancellationIsHonoured`: the action property `CancelHonoured`, action by
  action, from `TypeOK`;
- `JobsNeverGoBack`: the action property `NeverBack`. `TaskRank` and `VmRank` order
  the places of `run_job` and the calls of `create_job_domain` and `teardown`; a step
  of any job, handler or guest leaves a task where it is or takes it further, and
  the same for its machine. A task takes at most 13 steps and its machine 12.

The assumptions are those of the modules: at least one thread, `Faults` among
the known kinds, and results, errors and the two null values distinct.

None of the properties is inductive alone: that a leftover is explained depends
on what each call of create and teardown has already done, that in turn on where
the task is, and what the channel holds depends on both. `IInv` ties them
together: `HostTracks` (what exists on the host at each call of the VM
sequences), `TaskTracks` (which of those calls go with which place of the task),
`RetKnown` (what the task is going to return), `TrackerTracks` (which statuses go
with it, and that the sender is there exactly until the outcome), `ChannelTracks`
(how many events may have been sent, and where an outcome can be),
`Watching` and `ReceiversTrack` (receivers stay within the channel and count what
they deliver). Each action disturbs one group, so preservation is proved per
group (`HostPreserved`, `TaskPreserved`, `TrackerPreserved`, `StreamPreserved`),
over lemmas about the tracker's operators and the tables of statuses. `NoLag`
uses the bound of six events to show that the skip in `ReadPosition` is never
taken.

`BootstrapProofs` proves, for any set of tasks that dial one agent, any choice of
faults and any number of reboots, from `BootstrapAssumption` (the empty string is
not a task, the faults are among the known kinds, the bound is a number):

- `ExchangeInvariant`: `BSpec => []BInv`, which contains `BTypeOK`;
- `ConnectedToOwnAgent` (`OwnAgent`), `ServedCertsMatch` (`ServedTogether`) and
  `AcknowledgedSwitchSticks` (`SwitchSticks`), each from `BInv`;
- `ServedCertsAreFrozen`: the action property `CertsFrozen`.

That a connected task has its own agent follows from what happened before the
mTLS server was configured, when calls of all tasks interleave. `BInv` keeps it in
three groups: `AgentTracks` (CA and key come from the same `request_csr` unless
one has panicked, and what is served is what the state holds, from the moment the
lock is taken), `CallsTrack` (a handshake that got through was with a certificate
the task signed, and an answer to its hello means that its CA is trusted), and
`ExchangeTracks` (while nobody else has asked for a CSR, the agent holds exactly
what this task gave it). Preservation is proved for the agent's main function, for
the handlers, for the callers and for the guest's faults separately.

`ViewProofs` proves the rest of `Controller`'s safety, under the assumptions of
`ControllerProofs`:

- `LifecycleIsImplemented`: the refinement `ImplementsLifecycle`. `phaseBar` and
  `toldBar` are functions of a job's entry and of its channel; every step moves
  them for one job as an action of `JobLifecycle` does, or leaves them alone. The
  steps are sorted by how they write the tracker: a stage announces a status
  (`StageMoves`), a task publishes its outcome (`OutcomeMoves`), the other steps of
  a task touch neither (`TaskMoves`), the handlers submit and cancel
  (`HandlerMoves`). `IInv` supplies that the sender is still there when an
  announcement is made, and that no outcome was sent before.
- `ViewInvariance` (`ViewInv`) and from it `PagesAgree` (`ViewAgrees`). That page and
  API agree relates the two ends of a channel, so the invariant follows it from
  one end to the other: `StatusTracks` (the last event with news about a job says
  what its entry says), `ShownTracks` (an open page shows the last event it could
  display of those it has read) and `ClosedTracks` (a page that closed its source
  has seen the result).

`AnalysisProofs` proves, for any choice of guest faults, any set of exit codes and
any bounds on calls and command connections (`AnalysisAssumption`):

- `AnalysisInvariant` (`AInv`) and `AnalysisTypes` (`ATypeOK`);
- `ReportIsComplete` (`ReportComplete`), `ExitCodeIsTrue` (`ExitCodeTrue`),
  `SampleIsStopped` (`SampleStopped`), `MonitorIsKept` (`MonitorStays`) and
  `HangOnlyIfMissed` (`JoinHangsOnlyIfMissed`), each from `AInv`.

What holds at the end of `run_analysis` was decided several steps earlier by
another thread. `AInv` says what each step can count on: `SampleTracks` (what the
sample can be doing, and that it is not running past the poll loop unless it
could not be terminated or not be opened), `HandleTracks` (whose the handle is, and
whether the poll loop has seen the sample through it),
`CommandTracks` (from the nudge on `do_run` is off, and a thread that still waits
for a client when it is joined was missed), `LogTracks` (what was read is
collected, and a reader that ended in order has read everything), `AnswerTracks`
(the report was made from what was collected). Preservation is proved for the
main thread, the poll loop, the command thread, the reader and the guest
separately.

`SessionProofs` proves first of `Upload`, for files of any length, any positive window and any choice
of faults (`UploadAssumption`), `UploadInvariant` (`UInv`), `ChunksStayInOrder`
(`InOrder`) and `AcknowledgedIsWhole` (`AckMeansWhole`). `InOrder` is about the file
alone and not inductive: `InFlight` says that file, wire and channel continue
each other without gap or repetition, `Bounded` that channel and window keep
their limits, `HandlerTracks` that the agent acknowledges only after the reader has
ended and everything it read has come through.

It then proves of `Session`, from the assumptions of both components,
`SessionInvariant` (`SInv`), `ResultIsOfSample` (`ResultOfSample`),
`AcknowledgedIsFound` (`AckedIsFound`) and `EmptyResultIsExplained`
(`EmptyResultExplained`). `SInv` is `UInv`, `AInv` and `SessionTracks`, which says how
the two follow each other: the analysis has not begun before the
acknowledgement, it looks for the file where the upload left it, and the result
is its outcome. The components' own preservation lemmas are used as they stand;
`UploadIsOver` shows that an acknowledged upload leaves the file alone, whatever of
it still runs, and `AnalysisIsOver` that the outcome stands once there is one.

`SessionUploads` proves that `SSpec` implies `USpec`: within a session the upload
takes only the steps of `Upload`. (`ASpec` is not implied in the same way: the
session sets `file`, whether the sample is where the analysis looks for it.)

Three theorems are the part of termination that needs no fairness.
`AnalysisIsFinite`, `UploadIsFinite` and `SessionIsFinite` give each specification a
measure, prove that it stays a natural number and that every step that changes
anything lowers it. There is then no infinite run of steps, however the threads
interleave, whatever the guest or the network does: `AnalysisEnds`, `UploadEnds`
and `SessionEnds` can fail only by a wait that is never over, and that the waits
are over is what fairness and TLC are for. `UploadLeft` counts the chunks not yet
read, queued and on the wire, the ends of the four actors and the link: an upload of n
chunks takes at most 3n + 8 steps. `AnalysisLeft` weighs a step of `run_analysis`
or a new command connection above everything it can set going again in the
command thread, the reader and the sample. `SessionLeft` adds the job and the
stream between the two programs. The measures, `NeverBack`, `RInv`, `PInv` and
`LInv` were checked with TLC on the instances of the runs before they were proved.

`LogProofs` proves, for any documents that satisfy `LogAssumption` (which documents
exist, what fields they have) and logs of any length, `LogInvariant` (`LInv`),
`CollectorHoldsTheLog` (`CallsAreTheLog`) and `PanicIsABreach`
(`PanicsAtFirstBreach`). The properties speak of positions in the log, the code
of a hash map: `RegistryTracks` says that the map holds, for each index, the
latest announcement among the documents read, and `InForce` that the schema of a
call comes before it. `CallsAreTheLog` is stated with an increasing enumeration of
the positions of the calls, as the prover cannot use `SelectSeq`, which is
recursive.

`PageProofs` proves, for any set of jobs and whether requests can be lost or not
(`PageAssumption`: no job is null or one of the two states of the upload button), `PageInvariant` (`PInv`), `LineStaysCurrent`
(`LineIsCurrent`) and `BoxStaysRight` (`BoxIsRight`). The two are inductive together
with `IdsTrack` (the two globals change together, and to jobs that exist) and
`FetchesTrack` (only an announced result is fetched).

`ReportProofs` proves, for any set of pids, any calls of `register_process` and
any files (`ReportAssumption`: a pid is a positive number, a length and an offset
are numbers), `ReportInvariant` (`RInv`), `TreeIsComplete` (`TreeHoldsAll`) and
`TypeIsDetected` (`TypeIsRight`). The tree is built once, from a table that grew one
call at a time, so `RInv` says what a call keeps. Of any calls: `TableOK` and
`RegsTrack` (table and history agree). Of orderly ones, `FamilyTracks`:
`OrdersTrack` (a parent was seen before its child), `LinksTrack` (a process has one
link if it has a parent, and the link says so), `Rooted` (a set of processes that
holds the roots and with a process its children holds all) and `Founded` (going
down from a process comes to an end, so `build_node` returns). `Rooted` and
`Founded` state reachability and its absence of cycles over sets and not along
paths: a call extends them by one process, and no induction over the tree is
needed. `BuiltTracks` carries them to the report.

`UInv` is model-checked as a part of `SInv`; the parts of `PInv` and `LInv` that are
properties of their own are model-checked as such.

Only model-checked: liveness (`JobEnds`, `OutcomeReachesPage`, `AnalysisEnds`,
`ExchangeEnds`, `UploadEnds`, `SessionEnds`, `ResultIsShown`), as the prover does not
reason about fairness. Every invariant and action property of the passing runs is
a theorem.

## Not modelled

- Volatility: no code calls it. Configuration: one file read at start. The
  protobuf code is generated, the domain templates are data.
- Operations nothing calls: `get_state`, `dump_memory`, `get_filepath`,
  `set_terminate_event`, `tracked_pids`.
- Formatting: the domain XML, the monitor's config file, the JSON of the report,
  how `bson_to_string` writes a value, the page's log pane. `server_ip_addr` of
  the agent is only printed.
- Random MAC addresses and a lease left by an earlier machine; the fields of the
  certificates; which of the two loaders is used for a sample.
- `MonitorState`'s random pipe names are taken to be different in every analysis.

## Plan

What can be modelled faithfully is, and every safety property of the runs is
proved. What is left is liveness: the measures show that nothing goes on for
ever, and that no step waits for ever is checked on the instances alone. A change
of the code should be followed into the action that models it, the properties
checked with TLC and the lemma of that action proved again.
