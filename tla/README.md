# claude-print: TLA+ models and proofs

`claude-print` runs one prompt through an interactive `claude` process on a
pseudo-terminal and prints the answer, with an optional daemon
(`claude-print serve`) that keeps such processes warm. All of it is under
`src/src/`. This directory holds models of its concurrent parts, the TLC
instances that check them, and TLAPS proofs of what matters most.
`PROJECT.json` maps each definition to the lines it stands for and lists the
runs, the mutants of each property, the hazards and the findings.

    tlc -workers 2 -config WarmPoolSafety.cfg MCWarmPool
    tlapm WarmPoolProofs.tla

## 1. Inventory

| component | state it keeps | operations | what makes it correct |
|---|---|---|---|
| pool manager, daemon (`pool.rs`, `main.rs`) | map of workers and their states, warm-up channel, shutdown flags, lock | maintain, warm-up outcomes, acquire, look up, send, release, shutdown, cleanup | one client per worker, none half warmed, never above the target, every process reaped at the end |
| warm-up of a worker (`pool.rs` 640-903) | phase, a raw copy of the master, its own poll loop | poll, answer probes, dismiss the dialog, settle, notify | one notification, always; handed out settled and to nobody else's keys |
| worker teardown (`pool.rs` 369-500) | the child, its group, its descriptors | hang up, SIGTERM, grace, SIGKILL, reap | returns with the child reaped and its group empty; signals no number it does not hold |
| pool socket path (`pool.rs` 939-1075, 1400-1441) | node at the path, identity bound | stat, remove, bind, chmod, stat, unlink | a restart serves, an end removes its own node only |
| pool client (`pool.rs` 1457-2109) | connection, frames received, what was assigned | connect, request, read, receive the descriptor, fall back, release | within its budget; falls back only if no worker was assigned |
| main (`main.rs`, `cli.rs`, `config.rs`, `prompt.rs`, `check.rs`, `error.rs`) | where it is, the prompt, the settings, what was said, the exit code | modes, self-test, read and check the prompt, load and resolve settings, acquire, drive, emit, exit | what is driven was checked; nothing left behind; an end; one result line that agrees with the exit code |
| session driver (`session.rs`, `event_loop.rs`) | poll loop, startup phase, verdict, child | poll, chunk, tick, inject, verdict, kill, drain, release | one verdict that names its cause; child reaped; reader joined; worker given back once |
| watchdog (`watchdog.rs`) | deadlines, `timeout_fired`, its type, a copy of the self-pipe | check four deadlines, kill, store, wake | a deadline ends the session; none is armed that nothing can satisfy |
| startup handshake (`startup.rs`) | phase, capture, clocks | feed, poll timers, scan, dismiss, refuse, inject | no key confirms a refusal; the prompt reaches the REPL |
| terminal emulator (`terminal.rs`) | partial sequence, answered set | feed | each probe answered, once, however its bytes arrive |
| stream-json reader (`emitter.rs`) | bound file, position, three channels | bind by identity or alone, tail, retarget, drain, exit | each line once, none of another session, all of ours after a drain |
| answer (`poller.rs`, `transcript.rs`, `emitter.rs`) | payload, fold over the lines, retries, message | read the FIFO, parse, resolve, parse the transcript, retry, fall back, strip, emit | text of the last turn, tokens once per turn, an error stays one |
| relay directory (`hook.rs`, `session.rs`) | temporary directory, FIFO, settings | install, furnish, remove at three places, sweep and scan of dead owners' | only the dead's are swept, the dead's are reclaimed, an exit removes its own |
| trust file (`session.rs` 1528-1662) | `~/.claude.json` | read, merge, write beside, rename | nothing of the user's is lost |
| PTY (`pty.rs`) | master, child | spawn | in the driver's and the teardown's model |
| tracing (`verbose.rs`), test fixtures | none that changes | logging | not modelled |

How they interact: `main` sweeps old hook directories, reads its configuration
and prompt, and either asks the pool (client to daemon over a Unix socket; the
reply carries the PTY master as a descriptor) or runs a session of its own.
A session owns the main thread's poll loop over the master, the self-pipe
(written by signal handlers and the watchdog) and the Stop FIFO (written by a
hook of the child); the watchdog and the reader are threads with shared atomics
and channels. In the daemon one mutex guards the manager; connection threads
and warm-up threads take it in turn, and the main thread accepts, maintains and
shuts down.

The hard behaviours are: what a thread does after it dropped the lock; the
order of the watchdog's kill, its two stores and the hang-up they cause; Stop
payloads, exits, signals and deadlines that arrive together; a screen read
while it is painted; files read while they are written; numbers (descriptors,
process groups, nodes) that the system gives out again; a daemon that stops,
restarts or fails between two writes. The list, each at its line, is in
`PROJECT.json` under `hazards`.

## 2. Plan

Done, in this order, the most important first:

1. `PoolContract`, `WarmPool`, `WarmPoolProofs`: the daemon.
2. `WorkerTeardown`: one teardown in full; `WarmWorker`, `WarmWorkerProofs`: a
   worker's whole life around it, and the theorems about both.
3. `SessionDrive`, `SessionDriveProofs`: a drive and its watchdog.
4. `TranscriptReader`, `TranscriptReaderProofs`: the live reader.
5. `PoolClient`: the protocol, from the client; `Dispatch`, `DispatchProofs`:
   the invocation around it, from main to exit, and the theorems about both.
6. `StartupSeq`, `TerminalEmu`, composed by `Handshake`; `StartupProofs`: the
   TUI's start.
7. `TranscriptRead`, `Emission`, composed by `Answer`; `AnswerProofs`: from Stop
   to the exit code.
8. `PoolSocket`: the socket's path; its theorems are in `WarmPoolProofs`.
9. `RunFiles`, `RunFilesProofs`: relay directories and the trust file among
   several invocations.

To come:

10. `WarmWorker` as an implementation of the one-step warm-up of `WarmPool`.
11. Process numbers that are used again in `SessionDrive`, for the detached
    watchdog.

## 3. The modules and the code

**WarmPool.** A critical section of the manager's mutex is one action; what a
thread does after dropping it is an action of its own. `handle_acquire` is thus
`AcquireWorker`, `GetWorker`, `SendAssignment`, with everything else free to
run between. A worker's warm-up is one outcome per thread, and teardown is
inside the action that calls it, because `destroy_worker` runs under the lock
and returns reaped. Descriptors are numbers that are given out again, so that a
stale copy can be told from a fresh one. `PoolContract` says what the pool
promises without threads or locks; the run checks it with a refinement mapping
(`ImplementsContract`).

**WorkerTeardown.** Every system call of `destroy_worker`,
`signal_worker_group` and `kill_surviving_group` against a process tree that
forks, ignores SIGTERM, leaves its group, outlives its leader or has not called
`login_tty` yet, and a kernel that gives a free number to a stranger. The
variable `in_grace` says whether the child became a group leader before the
grace was over; what is claimed of the group is claimed where it did.

**WarmWorker** extends it to the worker's life. The warm-up thread is
`warm_worker_to_outcome` over `EventLoop::run`: a pass is the poll, the chunk
callback and the tick callback, and any of the daemon's steps may fall between:
the receipt of the notification, the hand-out, the release, the shutdown, and
each step of the teardown, which closes the descriptor the thread polls. The
startup sequencer is reduced to its phases; that a quiet window ends only while
the thread polls is assumed. A closed number is not given out again here;
`WarmPool` covers its reuse by other workers.

**PoolClient.** The client's steps up to the drive and the release, against a
handler that writes its three pieces, may fail between them, may be of another
version, and may be stopped. `Fruitless` is a read that can bring nothing any
more: the peer has closed, or the budget is over. It is the specification that
`Dispatch` is proved to implement.

**Dispatch** is `main`: home directory, mode, self-test, prompt, config,
settings, acquire, drive, exit, in the order of the code. An option of the
command line is chosen where main consults it. The input file is somebody
else's: it may change between `resolve_input_file` and the read. The self-test's
mock child may hang. So may `claude --version`, which main runs before it says
an error (stage `version`, with what it `owed`) and either session before it
drives (stage `launch`), a pooled one with its worker in hand. The drive itself
is one of its outcomes.

**Emission** is a module of operators: the kinds of error, the exit code, and
what is written where in each format. `Dispatch` and `Answer` use it.

**SessionDrive.** One pass of the poll loop is the poll, the chunk callback and
the tick callback, in the order of `EventLoop::run`; each store of the watchdog
is a step. `kill_child` is inside its caller's step: it returns reaped.
The constant `Drives` is a set of records, one of which each behaviour drives:
whether it is `Pooled`, the deadlines `Enabled`, and how bad the child is
(`Stubborn`, `Detaches`, `LargePrompt`) or the system (`DupFails`).

**TranscriptReader.** Three ways of binding, the retarget, the check of the
identity after the binding, drain and disconnect. A line is two halves so that
it can be seen torn, between two characters or within one. In the latter case
`read_line` fails on either half: what it took is in `lost`, and a reader that
is draining stops there.

**StartupSeq.** The sequencer's phases, its capture (bounded, oldest dropped),
its scan (dialog, caret, trusting entry, keys to send) and its clocks, against
a TUI that paints a banner and then frames of a dialog line by line, repaints
them as often as it likes, and reads keys only when a frame is up. The bytes
received are counted up to the threshold they are compared with, so that no
bound on the painting is needed. Escape stripping and wording are left out:
a line is the word it is classified as. The quiet time is a rung, one for each
number the code compares it with. The variable `stalled` remembers that the TUI
was silent for 400 ms with more to paint; the code takes that silence for the
end of painting, so what is claimed of the keys is claimed of a TUI that did
not stall.

**TerminalEmu** is `TerminalEmu::feed` as a recursive function on bytes, and
**Handshake** puts both before one TUI, as `on_output` does: it sends a burst of
queries that reads cut anywhere, and paints nothing until each is answered.
What it `Asked` is read off the burst itself: a kind is asked for where an ESC,
a `[` and the bytes of its probe stand, whatever stands around them.

**TranscriptRead.** A line is what `parse_transcript` tells apart: type, id,
usage, whether it has text, whether it reports an error. The fold is the
code's loop, a recursive function on the lines read; the child may still write up to `Lag` lines, one of them in parts.

**Answer** is what surrounds it: the relay's `cat` writes the payload in pieces,
the event loop reads until nothing is there for the moment, the payload is
whole or torn, `strip_ansi` runs over classes of bytes, and main emits and
exits. The payload's message is stripped wherever it stands in, as the answer
or, after a turn flagged as failed, as the account of the error
(`from_fallback`), and may abort the process either way.

**PoolSocket.** One system call per step on one path, over several lives of
two daemons and of somebody who puts files there. A node's number is given out
again once nothing names it and no listener holds it. The variable `disturbed`
remembers that two daemons lived at a time, or that a file was put at the path
between two system calls of one. Somebody's file is one that can be removed,
one that cannot (`fixed`: a directory or, in a sticky directory such as `/tmp`, where the
default path is, another user's file), or a symbolic link to nothing, which
`exists()` takes for an absent file and `bind` for one that is there. The
directory is one the daemon may write to.

**RunFiles.** Several invocations (sessions with and without the trust grant, a
daemon and a client that borrows its worker's FIFO, sweepers, `--check` with
and without `--clean`), each a system call at a time, killed or signalled
between any two, over a small set of process numbers that other programs use
too. A directory is named by the run that made it; what the sweep goes by is
the number in its name and its age. The removal of a run's own directory is
tried at three places of the code (`Stages`), and the file system may refuse it,
as it may refuse a sweep, and the rename of the trust file.

External definitions, modelled from how the code uses them, are the operating
system (processes, groups, nodes, FIFOs, sockets), the child and its TUI, and
the clients' environment.

## 4. The runs

Passing runs, what they ask, their bounds, and why the bounds do:

| run (cfg) | question | bounds |
|---|---|---|
| warm_pool_safety (WarmPoolSafety) | the pool's safety and its contract, with signals, failing warm-ups, spawns, accepts and clients | 3 workers, 2 clients, target 2, 3 descriptors, 1 failed spawn: a third worker is needed to replace one while two requests cross; symmetric |
| warm_pool_live (WarmPoolLive) | warm-ups and releases resolve, the pool stays within and comes back to its target, a signal ends it | 3 workers, 1 client, target 1: a worker lost to its warm-up, one to the client, one to top up with |
| warm_worker (WarmWorker) | one notification, hand-out whole, no dead worker settled; teardown's safety and its end, against the warm-up thread | 2 descendants, each in the group, in a group of its own, or away |
| dispatch (Dispatch) | what is driven was checked, nothing is left behind, fallback and whole assignments, every invocation ends that waits for neither its input nor `claude --version` | all frames, backlog full or not; a limit of 1 byte, so that at, below and above it are told apart; 2 settings |
| session (Session) | verdicts, reaping, release, and that the timeout or a signal ends a drive | finite without bounds; two drives with the worst child there is, spawned and pooled, and three tame ones for the liveness |
| reader (TranscriptReader) | what is forwarded; the join returns | own, sibling's and old file, 2 lines: one line before and one after each rebinding |
| startup (Handshake) | keys and prompt; each probe answered; the startup ends | 4 dialogs or none, 2 banners, any number of frames, a capture of 5 lines: shorter than two frames, so that the first is dropped; one burst with every probe, cut at every byte, and a longest sequence of 6 bytes |
| answer (Answer) | text, tokens, errors, fallback, escapes, exit code | every transcript of up to 3 lines, 2 retries, 2 unwritten lines, 2 pieces, 2 reads, a message with each kind of sequence |
| socket (PoolSocket) | restart, reach, clean end; files of others, removable or not, and dangling links | 3 lives of 2 daemons, 3 nodes: one crashed, one replaced, one bound |
| run_files (RunFiles) | sweeps spare the living and reclaim the dead; exits remove; the trust file merges | 3 invocations in five casts, 3 process numbers: one directory's owner dead, one alive under the same number, one sweeping; any number of refused sweeps, 1 refused removal at an exit (that the retries are exhausted is in the theorem only) |

Two runs state what a comment or a test says and the code does not do
(`findings` quotes each line):

| run (cfg) | what happens |
|---|---|
| warm_pool_signal_exits_zero (WarmPoolSignalExitsZero) | a shutdown between `acquire_worker` and `get_worker(..).unwrap()` panics in a handler thread: the daemon aborts instead of exiting 0 |
| answer_strip (AnswerStrip) | an ESC before a character of several bytes takes its first byte along: the rest is no UTF-8 and the process aborts with the answer in hand |

Every property of a passing run has a mutant: a definition with a plausible
mistake under which the run finds the property violated.

## 5. Fairness

Weak fairness is on the program's own threads and on the passage of time, which
no adversary can hold: the daemon's loop ticks whatever arrives, its threads
are scheduled, `poll` returns after 50 ms, deadlines come. What others do
(clients, the child's output, its Stop hook, signals, a stranger) has none.
The exceptions are stated by the code's own reliance: `ObeySigterm`, for drives
whose child honours SIGTERM (`Tame`), the kernel's delivery of SIGKILL
(`Reap`), and the child's `login_tty`. In `StartupSeq` the TUI finishes its
first frame and attaches its input in the end; it may fall silent at any point
before, and repaint for ever after. In `Dispatch` a drive once begun ends
(`SessionDrive` says of which drives this is so), and a write to stdout or
stderr returns; standard input, special files and `claude --version` need never
end. In `RunFiles` every process gets to run, time passes, and the sweepers among the
invocations start: nothing is reclaimed where nobody calls. No run relies on
strong fairness, and `Answer` and `PoolSocket`, of which only safety is
claimed, assume none.

## 6. What is proved

For any constants that satisfy the named assumptions of the modules:

* `WarmPoolProofs`: `Inductive` (`Spec => []IInv`), and from it `TypeCorrect`,
  `OneRequest`, `NeverHalfWarmedHolds`, `PoolCleanupHolds`, `RawDescriptor`,
  and the action property `Orphans`. `OneRequestPerMember` is not inductive:
  a handler between its two locks holds a worker no client has yet, so
  `AssignInv` ties each handler's worker to its state; `WarmupInv` says which
  states a pending outcome can meet; `DescriptorInv` that descriptors in the
  map are distinct, with `RemovalInv` for what was removed. On top of it
  `ImplementsContractHolds`: the daemon refines `PoolContract`. An acquire is a
  hand-out because its client holds nothing yet (`FirstInv`) and its worker was
  nobody's (`AssignInv`); a tick stays within `--pool-size` by a count of what
  was active and what it spawned (`KeptAfterTick`); the abort of a handler is a
  stutter because it finds its worker gone only once the pool is closed.
  The same module proves the socket's path safe: `StartServesTheorem` and
  `CleanupRemovesOwnTheorem`, for any number of daemons, lives and nodes. What
  is said of them while nothing disturbed them follows from `AloneInv`: one daemon at
  a time is alive, and at each of its system calls it relies on what the path
  is. A start serves whatever a crash left; where it fails, the path holds a
  file that cannot be removed or a dangling link, and keeps it.
  A node's number is given out again, so `cleanup`'s comparison of numbers is
  sound only with its look at the type of the node.
* `WarmWorkerProofs`: of the teardown, type correctness; that the child is reaped
  on return, its bare number is signalled only while it is pinned, and, if
  `login_tty` ran within the grace, no member of the group is left: its `IInv`
  carries, for each place of the procedure, what is known of the child and the
  group there. Of the worker, `WarmWorkerTearsDown`: every step of its life is
  one of its teardown or leaves it alone, so that those theorems hold of it
  (`ReapedTheorem`, `PinnedTheorem`, `GroupTheorem`). `HandedOverWholeTheorem`
  ties what the daemon has received to where the thread is and what it typed
  last; `SettledWhileOpenTheorem` (`HungInv`) has the tick of a pass see the
  hang-up its own poll found, so that quiet after a hang-up is not taken for
  having settled.
* `DispatchProofs`: no fallback with a worker assigned, no drive without a whole
  assignment: `Answers` says what the wire can hold when the handler is at each
  of its writes, `Verdicts` what the client knows at each of its steps.
  `DispatchImplementsClient`: a whole invocation refines the client, from which
  `HoldsTheorem` follows. `DrivenAsCheckedTheorem`: what is known of the prompt
  and of the settings at each stage of main. `LeavesNothingTheorem`, from
  `LeftInv`: a client not started yet has no thread in the daemon that could
  assign it a worker, exit code 4 is the prompt's alone and no error's that
  waits for the version of claude, and the self-test's
  child and FIFO exist during its round trip only.
* `SessionDriveProofs`: a drive names its true cause, leaves nothing running,
  gives a pooled worker back once, and arms no deadline a drive cannot meet.
  `DogInv` says that a byte in the self-pipe is a signal's or that of a timeout
  already recorded, `LoopInv` what the loop knows at each of its places,
  `ReaderInv`, `PoolInv` and `CreditInv` the same of the reader, the worker and
  the credit for the prompt.
* `RunFilesProofs`: for any number of invocations and any reuse of process
  numbers, `SparesTheorem` (a verdict of the sweep cannot go stale, since a run
  that made a directory never starts again), `ExitTheorem` (an account of the
  refusals each stage of the cleanup has met) and `TrustTheorem` (no two live
  runs share a number, hence a tmp file; a rename that fails leaves the file).
* `TranscriptReaderProofs`: `DrainedTheorem` and `ForwardedOnceTheorem`, under
  the assumption, in the theorems themselves, that the Stop payload and the
  identity file name the same transcript; where they do not, the reader follows
  one and then the other, and no claim is made of what it forwards. By
  `WholeInv` what lies behind its position is forwarded or `lost`, and a drain
  ends at the end of the file or behind a lost half, which is what the code
  does and less than its contract promises (section 8). `TailInv`
  says that it never tails a file that was already there, nor before that
  file's snapshot; `OnceInv` that what it forwarded of the file it tails lies
  before its position, and that it does not leave its own file once it has read
  of it.
* `StartupProofs`: `KeysLandAsMeantTheorem` and `TrustableIsNotRefusedTheorem`.
  `HandshakeInv` says that, unless the TUI was held up, the capture ends with
  the part of the frame that is on the screen, and, once it is quiet, with a
  whole frame whose TUI reads keys; what a scan finds last is then of that
  frame and of no earlier one. The
  hypothesis `DialogFits`, that the capture holds a whole frame, is what the
  comment on `CAPTURE_MAX_BYTES` (startup.rs 22-25) asks of its size.
  `ProbesAnsweredTheorem`: by `Knows`, the emulator holds exactly the sequence
  the burst has open and has answered exactly what ended before, so that what
  ends a probe in the burst ends it there too, however reads cut it. Its
  hypothesis `NoneSwallowed` is needed: `feed` clears an overlong sequence
  together with the byte that makes it so, even when that byte is the ESC of a
  probe (terminal.rs 69-72).
* `AnswerProofs`: `ExitTellsTheorem` (exit 1 is a failed turn's whose message
  did not abort the strip, 134 that of a fallback, failed or not, with nothing
  said) and `ParseTells` for every transcript: the
  fold of `parse_transcript` is told by the lines it read (`Told`), shown by
  considering the least number of lines where it would not be (`ParseUnfolds`
  takes one line off). `FinalTurnTextTheorem` and `ErrorReportedTheorem` hold
  of transcripts whose turns are not mixed (`Unmixed`): with lines of one id on
  both sides of another's, `parse_transcript` joins text of two turns.
  `FoundInv` and `FoldInv` carry what a reading found while the child writes
  on, `ExitInv` what main says of it. `StripTakesEscapesTheorem`: a message is
  scanned part by part, since what is behind a part is scanned as from the state
  that part left (`ScannedOn`); a whole escape sequence leaves the scan in text
  with nothing appended (`EscapeScanned`). It is claimed of a message of text
  and whole sequences, of which the last may be cut short (`WholeSequences`);
  an ESC that begins no sequence takes a byte of the text along. Of such a
  message no answer is lost to the strip either (`StripKeepsUtf8Theorem`), which
  says where exactly the comment that `answer_strip` refutes is right.

Each invariant follows the same way: `Init => IInv`, a lemma per process or
action for `IInv /\ [Next]_vars => IInv'`, and `IInv` implies the property.
Statements about recursive functions go by the least natural number where they
fail, since the library's induction rules cannot be instantiated here.

`WarmPoolAssumption` asks that `NoWorker` be neither a worker nor a client,
`TranscriptReaderAssumption` that the name for "no file" be no file's, and
`TerminalEmuAssumption` that `MAX_PROBE_LEN` holds the longest probe. Each of the
hypotheses on constants is satisfied by the instance its run checks, `Unmixed`
and `NoneSwallowed` among them. `WholeSequences` is about one state: the run of
`Answer` reaches messages it holds of and one it does not, a lone ESC.

Only model-checked: what is to happen in the end (`TopsUp`, whose bound is also
part of the contract, `SignalEnds`, `SlotsResolve`, `DeadlineOrSignalEnds`,
`JoinReturns`, `WarmupEnds`, `DestroyEnds`, `InvocationEnds`, `StartupEnds`,
`OrphansReclaimed`), since liveness under fairness is out of the prover's reach,
as is `ENABLED`.

## 7. Limits

* In `WarmPool` a warm-up is one outcome, and in `WarmWorker` there is one
  worker; that the second implements the first is not shown (section 2, 10).
* Process numbers are not recycled in `SessionDrive`: a watchdog that outlives
  its drive is not seen to signal a stranger, a hazard (watchdog.rs 379) that no
  property covers yet (section 2, 11).
* `StartServes` and `CleanupRemovesOwn` are claimed of behaviours undisturbed so
  far, in a directory the daemon may write to; `KeysLandAsMeant` and
  `TrustableIsNotRefused` of a TUI that did not stall; `StartupEnds` of one that
  falls quiet in the end; `DeadlineOrSignalEnds` of tame drives. What happens
  otherwise is in section 8.
* `InvocationEnds` excepts standard input and special files that never end, and
  a `claude --version` that never does: both are outside `--timeout`. That a
  drive ends is assumed there and shown, of tame drives, in `SessionDrive`.
* While bytes keep coming nothing but the session's own deadlines ends a startup,
  as the comment on `poll_timers` has it (startup.rs 310-313): a TUI
  that repaints without a pause, with no dialog to refuse or once the keys were
  sent, is never given its prompt, and the hard timeout asks for fewer than 200
  bytes. `StartupEnds` says exactly that of it.
* A removal that the file system refuses may leave part of a directory: the
  model keeps it as it was.
* `send_fd` writes the descriptor past a header structure on the stack
  (pool.rs 1371-1386). The model assumes it arrives or the transfer fails.
* Not modelled: JSON and TOML syntax, wording, logs (`verbose.rs`), the layout
  of result objects, environment set-up and ioctls of `pty.rs`, the test
  fixtures. The answer to the window-size probe is a kind of reply, not its
  numbers (section 8).

## 8. Known divergences

Where a comment or a document says one thing and the code does another, met
while modelling. The models follow the code; no run is kept for these.

Pool:

* A clean stop destroys workers that clients are driving (`shutdown_all`,
  pool.rs 907), where the README says clients mid-session finish.
* A release during the shutdown is served (pool.rs 364), where
  `docs/notes/pool-socket-protocol.md` says it is refused with `shutting_down`.
* A transfer to the client that fails leaves its worker in use with nobody
  (pool.rs 1298), where the client's comment (2093) says it leaks nothing.
* `connect` on a full backlog is EAGAIN, which is taken for pending: the socket
  is found writable and the request fails as a protocol failure (pool.rs 2001),
  where the comment says the attempt is unreachable and falls back.
* A client in the backlog of a daemon that stops reads the end of the stream
  and exits with 2 instead of falling back (pool.rs 1073).
* `kill_surviving_group` probes and kills a group number after the child was
  reaped, when the group may be empty and the number a stranger's (pool.rs 405).
* `cleanup` looks at the path and removes it in two system calls: a daemon that
  takes the path in between loses its socket (pool.rs 1439).
* `bind_socket` replaces what it finds only where `remove_file` succeeds and
  `exists` sees it (pool.rs 991-992): at a directory, at another user's file in
  a sticky directory and at a dangling link the daemon fails to start, where its
  comment (984-985) says that any leftover file is replaced.
* A Ready worker that dies is kept, counted, and handed out (pool.rs 340); the
  drive that gets it ends with `ChildExited`.
* An accept loop that fails ends the daemon with exit 2 and leaves its workers'
  relay directories (main.rs 65).
* A pooled drive's FIFO is in the daemon's directory: it is swept once the
  daemon is killed, while the drive still waits on it, where the comment of the
  sweep (hook.rs 12-16) has the live run's directory safe.

Main:

* SIGTERM between the installation of the relay directory and that of the
  handlers (session.rs 423-457), or after they are gone, ends the run by its
  default disposition with the directory in place, where `docs/plan/plan.md`
  (371) says they are installed before the fork and that the directory is
  removed, and session.rs 223-229 that the exit handler covers signals.
* An input file that grows after its size was checked is read and driven whole
  (main.rs 205). Reading standard input is outside `--timeout`.
* `claude --version` is waited for without a limit (main.rs 14-29, session.rs
  1403-1417), before `--timeout` begins to run: a `claude` that hangs there
  holds up `--version`, every session, and the report of every error but a wrong
  HOME; a pooled client holds its worker meanwhile.
* `--check --clean` removes directories by age without asking whether their
  owner lives; `docs/notes/clean-contract.md` says so.
* Two invocations, or one and `claude`, that update `~/.claude.json` at a time
  lose the earlier of two renames (session.rs 1573-1657); a crash between the
  write and the rename leaves `.claude.json.tmp-claude-print-<pid>`, which
  nothing sweeps.
* "All errors route through the Emitter" (plan.md 342) is not so of prompt and
  pool-size errors, which main writes to stderr itself.
* `defaults.max_turns` and `defaults.timeout_secs` are validated and never
  consulted; a pooled drive ignores `--model` and the other settings of the
  child; a fallback or pooled drive gets the whole `--timeout` after an acquire
  that has used up its own budget.

Session:

* An error of the transcript tail, or of `poll`, returns with the child alive
  and unreaped (session.rs 826; the plan's INV-2), and `kill_child` waits with
  the master open (1506; INV-4).
* A Stop written between the poll and the same pass's injection is accepted as
  the answer (session.rs 791), for the phase is asked after the loop.
* The watchdog kills before it stores `timeout_fired`, and stores that before
  the type: a child that exits at once makes the session report an internal
  error, or name the wrong timeout (watchdog.rs 459-464).
* The startup's hard timeout ends nothing (session.rs 620): the comment there
  has it handled after the event loop, and nothing handles it.
* A read of the FIFO that finds nothing for the moment takes what is there for
  the whole payload: a torn one loses the turn with exit 2 (event_loop.rs 99).
* A turn that speaks before it calls a tool, with its last line unwritten at
  Stop, has the text of the first round reported as the answer, the message of
  the payload unused: the loop retries only while there is no text at all
  (transcript.rs 281), where `tests/transcript_flush_window.rs` relies on it to
  absorb that window.
* A message whose stripping aborts the process does so after a turn flagged as
  failed, too (transcript.rs 137-139, 299): exit 134 with nothing said, where
  that turn is to exit with 1.
* A watchdog whose `dup` failed wakes nobody (watchdog.rs 369); a child that
  closed its terminal and ignores SIGTERM keeps the session in `waitpid`
  (session.rs 864); a prompt larger than the terminal's buffer keeps it in
  `write` (715, 1249). Each goes past every deadline.

Reader and startup:

* `open_with_retry` takes the drain value without reading the retarget that
  was sent first (emitter.rs 962), and the identity file overrides the Stop
  payload's path on the next idle tick (864).
* A line read before its end is written leaves as two records (emitter.rs 841).
  One torn within a character errs, and so does its second half: it is lost,
  and a reader that is draining stops at the error with the lines behind it
  unread (emitter.rs 927-938), where emitter.rs 283-285 and
  `docs/notes/stream-json-contract.md` (199) have everything forwarded until the
  tail has caught up with the end of the file.
* A repaint that pauses for 400 ms after its first line leaves the caret of one
  frame to be compared with the trusting entry of the one before, and the key
  sent confirms the refusal (startup.rs 478); a pause after the banner is taken
  for a startup without a dialog, and the prompt's carriage return answers the
  dialog painted later (394).
* A sequence of more than 32 bytes is cleared with its 33rd byte; when that is
  an ESC, the probe it begins is not answered (terminal.rs 69).
* The window-size probe is answered 24x80 in a session (session.rs 526) and 220
  rows by 50 columns in a warm-up (pool.rs 722), where `docs/plan/plan.md`
  (1118) and `docs/notes/terminal-probes.md` (22, 108) say the configured
  dimensions, or 220 columns by 50 rows.
