# TLA+ models of yggterm's session hand-off and shared-state protocols

yggterm keeps terminal sessions alive in a daemon, and replaces that daemon while
the sessions run. Its difficult code is the code that lets two processes share one
thing: a PTY, a screen, a JSON file, a browser profile. This directory models those
parts in TLA+, checks them with TLC on small instances, and proves their main
invariants with TLAPS for every value of the constants.

Paths below are relative to `src/crates/yggterm-server/src/` unless they say
otherwise. `PROJECT.json` gives the source lines of every definition.

## 1. Inventory

### The parts with concurrent or durable state

| part | state | operations | interacts through |
|---|---|---|---|
| PTY hand-off (`daemon.rs`, `pty_handoff.rs`, `pty_handoff_wire.rs`, `terminal.rs`) | PTY runtimes, parked readers, the locals of a sweep, settle watches, the successor's sessions | sweep, connect, verdict, commit of the descriptor, acknowledgement, settle watch, exit, adoption, stand-ins, shutdown, drain release | a Unix socket with SCM_RIGHTS; the runtime lock; the same PTY in two processes |
| Reader gate (`terminal.rs`) | two atomics, an eventfd, the reader's buffer and what its two decoders hold back (an incomplete character, an unterminated colour query) | park, unpark, poll, read, apply, quiesce, snapshot | atomics and a wake descriptor between the reader, the sweep and the settle watch |
| Output ring and seed stamp (`terminal.rs`) | vt100 screen, numbered chunks, injected-line floor, snapshot memo, client cursor | commit of a chunk, contract and stop lines, trims, stamped snapshot, read | the chunks lock, and reads of atomics outside it |
| Ownership ledger (`ownership_ledger.rs`) | `ownership-ledger.json` | record_handoff, save_exit_merge, lookup, prune, clear_satisfied | load / rename of one file by many processes, with no lock |
| Hot-restart queue (`hot_restart_queue.rs`, the retire poll of `daemon.rs`) | `hot-restart-queue.json`, and per daemon the attempt floor, remembered target and settled flag | declare a boundary, poll, self-clear, converge, attempt, enqueue | load / rename of one file; versions on disk and in memory |
| Web profile write lock (`profile_write_lock.rs`, `../../yggterm-shell/src/shell/state.rs`) | the daemon's holder per profile, the client's cached claim, open surfaces | acquire, preempt, release, reap, open, close, gate a verb | requests that may be lost or answered late; pids |
| Live-row tombstones (`live_row_tombstones.rs`, its doors in `daemon.rs` and `lib.rs`) | `removed-rows.json` and its lock, the state file, per daemon the live order, the baseline of the last persist and the walk under way | close, open, persist, boot restore, preserved owners, the import walks, the recovery sweep, re-arm | a file under a lock that is given up after a budget; peers' answers; death between any two steps |
| Mount loop and synth output fence (`../../yggterm-shell/src/shell/viewport.rs`) | the loop's cursor, the pending and the committed seed stamp, retained batches, the write bridge, what the page shows | fetch and prove a seed, read, retain, release, drop what is covered, re-attach, remount | two requests to the daemon, the page's acknowledgements, a frame timer |
| Socket names (`daemon.rs`, `socket_sweep.rs`, `lib.rs`) | versioned, retired and linger names, lock files and their flocks, listeners, the dead-sighting ledger | start, alias refresh, bequest and rollback, reclaim, exits, sweep, unlinks by clients | one directory, the kernel's socket table, flocks |
| Progressive migration and drain (`daemon.rs` 26947-27285) | idle clocks, pacing | judge idle, release one session | the hand-off's listener |
| Row order, repair and deadline | durable order of rows, interrupted-session record | merge, repair | load / rename by two daemons |

Everything else (GUI layout and rendering, core data types, transcripts, titles, the
remote and CLI front ends, the resource governor, automations, the OpenCode mirror,
the web engine supervisor, platform wrappers, `ynpm`, the application entry points)
is sequential data code, drawing, sampling or a thin layer over an external service.
`PROJECT.json` lists each with the reason it is not modelled.

### What is hard here, and what correctness means

* **One PTY, two readers.** A descriptor that was sent is in both processes. Two
  readers of a PTY split its bytes. Correct: at most one daemon reads a session,
  except in the windows the code cannot close; nobody kills a child another daemon
  serves; exit happens only when every session of the sweep is held elsewhere.
* **Bytes in flight.** Between the read and the screen a chunk belongs to nobody.
  Correct: a reader seen to have stood down takes nothing more, and the seed that is
  sent then has all it took.
* **A number read outside the lock it belongs to.** Correct: a snapshot never claims
  a chunk it does not show, and a client that follows the ring shows each once.
* **Files without locks.** Correct: a lost update may lose a record and may never
  invent one; the file stays bounded.
* **Retries shared by several processes.** Correct: each daemon's attempts are
  bounded by elapsed time and declared boundaries, whatever the others do to the file.
* **A lock whose holder caches it.** Correct: one writer per profile while the daemon
  lives and answers; a Shadow fails closed; nobody but the user takes it from a live
  holder.

* **A close that must stick.** Every daemon of a home may bring a row back. Correct: a
  recorded close stays in force until the user opens the row, it expires or the cap
  evicts it, and no automatic door lets the row in meanwhile.
* **A screen and a stream that overlap.** Correct: what a client drops because its seed
  covers it is on the page; nothing is painted out of order, and no failure of the seed
  leaves output behind the fence.
* **Names that lead to processes.** Anyone may unlink, rename or re-point a name.
  Correct: two daemons of a version are told apart by their lock, and a daemon that
  serves can be dialled again.

The hazards are listed in `PROJECT.json`, each at the line where it bites; those that
only a broken promise of section 4 is about are in its second table instead.

## 2. Modules

`X.tla` is a component, `MCX.tla` its instances for TLC where its constants need more
than a configuration file, `XProofs.tla` its theorems (those of ProfileLock and
SeedFence, the two components of the shell, are in `ShellProofs.tla`).
Each component keeps its counterparts of the code's names. Operators placed directly
before a definition with the words "Mutant" in their comment are altered versions of
it, used to see that a property would notice the corresponding bug; no action uses
them.

**PtyHandoff.** The predecessor's sweep thread (`hand_off_all_runtimes`) is a program
counter `pc` with its locals in `sweep`; `StartSweep`, `Dial`, `VerdictProceed`,
`RetryRefused`, `DropDuplicate`, `AckAdopted`, `FinishSweep` and the failures at each
point are its steps. It holds the runtime lock, so the request handlers
(`CreateSession`, `DrainRelease`, `TeardownRefused`, `Shutdown`) wait for `pc = "idle"`;
the settle watches (`WatchSuccessorDied`, `WatchWindowEnds`, `Exit`) do not take the
lock and interleave with everything. While any runtime runs, a parked one too, a
shutdown request writes a preserving hand-off and changes nothing modelled here;
`Shutdown` is therefore the teardown of a daemon without a running runtime. `conn` is
the one connection, with the bit that says whether the descriptor has been written (the
commit point of `send_session`). The successor binds its listener, becomes ready, serves
one connection (`ServeVerdict`, `ServeAdopt`), may still seat a connection the sender
has given up (`ServeLateAdopt`), and serves its own clients (stand-ins opened under the
same key, typed into or closed). Either process may die at any step and the successor
may be spawned again. Time is left out: a timeout may fire whenever what it waits for
has not happened. So are errors of the probe that asks whether a child runs.

**SessionOwnership.** What the hand-off promises of a session, without sweeps, sockets,
watches or crashes: a session is taken over only when its old reader is silent, is read
again by the old daemon only where the new one does not read, is killed only by a
holder, and otherwise is `disputed` until the old reader is silent. PtyHandoff
implements it: `ImplementsOwnership` instantiates it with the predecessor's runtimes
and unparked readers, the successor's adopted seats, and the two windows the code
cannot close (a commit without an acknowledgement, a watch that woke a reader) as the
disputes.

**ReaderGate.** One session at the grain of one atomic access or system call:
`Load`, `Store`, `Poll`, `Drain`, `Read`, `Count`, `Apply` for the reader;
`ParkStore`, `ParkWake`, `Quiesce`, `TakeSeed`, `Handed`, `UnparkStore`, `UnparkWake`
for the sweep; the watch's unpark; the successor's reader on the same PTY. `Apply` passes
a chunk through the two decoders, each of which may hold it back until a later one
completes it (`tail`, `query`). A reader whose descriptors could not be made has no
gate (`gate`, chosen in `Init`): it loads and stores the flags and reads on (`NoGate`).
PtyHandoff takes a park as one step; this module is what happens inside it.

**OutputRing.** The reader's commit in its steps (`Process`, `MintContract`,
`PushContract`, `Commit`, `Eof`, `ReadError`, `PushStopLine`), `TrimIdle`,
the three unlocked reads of `screen_snapshot_stamped` (`SnapKey`, `SnapFloor`,
`SnapRender`) with its memo, and a client (`Attach`, `Follow`). PTY text is a count;
`upTo[s]` says how many PTY chunks the first `s` ring numbers stand for, so "the
snapshot has everything up to its stamp" is an inequality. A session that prefers the
initial snapshot (`prefers`: remote agents and remote resumes) is attached with retained
chunks cut to a budget and no screen, and a screen without text (`blank`) is never sent;
`short` says that the client lacks chunks since, `missed` which numbers it passed unread.

**OwnershipLedger.** The load and the rename of each writer are separate steps, with
the file about to be renamed in `file[p]`. The ledger is a bag of records. Crashes,
loads that read nothing (missing, oversize, unparsable) and saves that fail are
included under `Faults`. `PidOf` lets two processes have one pid in turn.

**HotRestartQueue.** Each daemon's 20 s retire poll is a program counter with its
locals in `frame`; `StartLane` takes `now_ms` and `LoadQueue` loads the entry, as two
steps, because the code reads them in that order. `ConvergenceTarget`,
`AttemptIsDue`, `LocalFloorIsOver`, `HigherTarget` and `LingersOnFailure` are the
functions of the same purpose in the code. `Accepted` and `Refused` are the two
outcomes of asking for a successor; whether one appears is left to `Boot` and `Die`.

**ProfileLock.** The daemon's table (`Acquired`, `Released`, `Reaped`), the reconciler
(`AskCached`, `Ask`, `AskErrs`, `Open`, `EndTick`, `CreateFails`, `Close`) and the
Shadow's gate (`Check`, `Inject`), with process death, reuse of a pid, lost requests
and a restart of the daemon. An acquire that errs may or may not have been applied.

**RowTombstones.** Each daemon is a program counter with the locals of its operation
(`copy`, the file as it read it; `cache`, the closes a walk refreshed; `rows`, the rows
the operation is about). Reading the shared file and writing it back are two steps, with
the lock or without it, and a reading is what the file has or nothing (`Readings`: a
file that cannot be read or parsed reads as empty); `Record`, `Touch`, `Gc`, `Clear` and
`EvictOverCap` are the pure functions of `live_row_tombstones.rs`. Opening, closing and
persisting, and each door by which a row comes back (`BootRestore`, `RestorePreserved`,
the walks `WalkBegin` to `Import`, `Sweep`), ask the file where the code asks it. Ages
count ticks up to the time to live; no operation spans a tick. The removal of a row
after its close was recorded may fail (`RemoveRow`), and the row then stays live.
History variables say what was recorded closed, what arrived, what the user opened,
which closes a door did not get to read (`recent`), and which ones a write changed
without having read them (`Overwritten`).

**SeedFence.** The mount loop is one task whose branches are the actions: `SeedArrives`,
`ProofAnswers`, `Accept`, `DiscardRead`, `ReleaseStep`, `FlushDue`, `Remount`,
`Reattach`. The daemon (`Output`, `Replace`), the two answers on their way and the page
move in between. Output is a chunk with its runtime and number, or a screen of a
runtime up to a number, which clears what was painted before. A flush is the set of its
ends (`FlushEnds`: batches acknowledged, batches painted), each with what it painted and
what it reports `Undelivered`; a batch `DropSeedCovered` drops stays as an `Emptied` one,
with nothing to paint or to lose. The module's definitions are named `Fence...` where
ProfileLock has the same name, for one module holds the proofs of both. An answer is a
screen, or retained chunks without one (`Answer`), which repeat what is painted or fall
short of the cursor. `Accept` advances the cursor and then writes, holds, or lets the
content filters rewrite or drop the round; what they match is left free. `Reattach` is
a read error. `causes` records the seven ways in which output goes astray without the
loop noticing: an overtaken release, a hidden seed, a foreign seed, a runtime swapped
unseen, a short and a repeated replay, a rewritten round (section 4 has those the comments deny). The wait for the
page's proof has no bound. Assumed: a live write the page does not acknowledge still
reaches it. Left out: what a page inherited from an earlier mount,
the reveal cover, the filters of a resize.

**SocketNames.** `name[v]` and `lock[v]` are the directory entries of a version,
`retired`, `retiredLock` and `linger` those that carry a pid; a socket file is named by
the listener that was bound to it, a lock file by the process that created it, and
`holds` is the flock. `OpenLock` to `Serve` are `run_daemon` up to its accept loop; the
lock file is opened by one step and flocked by another (`FlockLock`, `FlockBusy`), with
the check and the effect of the ping, the unlink, the bind and the alias refresh
(`AliasUnlink`, `AliasRepoint`) as separate steps; `BequeathJudge`, `BequeathLock`,
`BequeathSocket`, `SpawnLands`, `SpawnFails` the same-version bequest; `ReclaimJudge`,
`ReclaimBind`, `LingerBind`, `AcceptFails` the reclaim thread; `Retire`, `LeaveAlias`,
`Exit`, `Crash` the ends of a process; `SweepBegin` and `SweepApply` the sweep with its
census taken at the start; `ClientJudge`, `ClientUnlink`, `ClearUnanswered` the clients.
An unreadable kernel table is a census that lists every name. Time is left out: the
thread's 15 s, the sweep's day and the exit's 250 ms pass whenever they may. `lost`
records the daemons whose lock file no longer stands where they would look for it: one
that flocked a file which had left its name, or whose file a bequest, a rollback or a
sweep took away. The probe's short flock of a free lock is a busy attempt of whoever
flocks then. Left out: pty-handoff sockets, links out of the home, an unreadable install
history, two sweeps at once, reuse of pids.

The components share no variables. PtyHandoff and ReaderGate meet at the park,
ReaderGate and OutputRing at the screen, PtyHandoff and OwnershipLedger at the end of
a sweep and at the exit, HotRestartQueue at the request that starts a successor. At
each meeting point one of the two is free: PtyHandoff starts a sweep at any time,
OwnershipLedger moves any row at any time, HotRestartQueue lets a handoff succeed or
fail.

## 3. Runs

`tlc -workers 2 -config <cfg> <module>`.

| run | instance | checks |
|---|---|---|
| PtyHandoff_safety | 2 keys (symmetric), 2 sweeps, 2 successor processes, 1 retry of each kind | TypeOK, OneReader, DropsOnlyDuplicates, DropSparesSeated, ExitStrandsNothing, TypedChildSurvives |
| PtyHandoff_liveness | 2 keys, one an agent's, a rebuild of the same version, 2 sweeps, 1 successor | SweepEnds, ImplementsOwnership |
| ReaderGate | 3 chunks, 2 sweeps | TypeOK, SeedCoversConsumed, TheftIsBounded, StoodDownMeansSilent, ParkTakesEffect, UnparkResumes |
| OutputRing | 5 chunk numbers, ring of 2, idle ring of 1 | TypeOK, StampUnderclaims, ClientIsExact |
| OwnershipLedger | 2 daemons, 1 wrapper, 2 rows, 1 tick, faults on | TypeOK, OneWitnessPerRow, DiedIsNotServed |
| HotRestartQueue | 2 daemons of different versions, 3 versions, 3 ticks, interval 2, 1 boundary | TypeOK, AskingIsBudgeted, OwingDaemonStaysWarm |
| ProfileLock | 2 Active and 2 Shadow clients (symmetric) | TypeOK, SoleWriter, ShadowJarWasGranted, LiveHolderYieldsOnlyToActive |
| RowTombstones | 2 daemons (symmetric), 1 row, time to live 2, cap 1 | TypeOK, CloseIsKept, EnteredIsArrived, ReopenedIsNotVetoed, ContestedCloseStands, NoResurrection |
| SeedFence | 2 runtimes, 2 chunks of the first and 1 of the second, 1 replacement, re-attach or round the filters cut | FenceTypeOK, NothingLost, OrderKept, NothingStranded |
| SocketNames | 2 daemons, 2 versions, litter of version 1, 1 bequest, 1 crash, failed accept, sweep or unlink | TypeOK, BindLockLaw, StrandedIsRescued |

What they show, in words:

* **OneReader**: predecessor and successor read one PTY together only when the
  descriptor was committed without an acknowledgement, or a watch of an earlier
  sweep woke the reader. **DropSparesSeated**: a session that is sent again is never
  dropped as a duplicate while the successor serves that very child.
  **DropsOnlyDuplicates**: the sweep tears down its own copy only for a seat the
  successor's user had typed into (a copy dropped for that may be the last one when the
  successor dies later). **TypedChildSurvives**: adoption never replaces
  such a child. **ExitStrandsNothing**: at the exit of the settle watch, every live
  session of its sweep is held by the process that acknowledged it, unless that
  process has died since. **SweepEnds**: every sweep gives the runtime lock back.
  **ImplementsOwnership**: every step of the two daemons is a step of SessionOwnership.
* Of a reader with a gate: **SeedCoversConsumed**: the seed sent for one that stood down
  in time has all it consumed, but for an incomplete character and a colour query without
  its terminator. **TheftIsBounded**: at most one chunk is consumed after a park.
  **StoodDownMeansSilent**: after a stand-down nothing is taken until the unpark. Of any
  reader: **ParkTakesEffect**, **UnparkResumes**: no wake is lost.
* **StampUnderclaims**: a snapshot shows every PTY chunk up to its stamp.
  It is about PTY chunks; daemon-authored lines are in section 4. **ClientIsExact**: a
  client that was given a screen and follows the ring has each PTY chunk exactly once,
  trims included; one that was given none has none twice, and is exact again after the
  next screen.
* **OneWitnessPerRow**: at most one record per pid and row, after any lost updates.
  **DiedIsNotServed**: no `died_with_me` record is about a row its writer serves (that a
  cleared record may come back is SatisfiedStaysCleared in section 4).
* **AskingIsBudgeted**: a daemon asks for at most one successor, one more per elapsed
  interval and two more per declared boundary. **OwingDaemonStaysWarm**: a daemon
  that handed off to a newer build does not reach the cold-shutdown gate by a failed
  retry, even when a peer has cleared the file.
* **SoleWriter**: one writer besides preempted Shadows while one daemon answers every
  request. **ShadowJarWasGranted**: a Shadow never opens a jar it was not given, with
  errors and restarts. **LiveHolderYieldsOnlyToActive**: the table takes the lock from
  a live holder only for an Active client over a Shadow.

* **CloseIsKept**: a recorded close stays in force until its row arrives at a daemon
  that persists, it expires or is evicted, or a write overwrites it unread: one without
  the lock, or after a reading that failed. **EnteredIsArrived**: what a persist takes as
  entered is what arrived since the last one. **ReopenedIsNotVetoed**: no close blocks a
  row the user opened and the daemon persisted. **ContestedCloseStands**: a close that
  is refused and re-armed does not expire under contest. **NoResurrection**: a closed
  row comes back by the user, by a walk older than the close, by a door that could not
  read the file, and by nothing else.
* **NothingLost**: every chunk the cursor passed is painted, held or reported, outside
  the seven named causes. **OrderKept**: the page has each runtime's chunks once and in
  order, unless a write overtook a staged release or a replay came without a screen.
  **NothingStranded**: a staged release drains, and the page's answer to the proof is all
  the fence may wait for for ever; a failed fetch and a seed of another runtime bring it
  down.
* **BindLockLaw**: a serving daemon without a retired lock owns the held lock at its
  name, unless one of four steps took its lock file from it: a flock of a file that left
  its name since it was opened, a bequest, a rollback, a sweep. No other step, and no
  other daemon's loss, breaks it. **StrandedIsRescued**: a serving daemon no name leads to is
  dialled again, or is in a state the reclaim thread takes for good, or its thread
  returned at its start.

**Bounds.** Two keys are needed for a partial sweep, two sweeps for a resumed or resent
session, two successor processes for one that dies and is replaced. Two sweeps of one
reader let a park arrive while it is leaving the last one; three chunks put one on the
screen, one in the reader's hand and one in the kernel. A ring of two trims below a
client's cursor within five numbers. One tick and the two lifetimes (1 and 0) put a
record before and after its expiry. Three ticks and an interval of two allow two
attempts and a boundary between them. A time to live of two has a fresh close, one that
is renewed, and one that expired; with one row, evictions and effects between rows are
left to the theorems. Two chunks of a runtime and one of its replacement give a screen
older than the seed, one newer, a renumbered stream whose chunk a stale stamp would
cover, and a seed of a runtime that is gone. Two daemons of one version are a bequest,
of two an alias; a second bequest by one daemon is left to the theorem. The theorems
remove the bounds, but for the temporal properties.

**Deadlock.** Most instances switch the deadlock check off: when the predecessor has
exited and the bounds are used up, or all processes are dead, nothing is left to do.
OwnershipLedger, RowTombstones and SeedFence leave it on.

**Fairness.** `PtyHandoff!FairSpec` has weak fairness on the sweep's steps: it is
straight-line code with a timeout on every wait. Nothing is assumed of the successor.
`ReaderGate!FairSpec` has weak fairness on the reader's steps and on finishing a park or
unpark that has begun, and strong fairness on `Poll`, which a signal may interrupt but
does not interrupt every time for ever. `HotRestartQueue!FairSpec` has weak fairness on
each daemon's poll, a loop with a sleep. `SeedFence!FairSpec` has weak fairness on the
answer of the snapshot request, which times out and whose failure is sent to the loop,
on its arrival there, and on the steps of a staged release; nothing makes the page
answer an evaluation, a read answer or the timer fire. `SocketNames!FairSpec` has weak
fairness on the reclaim thread, which comes round every 15 seconds, and on the second
rename of a bequest, the next statement of its handler.

## 4. Where the code and its comments disagree

Two counterexamples are runs, with a finding each in `PROJECT.json`:

| run | what happens |
|---|---|
| PtyHandoff_ParkedChildIsNotKilled | the drain's release removes a runtime without looking at its park, and kills the shell the successor adopted |
| RowTombstones_LiftedOnlyByReopen | a row imported at one daemon is closed at another; the importer's first persist takes the row as entered and lifts the close nobody lifted |

The modules state further promises of the comments that the code does not keep. TLC
finds each counterexample with `<module>_<property>.cfg` where there is one (other
constants), and otherwise with the component's passing configuration in which the
property stands in place of the ones listed: without SYMMETRY, and with `Spec`
(`FenceSpec` in SeedFence) for `FairSpec` unless the property is temporal. The checks
above assume none of them: where a property has an exception, the table says what
happens there.

| property | what happens | where |
|---|---|---|
| HeldSessionsSurviveExit | a successor is restarted during a sweep; the watch follows the last acknowledgement only, and the predecessor exits although sessions the first process acknowledged died with it | `daemon.rs:22178` |
| PruneTakesOnlyStale | the prune works by row: one stale record takes a true one of the same row with it | `ownership_ledger.rs:347` |
| ClearsOnlySatisfied | between a successor's load and its clear a newer request takes the slot, and the clear deletes that | `daemon.rs:26290` |
| OpensJarOnlyUnderLock | a preempted Shadow opens new jar-backed surfaces from its cached claim | `yggterm-shell/src/shell/state.rs:15715` |
| CommittedIsNotDriven | a failure after the commit point is booked like any other: the reader resumes and the key is sent again, while the successor may seat it. `pty_handoff.rs:577-580` says the caller must not | `daemon.rs:6415` |
| ParkedIsWatched | the watch of a partial sweep ends with its window; moved sessions stay parked with nobody watching | `daemon.rs:22155` |
| ParkedMeansHandedOver | `teardown_refused_remote_runtime` calls `park_reader` to ask whether the reader is parked, which parks it: the early return is always taken | `daemon.rs:10318` |
| ExitKeepsEverySession | a session created during the settle window dies at the exit | `daemon.rs:22178` |
| SeedCarriesConsumed | the quiesce allowance ends while the reader holds a chunk: it is in neither the seed nor the kernel | `daemon.rs:22020` |
| SeedCarriesOpenQuery | the bytes of a colour query whose terminator has not arrived stay in the protocol filter and are not sent | `terminal.rs:463` |
| SilentWithoutGate | a reader without its two descriptors stores that it stood down and reads on while parked | `terminal.rs:937` |
| SeedCarriesLastCharacter | the first bytes of a multi-byte character stay in `pending_utf8` and are not sent | `terminal.rs:3496` |
| StampExcludesContractLine | a snapshot keyed between a contract line's number and its floor covers a line it does not show | `terminal.rs:3595` |
| StampExcludesStopLine | the reader-stopped line never lowers the floor | `terminal.rs:3684` |
| CursorPassesOnlyPushed | the reader-stopped line takes its number before the chunks lock; a read in between passes it | `terminal.rs:3684` |
| GapEndsAtScreen | after a gap the client is brought to the screen only if it has text; with a blank one the missing chunks stay missing | `terminal.rs:4496` |
| SatisfiedStaysCleared | a writer that loaded before a clear renames the satisfied record back | `ownership_ledger.rs:252` |
| AdoptedOutlivesNoAdopter | liveness is judged by pid alone; `by_start_time` is written and never read | `ownership_ledger.rs:186` |
| MovedRowKeepsWitness | a later sweep's `record_handoff` erases the records of rows an earlier sweep moved | `ownership_ledger.rs:252` |
| HandedOffStaysWarm | a handoff to a target that is not ahead or has no version is not remembered, and a failed retry reaches the cold gate | `daemon.rs:28385` |
| SettledLaneReopens | the settled flag is never reset: when the successor dies, nobody asks again (temporal, under `FairSpec`) | `daemon.rs:28314` |
| BoundaryBuysOneAttempt | `now_ms` is taken before the load, so an attempt may be stamped before the boundary that released it | `daemon.rs:28267` |
| RestartKeepsOneWriter | a daemon restart forgets the holder while the client keeps its claim | `daemon.rs:6025` |
| ErrorMakesNoSecondWriter | an Active client takes any error for a daemon without Shadows and opens the jar | `yggterm-shell/src/shell/state.rs:15736` |
| PreemptedShadowStops | a verb passes the gate, the lock is preempted, the verb is injected | `yggterm-shell/src/shell/state.rs:79180` |
| ImportRefusesClosed | an import asks the closes as the walk read them at its start; `daemon.rs:12442-12446` says a closed row cannot come in by an import | `daemon.rs:8743` |
| RecordedCloseBlocks | recording a close over one that has expired and was not yet collected changes nothing, so the row is not blocked | `live_row_tombstones.rs:489` |
| UnreadableIsNotEmpty | a file that cannot be read or parsed is warned about and read as empty: doors asked then admit closed rows, and the next write saves the empty set | `live_row_tombstones.rs:285` |
| RefusalIsRearmed | the boot's `drop_tombstoned_live_rows` (like the preserved owners' restore and the passive birth) refuses without re-arming; `live_row_tombstones.rs:37-38` says every veto door does | `daemon.rs:5608` |
| SeededStaysShown | a read answered before the snapshot and handled after its proof repaints an older screen, and the stamp then drops what lies between | `yggterm-shell/src/shell/viewport.rs:15038` |
| ReleasedGoFirst | the release the frame timer breaks off is staged, and later live writes overtake it | `yggterm-shell/src/shell/viewport.rs:7883` |
| CoverageIsOfThisRuntime | a seed accepted before any read named a runtime is held against none, and its stamp drops the next runtime's chunks | `yggterm-shell/src/shell/viewport.rs:13203` |
| CoveredIsNotRepainted | a batch that straddles the stamp, and what the bridge holds at the proof, are painted on top of the seed | `yggterm-shell/src/shell/viewport.rs:15038` |
| FenceComesDown | the proof's evaluation is awaited without a time limit, though the flush's is bounded so that a dead bridge cannot wedge the loop: with no more output the fence stays up (temporal) | `yggterm-shell/src/shell/viewport.rs:13306` |
| HeldLockIsOurs | the rollback of a bequest renames the old lock over the fresh one of a daemon that started meanwhile; a daemon flocks a file that was renamed or unlinked since it opened it; a bequest renames a lock taken since it looked; a sweep unlinks one. The lock at the name is then held, and not by the daemon that serves there | `daemon.rs:27857`, `20773`, `27783`, `socket_sweep.rs:620` |
| StrandedIsAlwaysRescued | a failed accept drops the listener, its file still stands with the recorded inode, and the next check finds nothing to bind; a linger file left behind refuses its own daemon in the same way, and a linger listener beside a reclaimed one is bound and never served; a daemon whose name went between its bind and the thread's first look has no thread (temporal) | `daemon.rs:1146`, `997` |
| ReclaimSparesBindWindow | every live daemon is still named by the kernel, so the guard for an absent name holds in the window of a bequest or of a starting daemon too, and the reclaim takes the name | `daemon.rs:940` |
| RetireSparesSuccessor | a daemon that bequeathed its name and lingers unlinks the path at a hot restart, which is the successor's by then | `daemon.rs:29836` |

## 5. Proofs

`tlapm <module>Proofs.tla`; ShellProofs takes some minutes. Every theorem holds for all
values of the constants under the named assumptions of the component module, which TLC
evaluates on each run.

Each theorem has the same shape: `Init` implies an inductive invariant, each action
preserves it (one lemma per action or per thread), the invariant implies the property,
and `PTL` combines them.

* **PtyHandoffProofs**: TypeCorrect, AtMostOneReader, SeatedIsNotDropped,
  OnlyDuplicatesAreDropped, TypedChildIsKept, ExitIsSafe. Over the types, `ReaderInv`
  relates a session the successor holds to the predecessor's park, its sweep's list of
  moved keys or the open connection: without the connection, the step that acknowledges
  is not covered. `TypedInv` is the same for typed-into children, and `ExitInv` says of
  each watch that every key of its sweep is with the successor it names, or gone. The
  step lemmas are by thread: sweep, watches, listener, environment.
  HandoffImplementsOwnership shows the refinement: initial states map to initial states
  and, with `BornInv` besides (a session never started has left no trace, and a sweep
  has the master of every key it has not tried), every step is a step of
  SessionOwnership for every key.
* **ReaderGateProofs**: TypeCorrect, StandDownIsFinal, SeedIsComplete,
  AtMostOneChunkStolen. The invariant ties the reader's program counter to the flags
  (`GateInv`), the eventfd to the wake that is owed (`WakeInv`), what the reader last
  saw to what was stored (`SawInv`), and the screen, the hand and what the decoders hold
  back to the head of the PTY (`ScreenInv`).
* **OutputRingProofs**: TypeCorrect, StampIsSafe, FollowingIsExact. `Monotone` (a later
  number stands for at least as much text) and `ScreenOK` (outside the lock the screen
  is what the last number stands for) carry `SnapOK`, `MemoOK` and `AnswerOK` over the
  three unlocked reads.
* **OwnershipLedgerProofs**: TypeCorrect, LedgerStaysBounded, DeathsAreTrue. The file
  alone is not inductive: every pending snapshot has to satisfy what the file does
  (`AllSole`, `AllCommitted`), for a rename may bring any of them back.
* **HotRestartQueueProofs**: TypeCorrect, RetriesAreBudgeted, OwingStaysWarm. `ClockOK`,
  `EntriesOK` (every copy of the entry has a boundary that was declared), `LaneOK`,
  `BudgetOK` (attempts counted against the process's own floor, which no peer writes)
  and `WarmOK` (who owes remembers a target).
* **ShellProofs**, ProfileLock: TypeCorrect, OneWriter, ShadowFailsClosed,
  LiveHolderIsSafe, by `AskOK`, `CountsOK` and `GrantedOK`: who has the jar or is about
  to open it is the holder, was displaced, or was never told.
* **ShellProofs**, SeedFence: FenceTypeCorrect, OrderIsKept, NothingIsLost, from the
  inductive invariant `FenceInv` (FenceInvariance) described below.
* **RowTombstonesProofs**: TypeCorrect, EnteredRowsArrived, ClosesAreKept,
  ReopenedAreNotVetoed, ContestedClosesStand, NothingIsResurrected. The file alone is
  not inductive: `RowsInv` ties each daemon's baseline, arrivals and pending rows
  together, `CopyInv` says that a copy that is not outdated is the file, and `FileInv`
  holds of the closes that no write has changed unread. The cap needs that some recorded
  close is the oldest, which comes from the well-foundedness of the naturals.
* **SocketNamesProofs**: TypeCorrect, BindLockLawHolds. `LockIsFound` is the heart: the
  inode a daemon has flocked stands at its version's lock name, or at its retired name
  when it has one, unless the daemon is in `lost`. The bequest's guard keeps it, with
  `Exclusive` (one holder per inode) and `FreshInodes` (a process that has not started
  has created no lock file).

### The mount loop's argument

Assumed of the constants: at least one runtime (`RuntimeBound`), a replacement emits no
more than the first runtime may (`OutputBound`; one bound then types both), any number of
disturbances (`DisturbanceBound`).

The page, the staged release, the fence and the bridge are four sequences that pass
items to one another. Taken apart, none of the properties is inductive; the proof is
about their concatenation in painting order, the `Pipeline`. `Thins(p, q, lost)` says
that a write or a flush leaves a pipeline that adds nothing, keeps the order and shows
what the old one did, but for what is in `lost`; each way of writing (the fence released
by a round, by the seed, by the frame timer, a failing flush, a step of the staged
release) is shown once to thin it with `lost` the items it reports. What remains is what
each step puts in and takes out:

* `RunInv` and `CountInv`: the answer on its way is of a runtime and a number the daemon
  has reached, and what is held is output the loop has read. Hence the chunks of a round
  come after every chunk on its way, which makes `OrderInv` (the whole pipeline is
  ordered; the page alone is not inductive) survive `Accept`.
* `ShutInv`: while the fence is up nothing is staged and the page has the seed or
  nothing, so that a release paints on the seed and nothing else.
* `StampInv`, `OneRuntimeInv`, `SeenInv`: a stamp is the number of the seed, the seed is
  of the stream's runtime, and the page shows what the stamp stands for, unless one of
  the recorded causes occurred (a replay without a screen is two of them). They justify
  the post-seed filter.
* `CoverInv` justifies `drop_seed_covered`: a retained batch that would show has nothing
  beyond the number it is filed under, and neither has one before it. It is not true of
  every batch: what the frame timer retains is filed under the loop's cursor, which a
  re-attach has set back; a whole screen then stands behind it, and it does not show.
* `AccountInv`: every number the cursor passed shows at the end of the pipeline, was
  reported, or is below a stamp that no chunk on its way repeats. The last case is
  needed because the filter takes chunks before they are anywhere.

TLC checked `FenceInv` on the instance of the SeedFence run before the proof. What
`Shows`, `Range`, `FlattenSeq` and the order do on concatenations is proved by
induction: `AppendInduction` is the principle for the sequences over a set, stated with a
set of sequences in place of a predicate and derived from the well-foundedness of the
naturals.

### Only model-checked

The liveness properties (SweepEnds, ParkTakesEffect, UnparkResumes, NothingStranded,
StrandedIsRescued), since neither fairness nor ENABLED is within the prover's reach, and
all counterexamples. Every invariant and every action property of a passing run has a
theorem.

## 6. Not modelled, and the plan

Within the modelled parts: the bytes of the wire format, metadata and screen contents,
traces, real durations, the byte limits of the ring (folded into its chunk limits),
`seed_snapshot`, resize keys of the memo, what the page's content filters match, the
section-5 deadline of the queue, and ledger files of another version's encoding.

In order:

1. **Drain**: progressive migration with its idle judgement, and the listener with two
   senders, composed with PtyHandoff's release.
2. A bound on the windows of OneReader.
3. The composition of PtyHandoff's park with ReaderGate, and of OutputRing's stamps with
   SeedFence.
4. The row-order ledger, repair and deadline; a ledger read by two versions.
5. The agent input arbiter, handover and resume gates as one module of deadlines.

Large parts of the repository stay outside: some nine tenths of its lines are drawing
and layout, scripts for the embedded terminal, parsers and formatters, data types,
tests and a package tool, where a state machine has little to say that a test does not.
