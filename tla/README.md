# TLA+ models of Cairn

Cairn runs coding agents (Codex, Claude Code) in microVMs on behalf of their owner.
An *installation* (`src/crates/installation`) is a manager process with a SQLite
store, VM controllers on its own machine and on remote nodes, and a storage layer
that journals each conversation's disk and publishes it to object storage. The
*beacon* (`src/crates/beacon`) is the service through which browsers, phones and MCP
clients reach installations. This directory holds specifications of both, the TLC
configurations that check them, and TLAPS proofs about them.

Every definition is translated from the Rust source; `PROJECT.json` ("map") gives
the file and lines of each. Source paths below are relative to
`src/crates/installation/src/` unless they start with `docs/` or `beacon:`
(`src/crates/beacon/src/`).

## 1. The system

| Part | State | Operations | Hard behaviour |
|---|---|---|---|
| Run worker (`worker/`, `recovery.rs`, `run_retry.rs`) | run document, checkpoint, `Worker.active`, preparation lock, execution tasks | pass, launch, output, exit, fence, verdict, retry, account switch, cancel, resume, shutdown, restart | pass, executions, owner and runner interleave at every await; a crash between any two writes; a stop that is never confirmed |
| Lazy journal (`storage/lazy/`) | segment files, `journal-v2.sqlite`, index in memory | append, group commit, flush, seal, capture, publish, reclaim, open | writers, a seal and a capture share a journal; power loss drops what was not synced |
| Guest session (`microvm/vm.rs`, `guest.rs`, `projects.rs`) | workspace, records on the disk, page cache, exit and output files | import, mount, edit, report, sync, publish | the VM is killed between a write and its sync; the host retries |
| Guest control (`storage/checkpoint.rs`, `storage/runtime.rs`, `runner/broker.rs`) | VMM queue, freeze, pause, lease and pressure | freeze, pause, seal, resume, thaw, monitor | a command the host gave up on is served later |
| VM pool (`microvm/pool.rs`, `pool/`, `budget.rs`, `runner/`) | slots, reservations, prepared and retained VMs, directories | admit, prepare, take, retain, evict, stop, drain | one admission lock held across waits; cancelled starts; a shrinking budget |
| Templates and images (`microvm/vm/snapshots.rs`, `images.rs`) | installed templates, images, pins | build, install, clone, prune, collect | collection beside a clone |
| Chat queue and processes (`chats.rs`, `chats/`, `chat_process.rs`, `claude_process.rs`) | messages, questions, conversation state; the agent's thread | send, edit, withdraw, steer, claim, answer, trash, restore, purge; request, steer, recover | an answer lost between the thread and the queue |
| Titles (`chat_titles.rs`) | request, title, the titler's copy | ask, answer, apply | the chat changes while the model answers |
| Accounts (`accounts/mod.rs`, `sign_in.rs`) | records, leases, locks, sign-ins | acquire, release, recover, pause, limit, sign in, remove | three steps of an acquisition beside everything else |
| Credentials (`accounts/codex.rs`, `claude.rs`) | vault, private home, provider's version; banked resets | open, rotate, capture, adopt, refresh, redeem | a rotation whose result is not saved; an answer that is lost |
| Publication and moves (`nodes/publication.rs`, `moves.rs`, `disk_grants.rs`, `shared_blocks.rs`) | intents, points, objects, references, grants | demand, capture, upload, commit, receipt, collect, fence, restore | collection without a lock; crash between upload and commit; two nodes with one disk |
| Fleet (`nodes.rs`, `nodes/placement.rs`, `maintenance.rs`) | nodes, attempts, slots, volumes, drains | reserve, claim, move, drain, delete disks | choices made before a drain or a move |
| Node calls (`nodes/transport.rs`, `relay.rs`, `executor.rs`) | commands, frames, slots | call, poll, answer, upload, abort | duplicated frames, lost polls, timeouts on every side |
| Tunnel and direct connections (`beacon:relay.rs`, `relay/direct.rs`; `relay.rs`, `direct.rs`) | registered tunnel, requests, credit, leases | register, forward, stream, revoke, renew | revocation while a request crosses several awaits |
| MCP clients (`beacon:mcp.rs`) | codes, grants, tokens | consent, exchange, refresh, replay, detach, collect | a retry that looks like a replay |
| Sign-in (`beacon:lib.rs`, `oauth.rs`, `methods.rs`, `account.rs`) | codes, sessions, methods, flows | mail, verify, hand over, remove, delete | an account deleted and created again under a flow |
| Identity (`relay.rs`; `beacon:installations.rs`) | rows and two files | claim, rotate, detach, reclaim | a lost answer between two files |
| Notifications (`notifications.rs` on both sides) | outbox, receipts, devices | send, deliver, acknowledge | a repeated event must not ring twice; a failing one must not starve others |

How they interact. The worker's *pass* recovers and launches queued runs; an
*execution* takes an account lease, reserves an attempt on a node (fleet), asks that
node (node calls) for a VM (pool), and follows the chat process inside it. Whatever
ends the client, the attempt is *fenced* before anything else of the conversation
starts. The VM's disk is served by the journal; at the end of a turn the publication
demands a capture (guest control), uploads its blocks, commits the pointer and lets
the journal drop what it covers. The beacon carries the owner's requests to the
installation over one tunnel, or introduces browser and installation to each other.

What makes each part correct is what its properties say (section 3). The hazards of
the code, each at its line with the properties that cover it, are in `PROJECT.json`.

## 2. Modules

Each component is a module; a module that composes several says so. A step ends
where the code awaits something another task can change: a store transaction, a call,
a lock, a durable effect before which a crash may come.

| Module | Models | Composes |
|---|---|---|
| `RunWorker` | worker, recovery, placement ownership, supervised clients, the runner's VMs | |
| `DurableDisk` | what a disk promises its guest and its publisher (abstract) | |
| `LazyJournal` | the journal, shown to implement `DurableDisk` | `DurableDisk` |
| `GuestSession` | one disk through its boots and turns | |
| `VmTemplates` | templates of prepared VMs and the runtime images | |
| `AgentCredentials` | credentials of a Codex and a Claude account, banked resets | |
| `ChatTitles` | generated titles | |
| `ChatQueue`, `ChatAgents` | the durable half of a conversation; the process that speaks to the agent | `ChatAgents` extends `ChatQueue` |
| `Accounts` | the pool of accounts | |
| `SharedBlocks`, `Publication` | blocks in object storage; publication, grants, moves | `Publication` extends `SharedBlocks` |
| `DiskOwnership`, `VmPool` | directories and conversations; the VM controller | `VmPool` extends `DiskOwnership` |
| `GuestControl` | pauses, freezes, limits and captures of a running VM | |
| `Fleet`, `NodeRelay` | nodes, slots, volumes, drains; calls to a node | |
| `RelayTunnel`, `DirectGrants` | requests through the beacon; direct connections | |
| `McpGrants`, `SignIn` | MCP credentials; signing in | |
| `InstallationIdentity`, `Notifications` | identity and its renewal; push notifications | |
| `MC...` | instances for TLC | |
| `...Proofs` | theorems (section 5) | |

Each module's header says what it abstracts; the state variables keep the names of
the fields they stand for. The largest ones:

### RunWorker

| Variable | Code |
|---|---|
| `phase` | the manager: up, `shutdown` token cancelled, process gone |
| `run[r]`, `ckpt[r]` | the run document and its stored `RunCheckpoint` |
| `owner`, `held` | placement rows: which run an attempt was reserved for, and whether it still blocks the run |
| `client`, `vm` | supervised client processes, and the VM of an attempt on its runner |
| `active`, `prep`, `leases` | `Worker.active`, `Worker.preparation`, the leases of `Accounts` |
| `exec[e]` | an execution task: program counter, its copy of the checkpoint, cancellation token, exit, error |
| `tick` | the pass: the runs it listed, the one it handles, the checkpoint its fence read |
| `overlapped` | history: runs that the pass handled beside their own execution |
| `used` | how much of each bound is spent |

`Tick...` actions are `Worker::tick`, `try_launch` and `recover`; `Exec...` are
`execution::execute`, `launch::execute` and what they call; `Client...` are the
supervisor; `Cancel` and `Resume` the owner; `Shutdown`, `Closed`, `Crash` and
`Restart` the process. `TickError` and `ExecIoError` are store errors, propagated as
`?` does. What is abstracted:

- only runs that execute in a VM: host runs take the project lock instead of
  placement and have no runner to fence;
- a VM is taken to be live from the start of its client's request until a stop is
  confirmed, which is the worst case for `SingleVm`;
- lease clocks are the choice between `TickFenced`/`ExecFenced` (the runner answered,
  or its lease lapsed) and `TickFenceFailed`/`ExecFenceFailed`;
- node choice, disk space and account usage are refusals that may come at any time
  (`Fleet` and `Accounts` have their own state);
- an acquisition and the check of the status after it are one step (`TickAcquire`);
  the gap between that check and the insertion in `Worker.active` is kept. A store
  error inside that step may leave the lease (`LeasesAfterError`);
- the last checkpoint write, the settling patch and the return of the account are
  one step (`ExecRelease`);
- the retry loop around `requeue_after_error` gives up when the manager shuts down;
  the model lets it succeed, and a crash at that point covers the other case;
- controller recoveries are capped only for a run that stays on its own node; one that is
  remote or has a move request (`away`, free at every failure) is recovered without a cap, and
  `recoveries` stays at `MaxRecoveries`;
- moves, publication on success and the deployment lease are left out here.

### LazyJournal and DurableDisk

`DurableDisk` has a visible content, a *firm* one that must survive, and sealed
generations; its actions are write, acknowledge, seal and lose. `LazyJournal` keeps
the directory (`files`, `frames`, `synced`, `torn`), the SQLite metadata
(`segments`, `meta`, `manifests`), the open journal (`journal`, `writer`, `capture`,
`retired`) and history (`issued`, `firm`, `snap`). Its actions follow `journal.rs`
and `generations.rs`: a write with the rotation to a new segment, group commit,
flush, seal, capture, publication with its repetition, the unlinking of segments,
`PowerLoss` and `Open`. A write covers one block. A frame is whole or torn. SQLite
transactions are atomic and durable (`synchronous=FULL`).

The refinement mapping (`Promise`) takes `disk` to what a read of the open disk (or
of the disk as recovery would open it) returns, and `sealed` to the content recorded
at the seal; `KeepsPromise` is `DurableDisk`'s specification under it.

### Publication

Per conversation one operation at a time holds the operation lock: a publication, a
collection, a grant for a restore, or a purge (`op`). Readers hold a lock of their
own that a collection drains; the storage monitor and the block collector hold none.
Contents are versions: `disks` are the nodes' disks, `point` the recovery points,
`backup` the stored pointer with what was requested, `move` a move under way.

### VmPool

`res` are reservations with their slot and VM, `adm` the holder of the admission
lock and what it waits for, `att` the attempts of the broker; `DiskOwnership` adds
the pointer and the label of a directory. Memory pressure, sizes and compatibility
are chosen at every reading. A start is dropped, or fails, wherever it waits (`StartDropped`,
and `cut` of `TakeOwn` and `TakeSpare`, with the VM it took); a disk that cannot be sealed
drops the reservation while the exit is recorded (`Unsealed`).

## 3. Runs

Several runs explore components that share no state in one state graph: `focus`,
chosen initially, says which component moves. It divides the instance as well (two
conversations that share blocks, or one that moves), which keeps the bounds of each
part as large as it needs. No property mentions `focus`.

| Run | Instance | Checks |
|---|---|---|
| `worker_crash` | 1 run, 1 execution, 2 attempts, 2 launches, 1 retry, 1 crash or shutdown, 1 store error | `TypeOK`; `SingleVm` one VM per run; `AttemptOwnership` attempts and checkpoints agree; `TerminalMeansStopped` a finished run has no VM; `NothingStranded` no run is left running without an execution, no preparation lock without a holder |
| `worker_owner` | as above with 1 controller recovery, 1 cancellation, 1 resume, no crash or store error | `NoReplayOfCompletedTurn`; `LeaseNotLeaked`; `DecisionsKept` a settled status stays, a cancelled run in recovery ends cancelled |
| `worker_live` | 1 execution, 1 attempt, 1 retry, 1 recovery, 1 crash, fairness | `RecoveryEnds`, `ShutdownCompletes` |
| `conversation` | journal: 2 writers, 2 blocks, 3 writes, 2 frames per segment, 3 generations, 2 crashes, 1 I/O error; session: 2 edits, 2 losses; 3 keys, 2 images, 2 tasks; 3 credential versions, 2 resets; 4 messages | `JournalExact`, `KeepsPromise`; `SessionKeepsWork`, `WorkNotOverwritten`; `ReferencedKept`; `CredentialsKept`; `NeverRelabelled` |
| `chats` | 2 messages, bound 2, 1 fault, 3 turns, 2 owner controls | `DeliveredOnce`, `AnswerOnItsWay`, `DeletedWholeOrNotAtAll` |
| `accounts` | 2 accounts, a run and a background holder, limits 1 and 2, 2 sign-ins, 1 restart, 1 failed save | `UsedAccountsExist`, `OwnerDecisionsHold` |
| `publication` | 2 conversations, 2 nodes, 1 content hash, 3 points, 3 objects, 1 mishap, 1 move | `PointsBacked`, `DemandHonoured`, `MoveKeepsWork` |
| `hosts` | 2 conversations, 1 prepared directory, budgets 1 and 2, 2 attempts and reservations; three starts, or two and one trouble | `SlotsAccounted`, `DiskExclusive`, `StopsAndClaimsHold`, `UnpublishedKept` |
| `guest` | 1 lost answer, 1 background thaw, fairness | `QuietAndFenced`, `GuestGoesOn` |
| `nodes` | 2 nodes, 2 conversations, 1 slot, 4 attempts, 1 drain; 2 chunks, two calls with one fault or one with two | `CallsHonest`, `PlacementsAgree`, `NodeLimitsHold` |
| `beacon` | a stream and a request, 2 tunnels, 2 revocations; 2 leases, 4 signatures and changes between them; 2 codes, 4 tokens; 2 browsers, 2 codes, an account deleted and recreated | `ConnectionsKnown`, `McpCredentialsBounded`, `SignInSound`, `RevocationsHold` |
| `installation` | 2 identities, 3 credentials, 1 lost answer; 2 events, 2 devices, 2 links, fairness | `LinksHonest`, `LinksProgress` |

The comment above each property says what it means for the code; several are
conjunctions of named parts.

Why these bounds. The interesting interleavings are between the tasks of *one* run,
account, disk or request and one more that competes with it; so there are one or two
of everything, and enough launches, attempts, versions or tokens that an old one is
still around when a new one is made. One crash or fault at any step, followed by
what the code does to recover, reaches each write of a sequence from both sides; the
journal has two, to crash during what a recovery left. In the journal three writes on
two blocks with two frames per segment give a rotation, an overwritten block and a
write after a seal. A conversation needs three turns: one that is lost with a steering message
it took, the request that is repeated after it, and the message's own turn; two turns
hide what Claude Code does then (section 4). Deadlock is checked in the worker's runs; the others stop when a
bound is spent, which is not a state of the code.

Symmetry is declared where the specification treats the members of a set alike, and
never with liveness. Runs of the worker are ordered (the pass takes the oldest
first) and are not symmetric.

`LeaseNotLeaked` is checked without store errors, because the code leaves a lease
when one comes between the acquisition and the insertion (`schedule.rs:162`): the
account stays taken until the run is recovered or the manager restarts. Properties
that say `\ overlapped` exempt runs that the pass handled beside their own
execution: there the code does not keep them (section 4).

Each property has a mutant in `PROJECT.json`: a faulty form of a definition (skip
the fence, sync only the active segment, delete without the claim, ...) under
which TLC finds the property violated. The faulty forms stand before the
definitions they alter, and no action uses them.

### Fairness

`worker_live`:

- `WF(TickStep)`: the pass runs every second and on every wakeup (`run_forever`).
- `SF(TickFenced)` per run: a fence is repeated on every pass until the runner
  answers or its lease lapses, so it does not fail for ever.
- `WF(ExecProgress)`: tasks are polled; but an agent may run, and a run may wait for
  an account, without end unless it is stopped (`run_limits::budget_ms` may be none),
  so those two steps are fair only when the run is being stopped.
- `WF(Closed)`, `WF(Restart)`: `Worker::close` returns when nothing is left; the
  service manager starts the process again.

`guest`: the VMM serves its queue; the monitor runs every second and takes the
control lock infinitely often if it is free infinitely often (a fair mutex); a
capture goes on, and a call that answers in the end when it is retried (thaw,
publication) does so under strong fairness.

`installation`: commands of the owner finish, the beacon executes what reached it, a
challenge expires; the owner repeats `cairn rotate-token` until it succeeds
(`docs/INSTALLATION-RELAY.md`); the outbox is polled, a link comes back, deliveries
end, cool-downs elapse.

## 4. Where the code differs from what is said of it

The following properties state what a document, a comment or a message of the code
says. They do not hold of the code; each is a definition of the module named, and
putting it into the configuration of the run that instantiates the module gives the
trace. `PROJECT.json` quotes the sentence.

| Property | Module | What happens |
|---|---|---|
| `CancelledStaysStopped` | `RunWorker` | a cancellation between the last look at the status and the insertion in `active` settles the run, which then runs |
| `SettledOnceStopped` | `RunWorker` | a pass that listed a recovering run settles it while the execution of an earlier pass starts its VM (2 executions) |
| `RecoveredRunMayReserve` | `RunWorker` | crash between a reservation and the checkpoint that names it: the relaunch is refused |
| `IncompleteEndRecovered` | `LazyJournal` | a power loss tears a segment that is not the last; `open` refuses the journal |
| `LaterWritesEnter` | `LazyJournal` | a recovered empty segment keeps its first sequence; after a seal the next append is refused by the UNIQUE column |
| `WithdrawnStaysOut` | `ChatAgents` | a steering message put back, then withdrawn, is handed out from the file of the last turn |
| `FullMeansPending` | `ChatAgents` | messages that the trash cancelled count as undelivered after a restore |
| `NotRunWhileSigningIn`, `SettingsKept`, `LeaseHasOwner` | `Accounts` | an acquisition completes on what it read before it took the lock; a failed save leaves its lease |
| `RollbackKeepsCredentials`, `ReadyHasCredentials` | `AgentCredentials` | a rollback restores rotated credentials; a Claude account is ready before its credentials are there |
| `OnlyExaminedDropped` | `ChatTitles` | a request made meanwhile is dropped with the stale one |
| `RecoversLatest` | `Publication` | a recovery uses a point chosen before the fence (3 moves) |
| `HeadRecorded` | `Publication` | a status read before a publication is recorded after it, and its receipt collects what the pointer names (1 node, 1 conversation, 1 hash, 3 points, 3 objects, 2 writes, 2 turns, no move, 2 mishaps) |
| `FilesystemMeansFrozen` | `GuestControl` | a late thaw of an earlier capture reaches the guest before the seal |
| `OnlyCompleteData` | `GuestSession` | an import is marked before it is synced |
| `CurrentDiskKept` | `Fleet` | a disk listed as stale is deleted after the conversation came back (2 owner requests) |
| `OnlyExitedRetired` | `VmPool` | a start cut between the queue and its check of the node ends the retained VM it took, with an unpublished disk |
| `DetachedCanReclaim`, `StartKeepsIdentity` | `InstallationIdentity` | a lost rotation answer before a detachment; a start that removes the file another command saved |

`DeliveredAsShown` and `EntersOneTurn` (`ChatAgents`), `ClaudeLoginKept`
(`AgentCredentials`) and `ReadyMeansQuiet` (`Fleet`) do not hold either, and nothing in
the repository says they should; they are kept as the record of what was tried. Of these
`EntersOneTurn` deserves a look: a steering message that Claude Code took and had not echoed
when its VM died is put back in the queue (`chats.rs:411`) and launched under a fresh wire id
(`claude_process.rs:845`), so that the resumed session executes it again.
`docs/RESTART-RECOVERY.md` promises otherwise for Codex only, whose process reads the thread's
history first; `DeliveredOnce` therefore says *once per thread* for Codex and *once under
its own id* for Claude Code.

## 5. Proofs

TLC checks the instances of section 3; the following are proved by TLAPS for every
value of the constants that satisfies the assumption of the module (named
`...Assumption` there: absent values are not members, bounds are numbers, a disk has
a block). A specification bounds its counters; the bounds are parameters, so a theorem
holds for any of them. Each proof follows one plan: an inductive invariant that TLC
checked first, one lemma per action, and a last temporal step.

| Module | Theorem | States |
|---|---|---|
| `LazyJournalProofs` | `JournalKeepsPromise` | the journal implements `DurableDisk` (`KeepsPromise`) |
| | `JournalIsExact` | `JournalExact` |
| | `ChatsDeliveredOnce`, `AnswersReach`, `DeletionWhole` | `DeliveredOnce`, `AnswerOnItsWay`, `DeletedWholeOrNotAtAll` (`ChatAgents`) |
| `RunWorkerProofs` | `TypeCorrect`, `OwnershipHolds`, `OneVmPerRun` | `TypeOK`, `AttemptOwnership`, `SingleVm` |
| | `OutcomesSound`, `FinishedMeansStopped` | the invariant, `TerminalMeansStopped` |
| | `CompletedTurnsNotReplayed` | `NoReplayOfCompletedTurn` |
| | `NothingIsStranded` | `NothingStranded` |
| | `DecisionsAreKept`, `LeasesNotLeaked` (`MaxIoErrors = 0`) | `DecisionsKept`, `LeaseNotLeaked` |
| | `CancelledRecoveriesEnd` | `CancelledRecoveryEnds`, half of `DecisionsKept` |
| `AccountsProofs` | `AccountsTypes`, `UsedAccountsKept`, `OwnerDecisionsKept` | types, `UsedAccountsExist`, `OwnerDecisionsHold` |
| `ConversationProofs` | `SessionsKeepWork`, `EditsSurviveImports` | `SessionKeepsWork`, `WorkNotOverwritten` |
| | `ReferencesKept` | `ReferencedKept` |
| | `CredentialsSurvive` | `CredentialsKept` |
| | `TitlesNeverRelabel` | `NeverRelabelled` |
| `PublicationProofs` | `RecoveryPointsBacked` | `PointsBacked` |
| `VmPoolProofs` | `EverySlotAccounted`, `OneVmForEachDisk`, `StopsAndClaimsFinal` | `SlotsAccounted`, `DiskExclusive`, `StopsAndClaimsHold` |
| | `UnpublishedVmsKept` | `UnpublishedKept` |
| `NodeProofs` | `PointsQuiet` | `QuietAndFenced` (`GuestControl`) |
| | `CallsStayHonest` | `CallsHonest` (`NodeRelay`) |
| | `FleetPlacementsAgree`, `FleetNodeLimitsHold` | `PlacementsAgree`, `NodeLimitsHold` (`Fleet`) |
| `BeaconProofs` | `McpCredentialsKept`, `SigningInSound` | `McpCredentialsBounded`, `SignInSound` |

**LazyJournal.** A read takes the newest frame of a block, or the base. Neither
`JournalExact` nor the refinement is inductive: what a reader sees depends on the index
in memory, the index on the frames, and what survives a crash on which frames were
synced. `JournalInv` says, in parts:

- `FramesOrdered`: sequence numbers, writes and generations grow together;
- `FramesDescribed`: every unpublished frame is in a described segment, and those of a
  sealed generation are synced;
- `FirmDurable`: what was acknowledged or sealed is in the base or in a synced frame;
- `SealsSound`, `SealsReadable`: a sealed generation reads today as it did at its seal,
  and is older than every frame after it;
- `IndexSound`: for each block and generation that has frames the index has one at
  least as new; nothing of an unpublished generation is being unlinked;
- `PositionSound`, `WritersSound`, `PendingSound`: the next sequence number is above all
  frames; each waiting writer has its frame; each file that is not synced is one for
  whose newest frame a writer still waits (this is why a file can leave `pending`
  when its last frame was in the batch);
- `CaptureSound`: outside the blocks it will read, a capture's base is the content at
  the seal.

The lemmas about reads carry the proof. `SameRead`: sets of frames that cover each other
read the same (recovery rebuilds the index; an exact overwrite replaces a record).
`Rebase`: moving the base to a sealed content and dropping the frames it contains changes
no read (publication; and a crash after a publication whose answer was lost, where memory
and disk have different bases). `ReadRises`, `ReadSplit`: reading a later generation
returns the same or something newer. Then each step is a `Write`, `Acknowledge`, `Seal` or
`Lose` of the promised disk, or leaves it unchanged. That the newest frame exists needs a
maximum; `BoundedMax` gets it from the well-foundedness of the naturals, so no finiteness
of the sets is assumed.

**RunWorker.** `SingleVm` is not inductive: nothing in it says why a new attempt is not
reserved beside a live VM. `AttemptOwnership` does: an attempt that was handed out is held
until its VM is gone (`HeldUntilGone`), a run holds one at most (`OneHeldPerRun`), and
every checkpoint, in the store, in an execution or seen by the pass, names an attempt of
its own run (`NamesOwnRunner`), so no fence releases another run's VM. A live VM is then a
held attempt, and there is one of those per run. `TypeOK` is proved first.

**The outcome of a run** (also `RunWorkerProofs`). The pass and an execution both hold copies
of a checkpoint across their fences and store them back. `OutcomeInv` says why no copy is
stale when it is written, unless the pass handled the run beside its own execution (the
history variable `overlapped`, which the properties except):

- `OneExecution`: `active` names the only execution of a run, so a cancellation finds it;
- `ExecsSound` (`CopySound`): at each step of an execution, its copy and the one its fence
  reads agree with the store but for the process; the VM has stopped at the steps from
  which it launches or judges; the outcome waits in the checkpoint only while it ends;
- `RunsSound`: a run that reads as finished, or waits for a launch, has stopped (`DocSound`);
  otherwise the checkpoint names the attempt that may run, so a fence stops it (`Named`);
- `PassSound`: a run the pass still has to handle has no execution, one that it launches has
  stopped without a completed turn, and the copy its fence read is the stored one.

`NothingStranded` holds of overlapped runs as well, from its own invariant: `Recoverable`
says that a run that reads as running has its checkpoint, that every copy which may be
stored is one that exists, and that no outcome is `interrupted`; `PreparationNotLeaked` is
inductive. `LeaseInv` names who gives each lease back: the pass about to launch, the
execution that has the account, or recovery; an execution that could not fence its VM has
left its run in recovery, and recovery drops the lease before it settles the run. A pass may
take a lease while an earlier execution ends, and the overlap is noted only at the launch:
this is why the invariant lists the pass first.

Two of these theorems assume `MaxIoErrors = 0`, as the run `worker_owner` does. The code
does not keep the properties otherwise: an account operation that fails after it registered
a lease leaves it behind (`LeasesAfterError`); and a store error before the launch, then a
crash, leaves an outcome in the checkpoint that the next failure overwrites. The other
theorems hold with any number of store errors.

**Accounts.** An acquisition selects, registers and saves in three steps, beside removals,
limits and restarts. The invariant says where each holder is (`HoldersSound`: one selects at
a time, and its lease agrees with its step), that the room counted at the selection is still
there when the lease is registered (`RoomKept`), that the chosen account still exists
(`ChoiceSound`) and that a sign-in under way names an account (`TasksSound`). `RecordsKept`
is what every step does to the records: a removed account stays removed, and one disappears
only when nothing uses or has chosen it.

**GuestSession.** `SessionInv` relates the mark of a completed import to what is on the
disk (`MarkSound`), the exit and output files to the sync before them (`TurnSound`), the
project's directory to the copy being moved (`ProjectSound`) and the cache to its two names
(`CacheKept`). `WorkNotOverwritten` is an action property and follows from the same
invariant.

**VmTemplates.** A clone pins its key before it looks. A task that clones is pinned and its
template installed, one that boots holds its image (`ReadersSafe`); a record names an image
that is present (`RecordsSafe`); the order of use is antisymmetric, so pruning
keeps two templates at most (`RecencySound`).

**AgentCredentials.** Unless the home was left exposed, at most one home holds credentials and
the provider accepts them; with no home it accepts the vault's (`NewestAccepted`). A reset
that was spent and not yet shown is the one of the persisted request (`RequestKept`).

**ChatAgents** (with `ChatQueue`). That a message enters a thread once does not rest on the
queue, which may hand it out again, but on what the process knows when it does. `ThreadKnown`
says it: once Codex waits in a turn, whatever its thread holds the process has seen or
tried, and it tries nothing twice; before a turn it has read the thread, and continues a request
that is in it without repeating its id; Claude Code tried whatever its newest turn holds, and a
session that is not resumed is empty. `HeldWereGiven`, `EventsWereGiven` and `RowsWereGiven`
follow an acknowledgement back from the row, through the event and what the process saw, to
the moment when the agent was given the message: each of these places holds only such messages,
so that a crash can lose an acknowledgement but none is made up. `AnswerKnown` adds that the
message a question waits for is an answer, which is what withdrawals and acknowledgements test.
The steps of the store are proved apart from the agent (`StoreKept`), and those of the agent
from what they do to the thread (`TurnTakes`, `TurnAppended`, `TurnEnded`).

**ChatTitles.** What the titler read is no newer than what it generated from, and that no
newer than the conversation (`AnswerInOrder`); the action property follows.

**Publication** (with `SharedBlocks`). `PointsBacked` needs to know why no collection
between two awaits deletes what a publication is about to name. `PublicationInv` has two
sides. On the side of the blocks: an object claimed for deletion has no reference, one that
is ready was uploaded, and a collector holds only claimed rows (`ObjectsSound`,
`CollectorSound`); a recorded point holds a reference to each of its blocks
(`RecordedSound`); a publication under way has, as far as it has come, its references, its
uploads and its manifest's intent (`CandidateSound`); every other operation and every
reader holds only what it may (`OperationSound`, `ReadSound`, `ManifestsFound`). On the side
of the grants: what a mounted disk reads is pinned by a grant of its own (`MountSound`,
`GrantSound`), a disk's generations and seals are in order (`DiskSound`), and a receipt
that its grant has not taken yet leaves its point pinned (`ReceiptsListed`, `StatusSound`):
without this a late receipt would release the base under a disk. That the published head
is recorded is no part of it: the code does not keep it (`HeadRecorded`, section 4).

**VmPool** (with `DiskOwnership`). Four properties follow from one invariant. A reservation's
fields go together (`Shapes`); what an attempt knows of its reservation agrees with it
(`Attached`), and no reservation serves two attempts (`OwnReservation`); the queues of ready
and retained VMs hold each reservation once (`Queued`); the holder of the admission lock
is an attempt, or a budget, that is at that step (`AdmissionHeld`). For the
disks: a directory's pointer and label agree but for a claim under way (`ClaimsSound`,
`ClaimsUnderWay`), a prepared directory is nobody's (`SparesUnclaimed`), and a VM runs on a
disk only with the disk's lock (`LocksHeld`); while a capture seals, the VM of its disk is
paused or dead (`CapturesStillDisk`). `SlotsAccounted` and half of the stops are inductive with these. That
the retained queue is no longer than the budget allows is no part of it, since a budget may
shrink. `UnpublishedKept` is an action property: only a start of the same conversation takes
an unpublished VM from retention, and returns with it or is cut (`OnlyExitedRetired`).

**GuestControl.** Requests that the host gave up on stay in the VMM's queue and are served
later. `ControlInv` therefore speaks about the queue: who holds the control lock
(`LockHeld`); that behind the request somebody waits for, only the pause of a lost lease is
queued (`CaptureWaits`, `MonitorWaits`); and so, once a pause is confirmed, that nothing
queued resumes the CPUs before the seal (`PausedForSeal`). `FrozenForSeal` and `FreezeAwaited` say
the same of the file systems, except for a detached thaw that overtook the freeze
(`FilesystemMeansFrozen`, section 4). `Stopping` and `FencedStaysPaused` are the lost lease.

**NodeRelay.** Per call, `CallSound` says what its reader has at each stage: nothing before
the head (`Waiting`); then the first chunks, in order, as many as the next frame's number
says, divided between what was read and what is in the channel (`Receiving`); all of them or a
refusal at the end (`Answered`). `TaskFits` says that the executor runs the command once;
`Frames` that a repeated or late frame carries a number that was expected or is behind; `Queued`
that no poll takes a call twice. A wait ends after its node handed over the result, or found
none that it could read: the code sends the same end for both (`executor.rs:176`).

**Fleet.** `OneOwner` follows from roles: a VM that runs is named by its conversation's
checkpoint (`VmsNamed`), and among the attempts that hold capacity one at most is a
destination and one at most is an execution without a disk (`Roles`), because a launch holds no
destination beside it (`LaunchesAlone`). The account of a volume is the difficult part.
`Accounts` says, for each volume, what its disk count is made of: before a disk is made,
exactly what the attempts it is kept for added; afterwards, at least one disk and what the
attempts without a disk added. Two attempts without a disk at most can be on one volume, so the
sums are of pairs; the lemmas about `Added` unfold the fold for zero, one and two elements.

The larger instance that checked this invariant (1 conversation, 2 nodes, 6 attempts) showed
that an account without exceptions is false: a disk listed as stale may be deleted under an
attempt that came back to the node (`CurrentDiskKept`, section 4), and the attempt then gives
back what the new volume never held. The history variable `crossed` names the attempts whose
disk was deleted under them, or under the reservation that they claimed, and
`VolumesAccounted` leaves them out of the sum. `Crossings` says why they do no more harm: such
an attempt finds no volume to make its disk on, or has nothing to give back; `StaleMade` says
that a listed disk is still there, and that nothing launches on it with something to give back.

`NodeLimitsHold` is an action property. Only an admission gives a node a conversation more
(every other step leaves each active attempt *covered* by an earlier one of the same
conversation and node), and what an admission counts, plus one, is at least the conversations
the node then holds. A drain that ends after its maintenance was completed changes nothing,
because a node in service has no drain's number (`Numbered`).

**McpGrants.** Rows belong to the current ownership (`RowsOwned`), so none is left when an
installation is claimed again. `ReplaySound` is the heart: while a grant lives, its code's row
is there and none of its refresh tokens was collected before it expired, so a replay is always
recognised; and one at most is unused. `TokensInOrder` makes a new token's number fresh;
`ConsentKeepsClient` says that the cleanup, which chooses before it locks, leaves the client of
a code or grant alone; `SlotsKept` counts the requests under way.

**SignIn.** One account at a time owns the address (`OneAccount`), every session is its
(`SessionsOwned`), and a code that waits in the mail was sent since the last deletion
(`MailDated`); a code that signed in is spent (`CodesSpent`).

What a step keeps is proved once for each *kind* of step (a frame lemma: what changes, and
what it therefore cannot disturb), and each action is shown to be of its kind.

Only model-checked:

- liveness (`RecoveryEnds`, `ShutdownCompletes`, `GuestGoesOn`, `LinksProgress`) and
  everything with `ENABLED`, which the prover does not support;
- `DemandHonoured` and `MoveKeepsWork` of the publication, which compare versions along the
  history of a disk; `PublicationInv` has only what the blocks and the grants need;
- `ConnectionsKnown`, `RevocationsHold` and `LinksHonest`. The last promises nothing where the
  code does not: a detached identity whose rotation was cut (`DetachedCanReclaim`), and an
  event delivered across a rotation, which is reported as done without a push.

## 6. Not modelled

The read cache and the working set (content-addressed, a stale entry is excluded by
the hash), the object store's client and encryption, HTTP routing and validation, MCP
servers of a run, workspaces and tools, Firecracker's configuration and networking,
passkey and OAuth cryptography, and the client applications: I/O, data or
presentation, without state shared with the properties above. SQLite and the beacon's
database are taken to be atomic and durable. Also left out: database errors of a push delivery
(a negative acknowledgement), a failed reading of the settings when a drain starts
(`maintenance.rs:197`), and the generation guard of a disk grant's extension (`Extended` is wider).
