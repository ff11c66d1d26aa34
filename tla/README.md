# TLA+ verification of mcp-venus-os

`mcp-venus-os` is an MCP server that reads telemetry of a Victron Venus OS
gateway over MQTT, serves it from a cache, and lets a caller write three control
values under a safety gate.  The repository also holds the toolkit that versions,
builds and publishes it, in which workflow runs, maintainers and GitHub race.  This
directory models the parts in which threads, callbacks, processes, timeouts and lost
answers meet, checks them with TLC, and proves every safety property that the passing runs check
with TLAPS, for all values of the constants.

## 1. The system

| Component (source under `src/src/mcp_venus_os/`) | State | Operations | Hard because |
|---|---|---|---|
| MQTT transport lifecycle (`mqtt_client.py`) | `client`, `_connected`, `_stopping`, `_worker`, `_loop_thread`, `_worker_stop`, `_inbox`, `_lifecycle_lock` | `connect`, `disconnect`, `_start_transport`, `_stop_transport`, `_start_worker`, `_process_inbox`, paho callbacks | tool calls on the event loop, paho's thread and the decoder thread share it; joins time out; calls are cancelled |
| Telemetry cache (`mqtt_client.py`) | `_inbox`, `_cache`, `_retained_serial_seen` | `_on_message`, `_handle_message`, `read_path`, `read_path_since` | bounded queue, decoder delay, retained replay, removal, reconnects |
| Read-feed maintenance (`mqtt_client.py`, `telemetry.py`) | `_pending_refresh`, `_refresh_cursor`, `_next_*`, `_maintenance_epoch` | `_maintain_read_feed`, `_publish_read` | epochs change between its steps |
| Subscriptions (`mqtt_client.py`) | `_callbacks`, `_callback_index` | `subscribe`, `unsubscribe`, the snapshot in `_on_connect` | caller and network thread race |
| Transport diagnostics (`mqtt_client.py`, `socket_diagnostics.py`) | `_socket_generation`, `_transport_events`, ping counters | socket and log callbacks | duplicate and late callbacks |
| Safety gate (`safety.py`, `hardware_contracts.py`, `config.py`) | configuration only | `validate_write_operation`, `validate_hardware_write` | order of tests, every refusal must be closed |
| Write tools (`server.py`) | a call's local state: value, contract, `written_at`, deadline | `set_inverter_mode`, `set_charge_current_limit`, `set_soc_limit`, `_mqtt_write_and_verify` | the cache moves under the checks; concurrent calls; lost sessions; time |
| Read tools, capability tools (`server.py`, `capabilities.py`) | `_registered_capabilities` | `get_*`, `list_devices`, `_apply_capability_tools` | warm-up marker across sessions |
| SSH client (`ssh_client.py`, tools in `server.py`) | the shared connection | `_ensure_conn`, `run`, `_close_connection`, `close`, operations of several commands | one call's timeout closes another's connection |
| D-Bus client (`dbus_client.py`) | `bus`, `_connected` | `connect`, `disconnect`, reads | two first callers |
| TLS policy, configuration, entry point | none | pure | - |
| Release pipeline (`src/scripts/release_state.py`, `release_versioned.py`, `release_control.py`) | the version ledger on its own branch, tags, drafts and releases on GitHub | reserve, build, publish, promote | runs race, die between two calls, are repeated; answers are lost |
| Version plan and synchronisation (`src/scripts/version_plan.py`) | the version files of a checkout, `.release-inputs.json` | `projections`, `sync_versions`, `verify_checkout` | files are replaced one by one |
| Release preparation (`src/scripts/prepare_version.py`) | a topic branch and a pull request | `prepare` | others push, merge, tag and delete meanwhile |
| OCI archive assembly (`src/scripts/merge_oci_archives.py`) | archive files | `Archive`, `merge_archives` | inputs change under it; two mergers |
| Fuzz campaign (`src/scripts/release_fuzz.py`) | reports of attempts | `campaign`, `verify_report` | attempts are repeated, reports stay |
| Registry publication (`src/scripts/publish_verified.py`) | container registries, PyPI | `verified_assets`, `container_commands`, `main` | several operators, halfway failures |

How they interact.  A tool call runs on the event loop, awaits
`MQTTClient.connect()` and then reads the cache.  paho's network thread calls
back into `MQTTClient` and only stamps and queues messages.  The decoder thread
takes them off the queue, updates the cache and calls subscribers.  A write tool
passes the safety gate, waits for the session and the warm-up, checks the identity
of the target in the cache, publishes on `W/...`, and polls the cache until a
notification received after the write carries the value.

What makes each part correct: at most one transport (the broker knows one client
ID), never a session without a decoder, ages that are not flattering, nothing
written without authority and fresh evidence, no success without a real
read-back, and no call that hangs.

The release toolkit is a chain: `prepare_version.py` brings a new base version to the
default branch; a workflow run reserves a frozen plan (build number, tag) in the ledger,
synchronises the version files with it, builds, fuzzes a release candidate, merges the
container archives and publishes one GitHub release; a stable release promotes the bytes
of an accepted candidate or is built anew from its source; an operator then copies stable
payloads to registries.  What makes it correct: no number or tag is ever given twice, a
number is spent before anything is public, what is public is whole and never replaced or
overtaken by something older, and whatever dies halfway can be repeated.

## 2. Modules

| Module | Models | Role |
|---|---|---|
| `MQTTLifecycle` | transport lifecycle | specification, properties, inductive invariant |
| `TransportOwner` | what the lifecycle promises | abstract specification |
| `MQTTLifecycleProofs` | | proofs |
| `ReadCache` | queue and cache | shared by the next two; open environment |
| `TelemetryCache` | `ReadCache` + a device and a wire | specification, properties, inductive invariant |
| `SafetyGate` | gate and contract tests | pure operators |
| `WriteVerify` | the write tools over `ReadCache` and `SafetyGate` | specification, properties, inductive invariant |
| `ReadFeed` | `_maintain_read_feed`, `_publish_read` | specification, properties, inductive invariant |
| `TransportDiagnostics` | socket and log callbacks, event ring | specification, properties, inductive invariant |
| `SSHClient` | the shared SSH connection and the operations over it | specification, properties, inductive invariant |
| `Subscriptions` | `subscribe`, `unsubscribe`, `_on_connect` | specification, property, inductive invariant |
| `ReadTools` | read tools, capability registration | specification, properties, inductive invariant |
| `DBusClient` | the on-device backend | specification, property, inductive invariant |
| `ReleaseLedger` | what `release_state.py` computes from a ledger | pure operators |
| `Release` | the pipeline over `ReleaseLedger` and GitHub | specification, properties, inductive invariant |
| `PublicationLog` | what the pipeline promises | abstract specification |
| `VersionPlan`, `VersionSync` | projections; synchronisation of a checkout | pure operators; specification, properties, inductive invariant |
| `PrepareVersion` | preparation of a version | specification, properties, inductive invariant |
| `OciArchive`, `OciMerge` | graph checks; assembly | pure operators; specification, property, inductive invariant |
| `FuzzCampaign` | the campaign and its acceptance | specification, property, inductive invariant |
| `RegistryPublish` | publication to registries | specification, property, inductive invariant |
| `ReadCacheProofs`, `TelemetryCacheProofs`, `WriteVerifyProofs`, `ReadFeedProofs`, `SSHClientProofs`, `ReleaseProofs` | | proofs about one module each |
| `PartsProofs` | | proofs about the parts that share no variable, and about `TransportDiagnostics`, a section each |
| `MC*` | | instances for TLC |

Definitions whose comment starts with "Mutant" are deliberately wrong versions of
the definition that follows them.  No specification uses them; a run in which one
replaces the original must fail, which shows that the property notices that bug.

### MQTTLifecycle

Each call in `connect()` or `disconnect()` has a program counter `pc[c]`; the
places in `LockedPC` are inside `async with _lifecycle_lock`.  A step runs from one
point where another thread can interfere to the next: `StopMark` (the block under
`_state_lock`), `StopSignal` (paho `disconnect()`, the event, the sentinel),
`JoinDone` (the bounded joins end, whether or not the threads did), `Reap` (what is
given up, and what the caller does with it), `StartTransport`, `StartWorker`,
`StartLoop`, and `Poll` (one turn of the wait, outside the lock).  `Cancel` ends a
call at any of its awaits.  The network thread of a transport takes `OnConnect`,
`OnDisconnect`, `OnMessage`, `NetExit`, `NetDies`; the decoder `WorkerCheck`,
`WorkerGet`, `WorkerHandle`, `WorkerNotified`.  A message is the identity of the
transport it came from, which is all the code tests.  A transport identity is used
again once nothing refers to it (`Fresh`).

`TransportOwner` says the same from outside: an owner, the threads alive, and
whether a session is reported.  The mapping is `owner <- client`,
`session <- connected`, and `threads` the set of live threads per transport.

### ReadCache, TelemetryCache

A receipt time is modelled by its age: time advances with each reading of the
clock and by itself, and everything gets older.  `heard[t][v]` is a history
variable: the age of the last live receipt of value `v` on topic `t`.  JSON
decoding and the unwrapping of `{"value": X}` are abstracted to the decoded value,
`Gone` (empty payload) and `Garbage` (not JSON).  `TelemetryCache` adds the device
(`item`), the notifications in flight (`wire`), and the history variable
`current[t]`: nothing about `t` was lost since its last change.  `ReadCache` keeps
one flag for the session; the moment between the start of a stop and its end, in
which the decoder throws messages away, is the same as throwing the queue away at
once, which is what `Retire` does.

### SafetyGate, WriteVerify

`ValidateWriteOperation` keeps the order of the tests in
`validate_write_operation`; numbers are naturals and everything that is not a
finite number is a model value in no range.  `WriteVerify` follows a call through
`_confirm_gate`, `_mqtt_ready`, `validate_hardware_write` (one step per identity
probe, because the decoder thread may run between two reads), the reading of
`written_at`, the publication, the polling loop and `still_qualified`.  Between two
awaits no other call runs (`LoopFree`), but the network thread, the decoder and the
clock do.  The device may notify any of `Notices` at any time, so nothing shown here
depends on how it takes a command; the proofs hold for every set of notices.  `Publish`
has two outcomes besides the refusal: the test of `_connected` is passed and paho sends
the command, or paho has lost the socket before `on_disconnect` clears the flag and
drops it; `MQTTClient.publish` ignores the result (`mqtt_client.py` 701-705), so the
call goes on to poll in both.  The history `fate` remembers which.  `cfg` does not change while the server runs:
the settings are read once, so the `enable_writes` test of `still_qualified`
repeats the one of the gate.

### ReadFeed

One call of `_maintain_read_feed` at a time, as only the decoder makes them, cut
wherever the network thread can change the session: the first look at it (`Enter`),
the keepalive, the choice of a batch (`Select`), the top of the loop (`TakeNext`),
and the two halves of `_publish_read`, the test (`Check`) and the publication
(`Send`, `SendFails`).  Topics are numbers in their sorted order, so the rotation
by `_refresh_cursor` is computed as in the code.  A deadline is a timer that is due
or not, read once per call as `now` is.  The catalog changes at any time.

### TransportDiagnostics

paho's thread is a small automaton (`net`) that makes the callbacks in paho's order:
a socket opens, gets its CONNACK, logs and queues pings, drains, loses the socket
(`client.socket()` cleared first, then `unregister_write`, `close`, `on_disconnect`
once or more).  The handlers are modelled whole.  Ages and kernel counters are left
out; an event keeps its kind, its generation and whether there was a socket to
sample.  `unreported` stands for the comparison of the two revision counters.  Like the
lifecycle it lets the thread end at any point and the transport be retired.

### SSHClient

A tool call is an operation, and an operation a sequence of commands: `NextCommand`
and `AnswerOf` say how `_swupdate_script`, `check_updates`, `apply_updates` and
`setuphelper_status` go on after each result.  Every command asks for the connection
anew (`Ensure`), which is where another call, `close()` or the network may have
replaced it.  `_connection_lock` is held across one await only, the handshake, so it
is not a variable: it is free when no call is connecting.  The shell commands are
names; a test for a file tells the truth about `files` when it can be run.  Two
histories tell what became of connections: `failed`, those that a failed command has been
cleaned up after, and `spent`, those with a cause to be closed (`close()`, the peer, or a
command that failed on them while they were open).

### Subscriptions, ReadTools, DBusClient

`Subscriptions` cuts `subscribe` and `unsubscribe` where they leave `_callback_lock`:
the registration, then the look at the session and the packet.  `_on_connect` sets the
flag, takes its snapshot and sends one SUBSCRIBE after the other.  The session is clean,
so the broker starts it with nothing.  `crossed` remembers patterns that were registered
again while their removal was on its way; such a pattern really is lost until the next
session, and the property says so.

`ReadTools` follows one read call: the wait for the full publish or its deadline, the
registration of companion tools, `list_devices()` on a copy of the cache for each device
type, and one look at the cache for every candidate path, with the decoder thread
changing it in between.  A topic is `<<type, instance, path>>`; `get_tank_level`, which
finds its tanks from the topics of dbus-pump, is a call for the type `tank`.  The
code finds a tank by its topic `tank/<n>/Level` alone, and reads an instance with `int()`;
the model has instances in their usual spelling only, and its tanks have no other topic.
Ages are
abstracted to old or not, which is what `stale` reports.  `OfType` is the set of all
sequences that list the instances of a type in ascending order without repetition (there
is exactly one), and `Discover` takes one: this says what `sorted(set(...))` returns
without saying how.

`DBusClient` cuts a read at its awaits: the connection and each property.  The bus held
is the one of whoever connected last.  The daemon may close a connection (`BusBreaks`);
`_connected` stays set, so no later read connects again and every read raises until a
restart.

### Release, ReleaseLedger, PublicationLog

The ledger is one value, replaced by a compare-and-swap on the SHA of its content.  A
workflow run goes through the phases of `prepare`, `reserve_plan`, `publish_versioned`
or `promote`, `begin_publication` and `_publish_prepared`; each action is one phase: its
reads and at most one call that changes GitHub.  A failing `require`, a lost answer and a
dead runner are all `Abort`, between any two actions; a repeated run keeps its ID and
gets a new attempt.  The creation of a draft has its own recovery (`Reconcile`).  A
maintainer may delete releases and tags.  An upload may store something else than was
sent; only the read-back tells.  Attestations, digests and evidence are the tests that
they decide: `CompletedRun`, `Intact`, `AcceptedRC`.  A nightly tag encodes run and
attempt as `100 * run + attempt`, which is why `MaxJobs` stays below 100.

`grouped` is the workflow's `concurrency` group
(`.github/workflows/release-pipeline.yml`, `cancel-in-progress: false`).  Without it,
the model shows what the compare-and-swap alone guarantees: numbers, plans, the floor
and whole releases.  With it, the order of publications follows as well.

`PublicationLog` is that promise from outside: an append-only history, the tags that are
public, and the highest number spent.  The mapping is `log <- shown`,
`public <- Published`, `spent <- ledger.floor`, `serial <- grouped`.

### VersionPlan, VersionSync, PrepareVersion

A file is a function from its fields to values; the editors of the four formats are
abstracted to the field they set.  `VersionSync` computes all edits, compares every file
with what it read, and then compares and replaces one file after the other.  A process
dies anywhere; a developer edits another field of the same files.  An edit that falls
between the last comparison and the replacement is lost (`raced`), which the code accepts.
`PrepareVersion` runs several preparations against a remote that others change; a push is
refused unless it is a fast-forward.  Every later commit of main counts as bringing more
than version fields.  The code would also own a topic that branched from a later main
whose commits changed version fields only; the trees then agree and nothing is pushed.

### OciArchive, OciMerge, FuzzCampaign, RegistryPublish

`OciArchive` states the graph checks over a content-addressed store, in which a blob is
present, corrupt or absent, the config of an attestation included; the walk is a sequence of visited descriptors, its leaves the
set of those that are images or attestations, none at two positions; `OciMerge` is the process that opens, inventories, walks,
copies, rechecks and links, while an input is rewritten or another merger wins.
`FuzzCampaign` follows the attempts of one run, whose jobs die or carry over, and the
reports they leave.  `RegistryPublish` has operators that copy to registries which accept
anything under any tag; `verified_assets` compares both the container mapping and the
PyPI list of the policy with what is configured.  The preflight `require_unpublished_version` is in the model; it
does not carry `RegistryHoldsApproved`, which rests on `verified_assets` and on the order
of versioned and `latest` copies.  `latest` may go backwards when two operators publish
two versions; no document says otherwise.

## 3. Runs

| Run | Bounds | Shows |
|---|---|---|
| `lifecycle` | 2 calls, 2 transports, queue of 2, 1 poll | `SoleOwner`, `SessionHasDecoder`, `DeliversOnlyOwned`, `KeepsPromise` |
| `lifecycle_live` | 2 calls, 1 transport, queue of 1 | `CallsReturn`, `ThreadsWindDown` |
| `telemetry` | 2 topics (one the Serial), 2 values, queue and wire of 2, ages to 2 | `AgeIsHonest`, `CacheTracksDevice` |
| `write` | 1 call, all requests (numbers, modes, unqualified, competing contracts), 3 configurations, 3 topics that say what `MCNotices` lists, ages to 3 | `PublishesQualified`, `VerifiedMeansReadBack`, `AnswerTellsOfPublication` |
| `write_live` | 2 calls writing one path, 2 topics, 3 notices | `WriteReturns`; that two calls do not disturb each other's safety is proved, for any number |
| `feed` | 3 topics, cycles of 2, batches of 1, 2 sessions | `CycleIsBounded`, `AtMostOneLate`, `EveryTopicInTurn` |
| `diagnostics` | ring of 4, 3 sockets, 3 pings a session | `RingTellsOneSocket`, `DrainedWasPinged`, `DrainedMeansWritten`, `WarningShowsClose` |
| `ssh` | 2 calls, 2 connections | `NothingUntracked`, `FailedAreGone`, `ClosedForCause`, `CallsReturn` |
| `release` | 3 runs, 3 attempts in all, 3 commits with 2 bases, 1 asset, 1 deletion; 2 runs when not serialized | `NumbersNeverShared`, `FloorCoversPublic`, `PublishedIsWhole`, `PlansAreForever`, `ImplementsLog` |
| `parts` | per part, see `MCParts` | the properties of the eight parts that share no state with anything |
| `doc_drop` | 1 topic, 1 value, queue of 1 | violated: see Findings |
| `doc_absent` | 2 calls, 2 connections | violated: see Findings |

`parts` checks eight specifications in one run: the first state chooses a part, and the
variables of the others stand still.  Its properties are `InputsKeepAndAgree` and
`SyncEnds` (synchronisation: 2 files, 3 policies, 4 plans, 2 deaths, 1 edit),
`ForeignWorkIsKept`, `NeverDowngrades` and `PrepareEnds` (preparation: 2 processes, 2
versions, 2 moves of others), `OutputIsWhole` (assembly: 2 mergers, 9 archives good and
bad, 1 rewrite), `AcceptedMeansFuzzed` (2 targets, 2 attempts), `RegistryHoldsApproved`
(2 operators, 2 versions, 2 images and PyPI, 1 change), `ReadsAreHonest` and
`ToolsAreOffered` (5 topics, 2 changes during a call), `LostBusesAreFew` (2 readers, 4
reads of 2 properties) and `NoSubscriptionLost` (2 callers, 2 patterns, 2 sessions).

Why the bounds are enough for the interesting cases.  Two calls give every race
for the lock, a late poller and a stopper; two transports give the old and the new
one; a queue of two holds a message and a sentinel, a queue of one is full when the
sentinel comes.  One poll distinguishes "before" from "after" the deadline.  Two
topics separate the Serial from the rest, two values a change from a repetition.
`StaleAfter` is 1 and ages go to 3: a check takes at least one reading of the clock,
so an identity that was stale when the check began can still be told from one that
has become so since.  With ages to 2 every identity would pass at `Publish`.
In `feed` a catalog is larger than a cycle and a cycle larger than a batch, so both
the rotation and the pacing happen; the second session is the one a batch runs into.
A ring of four overflows with two pings.  Two connections are one that failed and its
replacement.
The code has five probes; the loop over them is the same for two, and the proofs
hold for any number.  Symmetry is used over interchangeable calls, transports and
values, in `lifecycle` and `telemetry`, which check no liveness.

In `release` three attempts are a candidate, its promotion or a newer candidate, and a
repetition of either; two bases and the last commit's new workflow tree give the tests of
`check_workflow_publication` and `superseded_candidate` both outcomes.  In `parts` one
rewrite, edit or change is enough to fall between any two steps; two deaths leave two
different half-done states behind.

Deadlock is checked in every run but `release` and `parts`, where a history ends when the
runs, attempts or changes that the bounds allow are used up.

### Fairness

`lifecycle_live`: the event loop keeps running calls (weak fairness of their steps),
`asyncio.Lock` serves waiters in order (strong fairness of `Acquire`), the decoder
thread is scheduled, and a transport told to `disconnect()` lets its thread end.  No
fairness is assumed of the broker.  `write_live`: the event loop runs its ready
tasks in turn (strong fairness of a call's steps, since other calls take the loop in
between) and each wait of the code has a deadline.  `feed`: the decoder runs, the
clock moves on (strong fairness of a timer, which only counts between two calls), and
paho does not refuse a request for ever (strong fairness of `Send`).  `ssh`: the
lock serves its waiters in order, and a handshake and a command end by their timeouts;
`chpasswd` has none, so nothing is claimed of `enable_root_password`.  `doc_drop`: what
is on the wire arrives, the decoder runs, and an item that exists is published again
and again, as the maintenance asks; an item that is gone is not.  `parts`: a command
runs to its end unless it is killed (weak fairness of its steps), a release job tries
each plan again, and a maintainer repeats a request that names its version (strong
fairness of the start of a command); deaths and the steps of others are bounded.

## 4. Proofs

For all values of the constants (numbers of calls, transports, topics, requests,
contracts, probes, workflow runs, commits, readers, patterns, files, policies, version
topics, archives, mergers, targets, operators and images; sizes of queues and of the
ring; all limits), from named assumptions:

| Assumption | Says |
|---|---|
| `LifecycleAssumption`, `CacheAssumption`, `WireAssumption`, `FeedAssumption`, `DiagnosticsAssumption` | sizes are numbers, queues hold something, model values are none of the data |
| `GateAssumption`, `WriteAssumption`, `SSHAssumption`, `DBusAssumption`, `SubscriptionAssumption` | the same of limits, calls and patterns |
| `ToolAssumption` | finitely many topics, instances are numbers, no tool asks for a type twice, no companion service is called `ssh` |
| `LedgerAssumption`, `ReleaseAssumption` | runs, commits and bases are numbers, each commit has a base; fewer than 100 attempts |
| `ComponentAssumption`, `PolicyAssumption` | declarations name version inputs, and fields that hold a version |
| `PrepAssumption` | versions are numbers, a request names one or one of the bumps of the command line |
| `OciAssumption` | the platforms differ; an archive is a root, digests and the corrupt ones |
| `FuzzAssumption`, `MappingAssumption` | targets are a list; there is an image to publish |

* `MQTTLifecycleProofs`: `Spec => []TypeOK`, `[]Inv`, `[]SoleOwner`,
  `[]SessionHasDecoder`, `[]DeliversOnlyOwned`, the action property
  `HandoverNeedsDeadThreads`, and the refinement `Spec => Promise!Spec`.
  `SoleOwner` is not inductive: that a live thread belongs to `client` needs the
  references `workerRef` and `loopRef` to name it (`OwnerInv`), that only the lock
  holder changes them (`LockInv`), and what each phase inside the lock has already
  established (`PhaseInv`, `ClearInv`).  `SessionHasDecoder` needs `DecoderInv`: a
  started transport that is not being stopped has a decoder, no stop event and no
  sentinel.
* `ReadCacheProofs`: lemmas, one per step of `ReadCache`.  `AgeIsHonest` is not
  inductive, because the decoder copies an age from the queue; `QueueIsHonest` is
  the strengthening.
* `TelemetryCacheProofs`: `Spec => []TypeOK`, `[]AgeIsHonest` and `[]CacheTracksDevice`.
  The last compares cache and device only when nothing is under way, and so says nothing
  about the steps before.  `Tracks` does: as long as nothing was lost, the newest
  notification on the wire carries what the device holds, or else the newest in the queue
  does, or else the cache.  A retained message is never a removal, which is why a replay
  cannot take an item away.
* `WriteVerifyProofs`: `Spec => []TypeOK`, `[]Inv`, `[]AnswerTellsOfPublication`, and the
  action properties `PublishesQualified` and `VerifiedMeansReadBack`.  The invariant
  says what a call has established at each place (`GateInv`, `ProbeInv`,
  `ReadBackInv`, `FateInv`).  The point of the proof is time: a probe that was read
  stays known while it ages, because the limit it is compared to ages with it
  (`KnowledgeAges`).
* `SSHClientProofs`: `Spec => []TypeOK`, `[]Inv`, `[]NothingUntracked`,
  `[]FailedAreGone` and `[]ClosedForCause`.  `NothingUntracked`
  needs `Handshake`: while one call connects, no other does and nothing is open, so
  the new connection is the only one.  `FailedAreGone` needs it in turn: a cleanup
  that does nothing, because the shared connection is another one, is right only
  because what is not shared is closed already.  `ClosedForCause` needs that a call about
  to clean up holds a connection that has a cause to be closed, or one that is closed
  already and so is not torn down again (`FailureIsCause`): a command fails on an open
  connection, or long after that connection was replaced.
* `ReleaseProofs`: `Spec => []Inv`, `[]NumbersNeverShared`, `[]FloorCoversPublic` and the
  action property `PlansAreForever`.  That reserved numbers differ is not inductive: a run
  that read the ledger and has not written yet holds a plan made from an older ledger.
  `NewToLedger` says what that plan is to the ledger it was made from, and the
  compare-and-swap that this is still the ledger.  `RunSound` says what a run knows in
  each phase; `Grows`, that the ledger only grows, is why it stays true while others run
  (`StandsStill`), so each step is looked at for one run only.  `FloorCoversPublic` needs
  that every candidate tag is some reservation's and that no two reservations have one
  tag; for a nightly this rests on the sequence that names run and attempt, which the
  model tells apart below 100 attempts.
* `ReleaseProofs`, second part: `Spec => []PublishedIsWhole` and the refinement
  `Spec => ImplementsLog` of `PublicationLog`.  Both need to know whose a release is.
  `OwnInv`: tags and IDs are given once, a run in the phases from draft to publication
  finds only its own release under its ID, and that release has the run's tag, plan and
  bytes.  `LogInv`: the history of publications covers whatever is public, a number names
  one build, a run that promotes found its candidate in the history, a run with a fresh
  number is the first to show it, and in a serialized workflow the highest number spent is
  its own until it ends.  A step of the pipeline then is a step of the log or changes
  nothing that the log sees.
* `ReadFeedProofs`: `Spec => []FeedInv`, `[]CycleIsBounded` and `[]AtMostOneLate`.  A topic
  is in hand exactly between its removal and its request (`HandSound`), and a passed test
  is used up by the session that it was made in (`LateSound`).
* `PartsProofs`, a section per part:
  * numbers: a set of numbers has a least one, a bounded one a greatest, and of more
    numbers than are taken one is free (`LeastNumber`, `GreatestNumber`, `OneIsFree`).
    They rest on the well-foundedness of `<`, used through its minimal elements.
  * `Subscriptions`: `[]SubInv`, `[]NoSubscriptionLost`.  `NothingForgotten` holds from the
    snapshot of `_on_connect` on: what the broker lacks is still to be sent, by the network
    thread or by the caller that registered it.
  * `DBusClient`: `[]DBusInv`, `[]LostBusesAreFew`.  The invariant counts the lost buses
    together with the readers that may still lose one.
  * `TransportDiagnostics`: `[]DiagInv`, `[]RingTellsOneSocket`, `[]DrainedWasPinged`,
    `[]WarningShowsClose` and the action property `DrainedMeansWritten`.  The invariant
    follows paho's socket through its callbacks (`SocketSound`) and says that a ping not
    yet accounted for is newer than every drained queue in the ring (`PendingIsNewest`),
    also when the ring has dropped its oldest events.
  * `RegistryPublish`: `[]RegInv`, `[]RegistryHoldsApproved`.  Whoever still has to move
    a `latest` tag has pushed the version of every image, or will do so before.
  * `FuzzCampaign`: `[]FuzzInv`, `[]AcceptedMeansFuzzed`.  Whatever a report of the current
    attempt claims did happen in that attempt.
  * `ReadTools`: `[]ToolInv`, `[]ReadsAreHonest`, `[]ToolsAreOffered`.  Devices read, still to
    be read and of a type still to come are disjoint (`ReadOnce`), and one that was cached
    throughout is in one of the three (`NoneHidden`).
  * `VersionSync`: `[]SyncInv`, `[]InputsKeepAndAgree`.  A command that runs knows every file
    to be as committed or as its plan leaves it (`CommandSound`).  Evidence written by a
    finished command is not disturbed by a later attempt of the same plan, because a file
    that looks as committed agrees with the evidence anyway (`EvidenceSound`).
  * `PrepareVersion`: `[]PrepInv` and the action properties `NeverDowngrades` and
    `ForeignWorkIsKept`.  A merge may come long after its topic was made; that it does not
    lower the base needs that the topic is not below the commit it branched from
    (`TopicsRise`), that the bases of main rise (`MainRises`), and git's refusal when both
    sides changed the base.  What is read before the push stays free of foreign work
    (`ReadsOwn`), so a push that the remote takes as a fast-forward replaces none.
  * `OciMerge`: `[]OciInv`, `OutputIsWhole`.  A stamp never comes back (`StampsAge`), so a
    merger that finds all its stamps unchanged knows that inventory, graph and copy saw one
    and the same file (`ReadsTrue`); after the last comparison its temporary file is whole
    whatever happens to the inputs.

Only model-checked: the liveness properties `CallsReturn` (both), `ThreadsWindDown`,
`WriteReturns`, `EveryTopicInTurn`, `SyncEnds` and `PrepareEnds`, because fairness is out of
the prover's reach; and the two findings, which are violations.  What the recursive walk
`Levels` of `OciArchive` visits is not proved either: `OutputIsWhole` holds for whatever
list of descriptors it yields, as long as its tests pass.  `TypeOK` and the inductive
invariants are theorems and are not repeated as runs.

## 5. Findings

`doc_drop`: a comment in `mqtt_client.py` (lines 29-30) justifies dropping messages at a
full inbox by "the next publish of any topic refreshes the cache anyway".  The empty
notification of an item that disappeared has no successor: if it is dropped, the item
stays in the cache, and in `list_devices`, for as long as the server runs.  Its age
still tells, and a write finds it stale.

`doc_absent`: `setuphelper_status` takes every unsuccessful command for a missing
directory.  When the connection is refused, lost or too slow it answers
`success: True, installed: False`, although `docs/CAPABILITIES.md` says it tells whether
SetupHelper is installed.  `_swupdate_script` treats a failed test the same way, with an
error as the answer.

A divergence without a run: the repository's README ("Safety Model") and
`docs/CAPABILITIES.md` put the confirmation gate before the hard limits.
`validate_write_operation` tests it last, so an unconfirmed call with a value out of range
gets an error and no prompt.  Nothing is written either way.

Another: a write that times out is answered "write published to ..." (`server.py` 590-597)
also when paho dropped the command, because `MQTTClient.publish` ignores paho's result
where `_publish_read` (line 489) looks at it.  `docs/hardware-write-contracts.md` only
promises that a timeout does not prove that the device rejected the write, so the model
takes it as an outcome: `AnswerTellsOfPublication` says of a timeout that the command was
handed to paho, and of a refusal that it was not.

## 6. Not modelled, and the plan

Not modelled, and why:

* TLS policy and configuration parsing, the SSH deny patterns, the unused
  `ConfirmationManager`: no state, no interleaving.
* What is computed from one reading (PV power from voltage and current, `total_power`,
  names of enum values), formatting, logging, socket sampling: pure or I/O.
* `get_control_state`: one topic, read once.
* The legacy `candidate()` command of `release_control.py`, which refuses a policy with
  a version contract such as this repository's; the lexing of release notes; version
  receipts and the verification of artifact metadata; the text editors of
  `version_plan.py`; the parsing of `fuzz.json`: text in, verdict out.
* `workflow_contracts.py`, the change scope and the other repository checks: static
  checks of files.

Behaviour in the models that no property covers, because nothing promises otherwise:

* A command that times out closes the SSH connection under every other command on it, a
  long firmware update included, and those fail too; `ClosedForCause` says that it costs
  no call on another connection.  `close_ssh_client` also forgets the
  client; a call that still holds the old one may connect again, at shutdown only.
* A bus that the daemon closed is never replaced.
* A run that dies between creating the ledger's branch and its first write leaves a
  branch without a ledger; every later run refuses it until a maintainer restores it.
* Rerunning only the failed jobs of a run whose fuzz job had passed is refused, because
  the report names the older attempt; all jobs must be rerun.
* A registry publication that stopped halfway cannot be completed by a retry, because the
  versions it did publish are refused.

Next, in this order:

1. Lemmas about the pure operators: that `ValidateWriteOperation` passes nothing while
   writes are disabled, whatever the other settings, and that the projections of two plans
   of one base differ.
2. An abstract specification of what `VersionSync` and `OciMerge` share, a result that
   appears whole or not at all, and both shown to implement it.
3. The SSH part of the safety gate.
