# Packwright in TLA+

Packwright is a Go program with two front-ends, a Bubble Tea terminal UI and a
Wails window. It scaffolds and runs AWS manifests, deploys CloudFormation stacks,
audits an account and deletes what the user picks, and has an AI panel whose tools
act on AWS only with the user's consent.

This directory models the parts of it that are hard to test: the goroutines,
messages, files and limits around things that cost money or destroy something.
TLC checks each model on a small instance, TLAPS proves the most important results
for every instance.

    tlc -config MCEngine.cfg MCEngine.tla       # model-check one run
    tlapm ConsentProofs.tla                     # check one module of proofs

`PROJECT.json` is the index: components and their sources, runs, the source lines
of every definition, the mutants that show each property can fail, hazards,
findings and theorems.

## 1. The system

### Components modelled

| Component | State | Operations | Talks to |
|---|---|---|---|
| **Tool registry and consent gate** (`internal/ai/tools`, `internal/ai/consent`, `internal/ai/chat/gate.go`) | session approvals with the time of their last use, auto-approve list, session identifier, audit.jsonl | `Registry.Call`, `Gate`, `SetAutoApprove`, `ResetSession` | called by the chat engine on its goroutines; shows a modal through the front-end |
| **Cost meter** (`internal/ai/cost`) | session, day and lifetime totals, the recorder it captured, usage.jsonl | `PreCall`, `Record`, `Snapshot`, `LoadTotals`, `ResetSession` | asked and told by the chat engine around each provider call; several sessions share the file |
| **Chat engine** (`internal/ai/chat`) | message history, one bounded event channel per turn | `Send`, the turn's goroutine | provider, meter, registry; read by a front-end |
| **Model providers** (`internal/ai/provider/*`) | the stream being decoded, tool calls under way, the stop | `decodeStream`, `decodeChunks` of Anthropic, Bedrock, OpenAI and Ollama | the engine's `runTurn`, through a channel of deltas |
| **Chat panel** (`tui/app.go`, `chat.go`, `launch.go`) | screen, session, pending consent request, messages in flight | keys, `Update`, commands | reads the engine's channel, answers its consent requests |
| **Audit scanning** (`internal/audit`, `internal/audit/scanners`) | running scanners, token buckets, events, the one Result | `Run`, `Scan`, `Bucket.Wait`, `sendOrDrop` | AWS; the audit panel and the command line drain it |
| **Audit enrichment** (`internal/audit/postprocess`, `lastused`, `cost`) | per row: what the scanner kept, what queries found, verdict, price | `Apply`, the composers and computers of 14 kinds | rows of a scan become a snapshot |
| **Audit cache** (`internal/audit/cache`) | snapshot file, its temporary file, archives | `Read`, `Refresh`, `RefreshKind`, `Wipe` | panel and command line, in several processes |
| **Deletion executor** (`internal/audit/delete`) | loop position, predecessor counts, events, deletions.jsonl | `Order`, `Execute` | called by the audit panel with rows of the tray; AWS |
| **Staging tray** (`internal/audit/delete/tray.go`) | rows in memory, tray.json and its temporary file | `OpenTray`, `Add`, `Clear`, `flush` | its panel, and every batch, which opens the file anew |
| **Audit panel** (`tui/audit.go`) | cursor, snapshot, modal, rows of the tray, batches in flight | keys, `Update`, scan and batch commands | tray, executor, scans |
| **Resource deployment** (`action/resource/runtime.go`, `render/cfn`) | eight goroutines, two pipes, three channels, the subprocess | `Execute`, `Deploy`, `Poll`, `Wait` | the deploy script, CloudFormation, a caller that drains events |
| **Composite and shell runners, dispatch** (`internal/action/composite`, `shell`, `dispatch`) | the step, inputs handed on, the script and what it left behind, usage log | `Dispatch`, both `Run`s, the signal goroutine | a prompter; subprocesses |
| **Monitor dashboards** (`internal/action/monitor`) | ticks, one goroutine per panel and tick, a channel | `Run`, `fanOut`, `Stop`, `Wait` | AWS; a front-end that may stop reading |
| **Stream bus and safe cancel** (`internal/stream`) | subscribers and their channels | `Subscribe`, `Publish`, `Close`, `SafeCancel` | CloudFormation; front-ends |
| **Manifest hot reload** (`internal/manifest`) | watched directories, pending changes, registry | watcher, debouncer, `Apply` | inotify; the palette |
| **Packs, their installation, their pins** (`pack`, `internal/pack/install`, `config`) | trees, install records, pins in config.yaml, what the user trusted | `Add`, `Update`, `Remove`, pins, `LoadPalette`, `Resolve` | git, the user's consent; several processes |

What makes each of them correct:

- gate: nothing is written without a yes, and each decision is on record before it
  is acted on, whatever calls, resets and expiries interleave;
- meter: a cap is overshot by no more than the calls under way (the day's also by what
  no row told the meter of), and totals and file tell the same story;
- engine: one ending per turn, and it is the last event; a history a provider accepts
  after any failure;
- providers: a finished reply arrives whole, with each call's own arguments in order;
- panel: no reply to a goroutine that does not wait for one, events in order, and no
  turn or tool goroutine stuck while the user does what is asked of him;
- scanning: every kind accounted for once, and no caller, bucket or deadline holds the pool;
- enrichment: a resource in use is not called idle because something failed unnoticed;
- cache: a reader meets whole snapshots, whose times are those of the rows;
- executor: dependencies first, only what was consented to, counts that reconcile,
  a cancellation that stops the batch;
- tray: a whole file at every moment, equal to the rows in memory, one row per resource;
- audit panel: what is deleted is what was shown, what is reported is what happened;
- deployment: nothing lost and no gap in the log, no send on a closed channel, a
  cancelled run ends, an ended run is reported;
- runners: a chain stops where its policy says, a script that was signalled is not taken
  for one that finished, and cancelling ends it;
- dashboards: a stopped one ends, whoever reads;
- bus: who listens hears what was done to the stack, and an update is never answered
  with a deletion;
- reload: when changes cease, palette and registry are what the directory says;
- packs: commands that are offered were trusted, what was removed is gone, and the
  palette has every command once, the right one first.

### Where it is hard

*Concurrency.* Bubble Tea runs `Update` on one goroutine and every command on one of
its own, so results reach `Update` in any order and may belong to a panel that is gone.
The consent gate is entered by several goroutines and waits for the user outside its
lock. A deployment runs eight goroutines, a scan one per kind, a dashboard one per
panel and tick. *Processes.* Two terminals, or a terminal and a command line, share
snapshots, packs and config.yaml; no lock reaches across them. *Failure.* The program
may be killed between a write and a rename; an AWS call or a file write fails; a batch
panics half way. *Limits.* Bounded channels with readers that leave, spending caps with
nothing reserved between check and charge, buckets without tokens. *Time.* Approvals
lapse, day totals roll over at midnight, scans, batches and refreshes have deadlines.

## 2. Modules

    ConsentedWrites  <--refines--  Consent         ChatTurn  --abstracted in-->  ChatPanel
    CostMeter                                      ProviderStream: one reply of ChatTurn

    AtomicTray  <--refines--  AuditPanel  --EXTENDS-->  StagingTray
    DeleteExecutor  --abstracted in-->  AuditPanel
    DeployRun    ActionRun    MonitorLoop    CancelStream

    Scanners --> Enrich <-- LastUsed, CostEstimate     PackInstall   HotReload   PackPalette
    AuditScan  --rows-->  Enrich,  --snapshot-->  SnapshotCache

DeleteExecutor, AuditPanel and DeployRun have an MC module each, with definitions for TLC and
a configuration. The others are parts of a module that puts several side by side:

| Module | Parts | Runs |
|---|---|---|
| Chat | ChatTurn, ProviderStream, ChatPanel | MCChatReply (a turn, a reply), MCChatPanel |
| Chat, Consent, CostMeter | the turns, the gate, the meter | MCEngine |
| Actions | DeployRun, ActionRun, MonitorLoop, CancelStream | MCActions (all but DeployRun, which MCDeployRun has) |
| LocalFiles | SnapshotCache, PackInstall, HotReload, PackPalette | MCLocal |
| Audit | AuditScan, Enrich (with Scanners, LastUsed, CostEstimate) | MCScan |

The parts of one module share no variable, so nothing is gained by interleaving them:
the initial states choose which part a behaviour is about, the others are over, or
switched off, from the start. The state space is the sum of the parts' and not
their product, and every interleaving within a part is there.

XProofs holds the theorems of X and of what X is put together from: ChatProofs those of Chat,
ActionsProofs those of Actions, LocalProofs those of LocalFiles, AuditProofs those of Audit.
Definitions marked as a mutant, or "as X, but ...", are faulty versions of the definition that
follows. No behaviour uses them.

**Consent.** One `Calls` member is one `Registry.Call`. An action is one critical
section of `sessionMu`, one atomic load, or a step between two of them:
`GateCheck` (reason, auto-approve list), `ConsumeSession` (lookup and refresh or expiry),
`AnswerModal` (the user), `RememberSession`, `RecordAudit`, then `Resolve` and
`Execute`. `ResetSession` is two actions because it takes the lock twice.
`basis` is a history variable: why the gate decided as it did.

**ConsentedWrites** is the promise: a call is decided once, the decision recorded,
and then it runs if approved or is refused if not. `Consent!Abstract` maps `verdict`,
`audit` and `outcome` to it.

**CostMeter.** Money is in whole units, the file is its sum per day, which is what
`LoadTotals` takes from it. `PreCall` and the locked half of `Record` are one action
each; `TakeStamp` (before the lock) and `WriteRow` (after it) are separate, so midnight
or a kill may come in between. `NewSession` follows the order in `chat.New`: meter,
totals, and only then the recorder. Three history variables tell the day as it was from
what the meter knows of it: `spent` is what all sessions of the day have cost, `missed` the
part of it without a row of that day, `blind` what was missed when this meter was seeded.

**ChatTurn.** One `Turns` member is one `Send`. `pc` follows `runTurn`: start, cap
check, open the stream, deltas, settle, tools, close. A send is enabled only while
the channel has room: no send in `chat.go` looks at the context. Provider, meter and
tools answer in every way the code tells apart. A front-end may leave its channel. `Send`
starts a turn whatever else runs, as the code does: `overlapped` remembers it, and of two
goroutines that append to the slice at once one append may be lost. Usage comes with a clean
stop only, for each decoder overwrites the stop on its error paths, and is the meter's subject.

**ProviderStream** is one reply below ChatTurn's deltas: the model speaks in frames,
one of the four decoders makes deltas of them, `runTurn` puts the calls together
again and the next request is encoded from the result. The actions that differ between
providers say so in a guard: only OpenAI numbers its calls, only Ollama ends with the
frame that names the reason, only Anthropic and Bedrock have error frames. The body may
end, break or be cancelled between any two frames.

**ChatPanel.** One action is one `Update`, one command, or one step of a turn's
goroutine. Messages in flight are kept unordered. Numbers tell the chat models
apart, which the code does by replacing one.

**AuditScan.** One action is one channel operation, one wait for a token, one answer of AWS, or
one step of `Run`'s loop. What a scanner tells its caller stands in an outbox that must be empty
before its next step, because `sendOrDrop` blocks. The caller drains, takes the Result, applies
enrichment to its rows side by side and saves; it may leave once it has cancelled, and `Apply`
returns with rows still at work once the context is done. **Scanners** is the catalogue, one
record per scanner.

**Enrich** takes one resource of any kind through its row, its queries, its verdict and
its price. `wired` tells the program as it is built (`newClients` gets no aws.Config, rows have
no Raw) from rows and clients as the tests of the package have them. **LastUsed** and
**CostEstimate** are the composers and computers as operators over ages and prices.

**SnapshotCache** models names and inodes, because the temporary name is shared: a
process that has opened it goes on writing to its inode after another has renamed it.

**DeleteExecutor.** `Init` takes every argument a caller could pass, among them rows that
depend on themselves; `Refusal` is `Batch.Validate`, `Call` begins Kahn's algorithm, `Emit` is one
iteration of its loop, the rest is `Execute`'s two loops. A batch of one row skips the algorithm
(`Single`). Blocked rows, declined boxes, unknown decisions, failed calls and a cancellation at
any step are all there.

**StagingTray** models the handle and two files: a write truncates `tray.json.tmp` (`Torn`),
completes it, and renames it; each may fail or be the last thing the process does.
**AtomicTray** is its promise to whoever reads the file: one whole operation of the user at a
time, which he sees; one row per resource, no ID drawn twice. Read as `stored <- file`, `seen <-
Seen`, `drawn <- nextId - 1`, the panel implements it: a rename is the operation, a failed or
unfinished flush is nothing but a lost ID. **AuditPanel** extends StagingTray with the keys,
scans and batches of `tui/audit.go`. `Execute` is here the set of rows left to delete; its order
is DeleteExecutor's subject. A panic in `Update` (a cursor past a shorter list) or in a batch (a
log that could not be opened) ends the process (`Die`).

**DeployRun.** One action is one channel operation, signal or system call. A line
or stack event is its number in its source. The pumps may give up on a line too long,
the poller may find a final event of an older deployment or of a nested stack, the script
may leave a process holding the pipes, the caller may stop reading.

**ActionRun** is a composite whose run steps are shell commands, with `Dispatch` around
the chain and around each step. Inputs map fields to the number of the step that was given them;
what one step hands to the next is filtered by the fields of the next one's form
(`FilterByFormIDs`). Waiting for the script may itself fail.
The script may exit by itself, by SIGTERM or by SIGKILL, and leave a process behind that
holds its pipes. **MonitorLoop** has one goroutine per panel and tick; budgets run out in
order but a refresh may outlive its own. **CancelStream** is `SafeCancel` against a stack
that goes its own way, and the bus with subscribers that come before, between or late.

**HotReload** goes from the user's edits through inotify, `handleEvent`, the debouncer
and the out channel to two readers: the palette, which reloads everything on any change,
and `Apply`, which changes a registry one file at a time. A reload of the palette stops at the
first file that does not parse, and with it the others of its place are lost, be that the user's
root or a pack (`Nested`). **PackInstall** has one action per step on disk of Add, Update and
Remove, for two processes. **PackPalette** is the pure part: discovery, `requires`, pins, `Resolve`
and `LoadPalette` over every small home directory, with packs that are links, that give themselves
another's name and that ask for other versions. The reference definition uses neither `Resolve`
nor `Check`: what a requirement means is said by which versions come earlier (`Allows`). Packs are
sorted by the names they give; packs of one name keep their order, as Go's sort leaves up to
twelve.

## 3. What TLC checks

| Run | Instance | Result |
|---|---|---|
| `engine` | the turns: 2, at any time, 2 iterations, 1 text and 1 tool per reply, channel of 1; the gate: 2 calls, 2 write tools, a read, a refused and an unknown name, clock to 3 with a timeout of 2; the meter: 2 callers, caps 2 and 3, costs 1..2, one midnight, 4 calls, restarts | 1.28M states: one final event and it is last, well-formed requests while turns are one at a time; no write without consent, one audit line before acting, idle approvals lapse, refines ConsentedWrites; both caps overshot by at most what is in flight and, for the day, unseen, no money lost or invented |
| `chat_reply` | 1 turn of up to 2 tools per reply; a reply of 2 calls of 2 fragments from each of 4 providers | 23k states: a reader that stays sees the end; a finished reply arrives whole |
| `chat_overlap` | the turns of `engine` | **violated**: finding 3 |
| `panel` | 2 turns, 2 panels, 2 events, 2 requests, channel of 1 | 473k states: modals belong to waiting goroutines, events in order, a turn left alone is shown to its end |
| `scan` | 2 scanners (2 pages; 1 page with 2 calls per row), 1 or 2 slots, channel of 1, buckets of 1; one resource of each of 14 kinds, ages around every threshold | 270k states: a complete Result, the scan ends; verdicts follow the facts |
| `scan_address` | the same | **violated**: finding 1 |
| `delete_executor` | trays of up to 3 rows, every relation of up to 3 edges, a row's to itself included, every choice, cancellation | 973k states: order, exact refusals, counts, one late call at most |
| `audit_panel` | 2 resources, 2 row IDs, 2 panels, 2 scans, 1 batch, failures and kills | 1.7M states: the tray refines AtomicTray (whole file, memory agrees, one row per resource), nothing cleared comes back, a report arrives |
| `audit_report` | 2 batches, 1 panel | **violated**: finding 2 |
| `deploy` | channels of 1, 2 lines and 1 line, 1 stack event | 557k states: complete when closed, no gap, a cancelled run ends, an ended run is reported |
| `actions` | chains of up to 3 steps of several kinds, forms of different fields; 2 panels and 3 ticks; a stack and 2 subscribers with a channel of 1 | 276k states: chain policy, signalled is cancelled, a cancelled chain ends, a stopped dashboard ends, a cancel is reported |
| `local` | 2 processes on a snapshot of one kind; 2 on packs of 3 versions, 3 operations; 3 files, 2 slash commands, 4 edits; 2 packs of up to 2 manifests, every operator of a requirement on either side of the running version, links, names of another, and a pin | 1.5M states: torn only by an overlap, honest times, trusted commands, removed is gone, readers catch up, the palette is right |

*Why these bounds are enough to mean something.* Two actors give every interleaving of a pair,
and each shared resource here is contended by pairs. Channels of capacity 1 are full after one
send, so blocking happens in almost every behaviour (they are 16 and 64 in the code). Two lines
on one pipe are needed to see one dropped and a later one delivered; a restart, a midnight, an
expiry and a second panel each occur inside the bounds. Three rows carry every shape of Kahn's
algorithm that matters: chain, fork, join, a row that depends on itself, and a cycle beside a
free row. (A row alone in its batch is returned unlooked at, so its dependency on itself is not
refused; see Disagreements.) One slot makes a scanner wait for another, one token makes it wait
for time. Two fragments of two calls can be swapped, dropped and mixed up. Three steps are a
step that hands inputs on, one that fails, and one after it. One kind of resource shows that a
merge keeps that kind's time and skip mark; that it leaves the other kinds alone is what
`SnapshotsAreHonest` proves for any set of kinds. Three ticks of two panels are more updates
than the dashboard's channel holds. Four edits are enough to take a slash command away from a
file, give it to another, break a file beside it and take the directory away. Every property has
a mutant of the code, an off-by-one, a dropped guard or a swapped order, that TLC catches under
the run's own configuration.

*Bounds in guards* are named constants: `MaxClock`, `MaxSession` (Consent); `MaxDate`,
`MaxAdmitted` (CostMeter); `MaxUses`, `MaxTexts` (ChatTurn; `MaxIter` is the code's own);
`MaxCalls`, `MaxParts` (ProviderStream); `MaxEvents`, `MaxAsks`, `MaxPanels`, `MaxPosted`
(ChatPanel); `MaxEdges` (DeleteExecutor); `MaxIds`, `MaxPanels`, `MaxLeaving`, `MaxScans`
(panel and tray); `MaxLines`, `MaxEvents` (DeployRun); `MaxTicks` (MonitorLoop); `MaxTime`
(SnapshotCache); `MaxOps` (PackInstall); `MaxEdits` (HotReload); `MaxFiles` (PackPalette).
Deadlock checking is off where the modelled system does stop: all turns ended, all panels
used up, the scan, the command or the deployment over.

Where a type invariant is not one of a run it documents the state; `GateTypeOK`, `MeterTypeOK` and
the `TypeOK` of ChatTurn and DeleteExecutor are proved.

### Fairness

- *ChatTurn*: the goroutine of a turn runs, provider and tools answer, and a front-end
  that reads keeps reading. A reader that has left gets no fairness.
- *ChatPanel*: commands run, messages are delivered, and a user with a modal in
  front of him answers. No other key is fair.
- *AuditScan*: goroutines run, AWS answers or refuses, time fills the buckets, and a
  caller that reads reads on. A scanner's wait for a token is strongly fair: several wait on
  one bucket, and the one that wins is not always another. The deadline is not promised, and
  nobody must cancel.
- *AuditPanel*: the tray's flush and a batch's steps go on (every AWS call has a
  deadline). Delivery of a batch's message is strongly fair: it waits on Bubble Tea's
  unbuffered channel, and Go serves blocked senders in their order, however busy `Update` is.
- *DeployRun*: every goroutine is scheduled. `PollStopped` is strongly fair because a
  `select` does not choose the tick over a finished context for ever. `ChildExit` is fair
  by assumption: nothing in the code ends a process the script left behind, and
  `EveryRunEnds` rests on it. That DescribeStackEvents answers sooner or later is the other
  assumption. The script, the stack and the user are not fair.
- *ActionRun*: the program runs, both signals are sent in their time, and a process left
  behind ends. The script need not exit and the user need not answer.
- *MonitorLoop*: ticks start their goroutines, budgets run out, a goroutine whose context
  is done goes. `Drain` is strongly fair for the same reason as `PollStopped`. Nobody needs
  to read, and no AWS call to answer in time.
- *Everything else* claims safety only. `ReadersCatchUp` says what holds when nothing is in
  flight any more; that this comes about is a timer in the debouncer.

### Findings

1. `scan_address`: no scanner fills `Resource.Raw`, and the enrichment of an Elastic IP
   looks for its association there (postprocess/lastused.go:44): an attached address is
   called idle and charged, against per_kind/ec2_eip.go:27-29.
2. `audit_report`: the panel counts a row as failed when the tray still lists it, and
   nothing takes rows off the tray: a batch that succeeds is reported as failed.
3. `chat_overlap`: Enter in the chat panel sends whether or not a turn runs (tui/chat.go:183),
   while `Session` is said to be unsafe for that (chat.go:143-144): the second turn's request
   carries the first one's tool calls without their results.

### Disagreements

Met while modelling: visible in the models, where the properties are stated so that
they say what the code does guarantee, and without a run of their own.

*Chat.* `chat.New` builds the meter before it installs the usage recorder (chat.go:206,
219), so a process's first session writes its usage to nothing, against meter.go:283-285; what it
spent is not in the seed of the next session's meter, and the day's hard cap lets it be spent
again, against meter.go:270-271 (`DayOvershootBounded` has it as `blind`).
An Esc in flight when a consent request arrives closes the panel over the modal; the request
is never answered (tui/app.go:108, 168), against app.go:169-170. An answer
given across a `ResetSession` is remembered after it (consent.go:181, 222). A turn whose
reader left stays blocked in a send even when cancelled (chat.go:298). A message of a closed
panel reaches the next one (app.go:148-150). A provider's reply that is cut at `max_tokens`
in the middle of a call is taken for complete (chat.go:360, 375-386): the tool is called
without arguments and half a JSON object enters the history, from which Anthropic, Bedrock
and Ollama refuse to encode any later request. A cancelled stream may lose its StopDelta,
which provider.go:42-45 says always comes, and the part that arrived is taken for the reply.
A body that ends in good order before its end, and an error frame of OpenAI or Ollama, are no
error to anybody. Deltas are sent without a look at the context. OpenAI is never asked for
its usage, so its caps never bind.

*Audit.* A batch opens the tray anew and takes every row, also one that was staged after the
Enter and never shown (tui/audit.go:324), against executor.go:49. A second Enter starts a second
batch (audit.go:302). A scan that lists fewer resources leaves the cursor past the end
(audit.go:265). A log that cannot be opened panics the batch (audit.go:339). A scan of the panel
that runs out of time replaces a complete snapshot by a partial one. `audit refresh --kind`
replaces the snapshot, while its help promises a merge. `Apply` returns with rows in flight once
the context is done (postprocess.go:74-76), while its comment says it blocks until every
enrichment completes (48-50); the snapshot is then saved while they still write to it. A row
that depends on itself is a cycle to Kahn's algorithm, but a batch of one row never reaches it,
while order.go:9-12 promises `ErrCyclicDependency`. A bucket's own calls that give up waiting
for a token do so without a warning (s3_bucket.go). Volumes, databases and gateways without any
signal are called idle with confidence Low, not Unknown as lastused.go has it. Kinds without a
row are missing from `ScannersRun`. Two processes share one temporary name (cache.go:360).

*Deployment and actions.* The poller stops at a final event of an older deployment or a nested
stack (events.go:127-131). A line longer than the scanner's buffer silently ends its pump. A
non-zero exit of a shell command is success to the chain and the usage log. A composite hands on
the inputs of the last step that succeeded (runner.go:348-350), where 43-45 say the previous
run-step's; `ChainKeepsItsPolicy` leaves open which earlier step it was. `CancellingStarted` is
said to come before any AWS call; DescribeStackStatus comes first. A subscriber that comes after
`Close` waits for ever. A refresh that outlives its tick's budget runs beside the next one of
the same panel, and its update may arrive after the newer.

*Manifests and packs.* Of a rename across files, or of two files with one slash command, the
removal may come last and take the other's command from the registry; a change overtaken there
stays overtaken; files of a directory deleted and created again are missed (watcher.go:201). One
malformed manifest hides the user's whole scope, or the whole pack it is in. Packs behind a
symbolic link, which is every local pack, are not discovered (discover.go:53), while
local.go:97-101 says an edit to one is seen on the next discovery; `PaletteIsRight` allows their
rows and does not ask for them. A pack may give itself the name of another, or `user`
(discover.go:128 only wants one), while pack.go:129-130 says the name is the directory's: its
commands are then merged with the other's, and `PaletteIsRight` says which comes first only when
names are kept. A row is marked as pinned even when its pin dangles. The caret keeps only the
major version, also for 0.x (the documents call the syntax npm's without more, so this is no
finding). `Update` pulls before it asks, so the new tree is live while the prompt is up, and a
crash between the pull and the record makes the refused tree the one to go back to; two refused
updates at once can leave it in place. Of two `Add`s of one name, the loser's clean-up removes
the winner's tree. A pack pinned to a version can never be updated.

## 4. What is proved

Theorems hold for every value of the constants that the named assumption allows.

**ConsentProofs** (`GateAssumption`: disjoint kinds of names, a positive timeout).
`IInv` strengthens the properties by two facts per call: `CallOK`, what is known at
each point of the gate (undecided before the decision, exactly one matching audit line
after `RecordAudit`), and `Justified`, why a decision was reached. The step that needs thought
is the session lookup: an approval may have been granted by another call long ago, so
`GrantsPersist` shows that a user's "approve session" answer is never erased from the
history. From `IInv`: `TypeCorrect`, `WritesAreConsented`, `DecisionsAreAudited`,
`GrantsAreUserMade`, and of every step `LapsedStaysLapsed`. `ConsentRefines` shows that every
step is a step of ConsentedWrites or a stutter under the refinement mapping.

**CostMeterProofs** (`MeterAssumption`: finite `Callers`, costs positive). `CapInv` states
`SessionOvershootBounded` inductively, charging every admitted call with `MaxCost` before it is
counted. `PreCall` adds one such charge while the total is under the cap; `CountUsage` trades it
for the real cost. The bound is reached. The day's (`DayCapBound`) is a bound on `spent`, what all
sessions of the day have really cost, and the meter does not know that: `SeedInv` says how far
off it is. What was spent is at most what the meter says plus `blind`, for the part it was seeded
with is all of the day's rows, and what was spent is at most what the file and the rows on their way
to it hold of the day plus `missed`; `blind` is never more than `missed`. With that, `PreCall`'s test
of the meter's own total bounds the real one.
`LifetimeAccounted` balances the lifetime total against the rows and the calls not yet recorded.
The sums are folds over finite sets; `SumOf` and its companions are proved by taking a
counterexample with the fewest elements, which needs no induction rule.

**DeleteExecutorProofs** (finite `Rows`, `DependsOn` arbitrary). `OrderInv` says that
`indeg[r]` counts exactly the selected dependencies of `r` not emitted yet (but in a batch of one
row, where nobody counts); with it every
emitted row follows its dependencies (`CallsFollowDependencies`). `RefusalMeansCycle`
goes both ways: rows left when nothing is ready form a cycle, and a batch fully emitted has
none, for the first emitted row of a cycle would depend on an earlier one (the least
position exists by a lemma on natural numbers). Also `StartsAreConsented`, `TypeCorrect`.
`Ledger` relates the three accounts of a batch, row by row: the counters are the sizes of the
sets of rows that ended so (`CountInv`), the log has a line where a call was made and its
verdict is the event's (`LogInv`), rows not reached have neither (`EndInv`), and after a
cancellation only the call under way may still end (`LateInv`). It gives `CountsReconcile`
and `CancelLeavesOneCall`.

**ActionsProofs** holds three parts. *The deployment* (positive capacities). `EventsHaveNoGaps`:
there is, for each source, a last item merged such that the merged channel holds exactly the
items after the received one up to it, in order (`Contiguous`), and what a fan-in holds is the
next one (`Upstream`), unless it has started to drop. Dropping needs a cancelled context, and
from then on a fan-in never sends again. That last fact is what rules out the hole. `WaitIsLast`
chains the ends: pumps and poller, fan-ins, closer, reaper, `Wait`. `ClosingIsComplete` adds
what a pump or the poller that has ended has read (`RunInv`), so that nothing is left upstream
when the closer comes to close the channel.

*The composite* (`ActionsAssumption`: a plan is a sequence of steps validateStep lets through).
`ChainInv` ties the place of the runner to the step it is at (`AtPlace`) and every result to
its step (`ChainSoFar`): all but the last succeeded or were let pass by on_failure, and what a step
was handed is what one single earlier step of the chain had been given, filtered by the form
(`TakesOver`), because `prev` always holds the inputs of one step or none (`HandsOn`).
It gives `ChainsKeepPolicy` and `SignalledAreCancelled`.

*The bus* (any set of subscribers, any buffer). `BusInv` looks at what a subscriber has received
together with what waits for him: a step from one queue to the next leaves both together as
they were, and a publish adds the report to everybody there or to nobody. With each subscriber
on the list once (`JoinsOnce`, `LeavesOnce`) that gives `CancelsAreReported`.

**LocalProofs** (`LocalAssumption`: finite sets of files and versions, no slash command called
`missing`, `broken` or `none`; directories of packs in order, none of them `user`; nothing is
assumed of the names packs give themselves; any finite set of processes) holds four parts.

*Snapshots.* `SnapshotsAreWhole`: as long as no two processes were between opening and renaming
at once, the one that is there owns the temporary name (`Tidy`): it is not the snapshot's inode,
it is empty after the open, whole after the write, and only then becomes the snapshot. What a
dead process leaves under the temporary name is truncated by the next open.
`SnapshotsAreHonest`: what a process has merged and what any whole inode holds claims of no kind
more than a scan of it has found (`HonestInv`); the same holds of an inode under another name,
which is why no exclusion is needed.

*Packs.* `PackInv` says of each job what its place implies (`Placed`), what an update or an
install alone at its name has made of tree and record so far (`Clean`), and what a removal has
undone (`Undone`); and of each name that a clone nobody works on has a record of the very shell
commands consented to (`NameInv`). What is at a name is changed only by jobs of that name, so a
step is framed to its own name first (`Frame`, `Own`) and only there examined; two jobs at one
name know that they share it, which is what the exceptions of the properties are about.
`ClonesAreTrusted` and `RemovalsLast` follow.

*Manifests.* `ReloadInv`: for each file, the last notice of it on its way to the readers, be it
in inotify's queue, pending in the debouncer, flying or in the channel, says whether the file is
missing now (`Waiting`), and where none is left the readers have what is on disk; the registry
has no entry but those of `pathToSlash`. Proved with lemmas on the ends of sequences, since a
queue is read at one end and written at the other. `ReadersSettle` follows: when nothing is on
its way, the palette and the registry are the files', but for the histories the property excepts.

*The palette.* Nothing happens to a home directory in the model, so what is proved is what
`LoadPalette` computes from any of them: any list of packs with any names, links and requirements,
any manifests, pins and wizards (`PaletteRight`, hence `PalettesAreRight`). That `Check` accepts just
what suits the program is `CheckSuits`, for every version and every operator. Everything `LoadPalette`
builds is a concatenation of lists, each a filter or a group, so all rests on one lemma: the k-th row
of `FlattenSeq` is an entry of one of the lists, in order, and none is missing (`Flattened`). The
library defines `FlattenSeq` by a recursive function; that function's existence and what it holds at
each place are shown at the least place at which they could fail (`LeastNatural`), so that no
induction rule is needed. From there: sorting packs by name is a permutation (`Sorted`) that leaves
a list in order as it is (`SortedAlready`), so discovery finds each healthy pack once
(`DiscoverIsRight`); filtering keeps order and distinctness (`FilteredLists`), lists of disjoint sets
make one of their union (`FlattenedLists`), promoting the pin changes the first match and no other
(`Promoted`), `Resolve` returns every match once with the right one first (`Resolved`), and so on
up to the groups (`GroupIsRight`) and the rows (`CommandsAreRight`). The reference rule of the first
row speaks of the last pack by directory; only there are names needed to be the directories'
(`PacksDiscovered`, `LeadOfSources`).

**ChatProofs** holds three parts.

*Turns* (positive `MaxIter`, `ChanCap`; any set of turns, at any time). `TurnInv` ties the place of a
turn's goroutine to its counters and the terminal event: before the end nothing it sent is
terminal (`Plain`), at the end exactly the last event is, be it still in the channel or received
(`Ended`). It gives `TurnsEndOnce`, overlapping turns included. The history is the engine's, shared by
all turns: `RequestsAreWellFormed` holds until a turn is sent while another runs (`overlapped`), which
is the most the code gives (finding 3). Until then at most one turn runs (`Alone`), it owns the end of
the history, and what it has appended so far has the shape its place says (`Ordered`, `HistoryInv`).

*The reply* (`ChatAssumption`: the bound of calls is a number). `ReplyInv` looks at what
`runTurn` has put together and at what is on its way to it as one (`Way`: the channel and what
the decoder has not sent yet). Of each call the fragments that have come are its first
(`CallRight`), every other one asked for is on the way, each delta on the way belongs to a call
of the model and has not come before (`DeltaRight`), and those of one call are in order
(`InOrder`). A frame adds at the end of the way, a send moves along it, a receive takes its head:
with the order, the next fragment of the head's call can only be the head. `StopRight` says what
the StopDelta can claim; when it claims an end nothing is left on the way (`Delivered`), which
gives `RepliesAreTheModels`.

*The panel* (`ChatAssumption`: no turn is called `none`). `Questions` says that a request in
flight, the question on the screen and an answer not yet taken each have a turn whose goroutine
waits for it (`ModalsAreAwaited`), and `Readers` that a turn has one armed read or one message
on its way and never both, so that messages Bubble Tea delivers in any order are one at a time
for a turn (`TranscriptsKeepOrder`). The panel is proved against the turns ChatPanel abstracts.

**AuditPanelProofs** (any resources and batches). `TrayInv` relates the three copies of the
tray's rows, in memory, put aside for the roll-back and on file, at each point of a flush
(`TrayStaysSound`). `BatchInv`: no copy holds a row given out before a batch began that
the batch did not show; hence what one Enter deletes was shown in that modal
(`NothingClearedIsDeleted`), whatever was cleared, rolled back or staged again in between.
`Pending` says what a flush may be writing: the rows it found on file, none, or those and one
new row under the last ID drawn. With `saved = file` from `TrayInv`, a rename is then one step
of AtomicTray or a stutter, and every other step draws an ID at most; `Seen` is the file all
along (`TrayChangesByWholeOperations`).

**AuditProofs** holds two parts.

*The scan* (`ScanAssumption`: the scanners are listed once each, have a
page at least, and a row is of one kind). `Gathered` says which of its rows a scanner holds at
every point of its pages, rows and extra calls; `Recorded` what the pool has of it; `HasSaid`
what it said last, wherever that event is on the way from its outbox through the channel to
the caller. `Collected` and `Caller` carry this over the pool's end to the result and to the
cache (`NoKindIsLost`).

*Enrichment* (`AuditAssumption`: ages are natural numbers and the price list has a positive
price for an idle address, as the embedded lists have; a region without a list is outside it:
nothing has a price there, so price and verdict of an address cannot agree). The composers are
not compared with a second copy of themselves but with the evidence a kind leaves of its use:
`Sound`, proved of each of the fourteen, says that a row called High shows such evidence and
that a row which shows it is called Medium at least, however far its signals lie apart
(`ComposeIs`; for a bucket, which is never High, because its evidence and its other signal, a
metric of the lookback window, are both of the last 30 days and cannot disagree). `EnrichInv`
says how far a row fits the resource: each field holds what is the case or nothing (`Told`), and
with working clients all of them but what is still to be asked or failed (`Heeded`); the two
together carry `Sound` from the row to the resource (`RowFitsFacts`). With the price of an
address (`AddressCost`, the library's fold over one line) this is `VerdictsFitFacts`, for any
ages and prices.

**Model-checked only.** Liveness under fairness, which is out of the prover's reach:
`ReaderSeesEnd`, `PatientTurnIsShown`, `PatientBatchIsReported`, `EveryRunEnds`,
`CancelEndsChain`, `StoppedMonitorEnds` and `ScanEnds`.

## 5. What the models leave out

### Not modelled

| Part | Why |
|---|---|
| Resource forms, validation, rendering | sequential code before a deployment starts; wording and per-field rules are most of it |
| Chat tools; AWS clients of the deletion | one AWS or file call each, behind the gate Consent models |
| Launcher and profile switcher | lists and keys of their own screens; nothing opens the switcher yet |
| AI configuration, keys, egress, redaction | key store calls, a host list, text patterns: no interleaving; redaction is over strings |
| AWS wrapper and cache; update check | one cache lookup around one call |
| Graphical front-end, command line | bindings and flags onto the packages above |
| Error catalogue, scaffolding, logging, usage, theme | catalogues, wizards that write files once, writers: no state two actors touch |

### Hazards no property covers, or covers in part

Two sessions alive at once seed their meters from the same rows (caps.go:18); one live meter at a
time is modelled. A `Delete*` call whose answer is lost is logged as failed although AWS may have done
it (executor.go:126): the model's call fails or succeeds, and the code tells no more. An answer given
while a reset runs is remembered after it (consent.go:181): the user did say yes, and no property of
the gate speaks of resets. Enrichment still in flight at the deadline writes to rows that are being
saved (postprocess.go:74): the model shows it, and no property holds of such a snapshot. A second
Enter in the audit panel starts a second batch (tui/audit.go:302): AuditPanel's `Batches` allows it
and `audit_report` has two, but the passing run has one; `NothingClearedIsDeleted` is proved for any
number. `EveryRunEnds` rests on two premises, that a child of the
script ends and that AWS answers. `VerdictFitsFacts` excepts a query that failed when it says that
what is used is not called idle. Properties that except a case named under Disagreements (a request
closed over by an Esc, a row staged after Enter, overlapping pack operations, overtaken changes) say
so in their comment.

### Abstractions

Texts, prices, AWS answers beyond success, failure and what a property distinguishes.
Two processes share the snapshot and the packs; on the tray there is one. `UserReason`,
notes and other fields nobody decides on are left out, and so are parsing and templates: a
manifest loads or does not. In DeployRun, everything before the script starts is one
initial state. In AuditPanel, the result of `Execute` row by row (DeleteExecutor has it)
and scanning (one result; AuditScan has it). In ActionRun a step's template is resolved or
fails. `install.*`, `Config.Save`, `manifest.Apply`, `SafeCancel` and the composite and
shell specifications are modelled as the packages offer them; the program has no caller for
some of them yet.

## 6. Plan

What is modelled is what is worth modelling (section 5 gives the reasons for the rest), and
what can be proved of the runs' safety properties is proved: every invariant and every action
property a passing run checks is stated by a theorem. What is left to TLC is liveness.
