# CozyGateway in TLA+

Specifications of the CozyGateway repository: TLA+ modules translated from its
source, TLC configurations that check them on small instances, and TLAPS
proofs of the results that hold for every instance. Paths are relative to the
repository; `gateway/` stands for `packages/gateway/src/` and `plugin/` for
`integrations/attach-plugin/cozygateway/`.

CozyGateway lets a phone talk to a self-hosted agent. A *gateway* (Node,
SQLite) keeps the conversations; a *plugin* inside each agent process (Python,
SQLite) dials the gateway over a WebSocket and runs the turns. Their wire
protocol, attach-v1, carries two durable streams, events up and commands down,
and everything a person sees is projected from the first and caused by the
second. On top of the streams stand the parts that decide when a turn is begun
and when it is over: the turn runner of core threads, the native data plane of a
bot's own chats, the computers such a chat may run on, durable tasks, group
rooms, and the requests an agent makes of a phone.

## 1. Inventory

### Modelled

**Event stream** (`plugin/attach_spool.py`, `plugin/attach_client_v1.py`,
`gateway/adapters/attach/ingress-v1.ts`, `gateway/storage.ts`).
- State: the plugin's outbox rows, its cursor, the turns it sealed; the
  gateway's inbox rows, its cursor, the turns it sealed; per socket the
  negotiated capabilities, the frames sent, the frames buffered, the wire.
- Operations: journal an event, drain a window of it, admit it or refuse it,
  ack it, ask for a gap, heal holes, adopt a resume cursor, withdraw media,
  compact acked payloads, close, redial.
- Hard: two sockets of one plugin alive at the gateway; frames of the old one
  read after the hello of the new one; acks dropped under backpressure; a spool
  file lost or migrated from an older build with holes in its numbers.
- Correct when: a number never means two events, nothing is given up before it
  is durable, neither side refuses a faithful peer, and every event arrives.

**Command stream** (same files, other direction).
- State: the gateway's outbox rows (acked, cancelled), the plugin's inbox rows
  (processed), per socket the send cursor and window, the handlers running.
- Operations: queue, flush, downgrade to a discard, cancel, retire by ack or by
  resume cursor, journal and acknowledge, dispatch, record as processed, replay
  what a crash or reconnect left unprocessed.
- Hard: the ack precedes the execution, so a crash between them must replay and
  a replay must not run twice; capabilities change between two connections; a
  cancel races the ack; one cumulative cursor speaks for every row.
- Correct when: what is retired was taken, a turn starts at most once, what was
  discarded never runs, a deletion is never lost, and every command is done.

**Turn runner, attach session adapter, transcript projection**
(`gateway/turns.ts`, `gateway/adapters/attach/adapter.ts`, `native-sink.ts`,
`gateway/server.ts`, `plugin/adapter.py`).
- State: per thread the queue of messages, the live turn, the remembered
  approvals; the transcript; the plugin's active, running and sealed turns and
  the turns it is about to seal; the harness's view of each approval.
- Operations: submit a message, a steer, a stop phrase; interrupt; the
  wall-clock bound; start or refuse a turn; resolve an approval; project a
  reply, a terminal or an approval; run, answer, seal, fail, ask, lapse.
- Hard: a stop, the bound and the agent's own terminal race to end one turn;
  the adapter lets go of a turn the plugin still runs; a projection callback
  and its marker are two writes; queues and approvals live in memory.
- Correct when: turns form a queue, a reply reaches the transcript once, a card
  is announced and settled once, and a steer or stop acts on its own turn only.

**Durable tasks** (`gateway/tasks.ts`, with the discards of `storage.ts` and the
turn ends of the native data plane).
- State: the task as its append-only event stream says, its runs, waits, absence
  episodes, declared artifacts and dispatch outbox; the agent's runs.
- Operations: admit, pause, resume, cancel, retry, rescope; dispatch a turn, an
  interrupt or a steer; take, verify, ask, declare, end; disconnect, reattach,
  let a lease run out; discard, time out, seal as lost; retry automatically.
- Hard: three clocks decide that a run is over, the agent's terminal, the
  absence lease and the data plane's sweep, and a person's intent crosses all
  of them.
- Correct when: the agent never carries two runs, no late event revives a run
  that is over, and a cancel takes effect.

**Native data plane** (`gateway/hermes-bridge/native-data-plane.ts`,
`plugin/adapter.py`).
- State: the conversations of a bot, each with its active turn; the open steers;
  the recorded terminals; in memory, the turns whose owner is lost, that were
  asked to stop, or that await a workspace.
- Operations: send (which opens a turn or steers one), stop, change or clear the
  conversation, adopt the agent's; handle an event; reconcile a hello; reap.
- Hard: a send awaits between its reads and its writes; a turn may be ended by
  its own frames, by a hello that does not name it or by a sweep, and the steers
  nobody answered are asked again as a turn.
- Correct when: no turn is dropped, no words are asked twice or forgotten, and a
  turn ends.

**Group rooms** (`gateway/hermes-bridge/group-rooms.ts`, `group-turn.ts`,
`group-protocol.ts`).
- State: the room with its log, marks, holds and epoch; the turn rows; the chain
  of drives; the queued threads; the compress in flight; the live bubbles.
- Operations: send, drive a round, check the roster, ask a member, post or pass,
  time out, stop, compress, mirror an outside message, delete, recreate, restart,
  recover a settled turn.
- Hard: a drive is an asynchronous loop, and a stop, a deletion and a recreation
  under the same name come while it waits.
- Correct when: a reply is posted once and in its own room (but for a turn that is
  settled again, section 3), no turn or bubble is left behind, and no queued thread waits for nobody.

**Phone requests** (`gateway/mobile-node.ts`, parts of `ws-hub.ts`, `server.ts`).
- State: the table of pending and settled requests, the phone's sockets and what
  they advertised, the records a person reads, the receipts, the agent's calls.
- Operations: admit, route, send, resend, report a stage, answer, upload in two
  steps, expire, withdraw with the turn or the agent, forget, shut down, crash.
- Hard: the first of an answer, a deadline, a cancel, a turn end and a lost agent
  settles; a receipt or a record may fail to be written; an upload holds the request outside
  the table.
- Correct when: the person, the agent and the receipts agree on one outcome,
  nobody is asked on behalf of what is over, and every record that could be
  written settles.

**Chats on a computer** (`gateway/runner/chat-executions.ts`, `lane.ts`,
`gateway/chat-configuration.ts`, the sends of `native-data-plane.ts`).
- State: the chat's chosen workspace and its lock; the sends in preparation; the
  execution rows and their tokens; the executions' attach sockets; the
  computer's stream with commands down and receipts up; its processes.
- Operations: choose a workspace, send (prepare, then open a turn) or steer,
  create, start again, retire and release an execution, sweep, say hello,
  supersede, close, leave or delete the conversation, restart.
- Hard: a preparation awaits the queue of its chat, two reads, a process on
  another machine and a configuration request, and every one of them may be
  overtaken by a new choice, a deletion or a reconnect; teardown is a command
  and a receipt over a stream that loses both.
- Correct when: a chat's words all go to the workspace it is locked to, it has
  one execution, and what lost its chat is torn down.

### Not modelled, and why

| Component | State and operations | What makes it hard, or why it is left out |
| --- | --- | --- |
| Projection retries and dead letters | attempt counts, operator release | `TurnRunner` keeps the barrier they raise; the counts decide only when |
| Push and live activity notifiers | collapse keys, `scheduled`/`sent` marker | fire and forget |
| Assignments, artifacts | rows changed in one transaction each | clients of rooms and tasks, whose side is modelled |
| WebSocket hub, beyond what phone requests need | per-device queues and replay cursors | a fan-out of decisions made elsewhere |
| Gateway maintenance | an update operation that outlives the restart it causes | its other half is a host script |
| Push relay, pairing admission | a table, a daily cap, token buckets | sequential counters, unit-tested |
| Contract schemas, conformance suite, configuration, CLI, TLS, QR | none that changes | data shapes and start-up code |
| Hermes bridge services, provider connections, observe dashboard | caches around an external dashboard | the behaviour is the service's, which is not in the repository |
| Plugin media, memory, mirror; installer and supervisors; Docker | files and host services | I/O |

The part of each modelled component that its module leaves out is named in its
`PROJECT.json` entry. Most of the repository's lines are request handlers,
schemas and proxies of these last rows; the modules cover the code in which two
actors meet.

`PROJECT.json` lists every component with its status, and every hazard at the
line where it bites with the properties that would catch it.

### How the parts meet

```
 phone --http/ws--> TurnRunner --send/steer/interrupt--> session adapter
                        ^                                    | queue a command
   transcript <---------+--- projection <---+                v
                             (callback,     |         command outbox ==> inbox --> plugin runs
                              then marker)  +-- inbox <== event outbox <-- replies, terminals, cards
                                                 one attach-v1 socket at a time
```

`AttachEventStream` and `AttachCommandStream` model the double arrows in full.
The other modules model what stands at both ends of them and use, for the arrows
themselves, what the stream modules are shown to implement: an ordered log that
delivers each element once (`EventLog`).

```
 bot's chat  --> native data plane --+--> the two streams <--> agent
 task        --> its dispatch outbox-+           |        <--> execution on a computer
 room member <-- drive (one turn at a time) -----+                  ^
 a send --prepares--> execution rows --commands--> computer --------' starts, ends
                            ^----------receipts--------'
 agent --request--> broker --frame--> phone --answer or upload--> broker --outcome--> agent
```

The native data plane ends, on its clock, the turns of tasks too (`Tasks` has
those steps), tells tasks and rooms of the terminals it projects, and withdraws
the phone requests of a turn that ends (`MobileNode`, `TurnEnds`). Its send
awaits a workspace: `NativeTurns` has that await as two steps with anything in
between, `ChatExecutions` has what happens in it.

## 2. Modules

| Module | Models |
| --- | --- |
| `EventLog` | Abstract promise of either stream: a numbered log, a receiver that takes it in order, a sender that forgets only what was taken. |
| `AttachEventStream` | Plugin to gateway, spool to inbox. |
| `AttachCommandStream` | Gateway to plugin, outbox to execution. |
| `TurnQueue` | Abstract promise of a thread: a message starts one turn or joins the running one, turns run one at a time and in order, a restart loses only what was in memory. |
| `TurnRunner` | One core thread from message to transcript, with the plugin. |
| `Tasks` | One durable task over its runs, the agent and the three clocks. |
| `NativeTurns` | The conversations of one bot, from a send to the turn's end. |
| `GroupRooms` | One room name through its lives, drives and member turns. |
| `MobileNode` | Requests of one agent to one phone. |
| `ChatExecutions` | One chat between its bot's profile and a computer's workspaces. |
| `MC*` | Instances for TLC. |
| `*Proofs` | Proofs about `AttachEventStream`, `AttachCommandStream`, `TurnRunner`, `Tasks`, `NativeTurns`, `GroupRooms`, `MobileNode` and `ChatExecutions` (section 5). |

In each module one action is one handler and keeps its name where the code has
one. An operator that only breaks one of the code's rules (`ResumeRefused`,
`BatchBeyondWindow`, `FinishKept`, ...) stands in front of the definition it
would replace and is used by no specification: it is a bug a programmer could
make, and replacing the definition by it must break the property named for it
in `PROJECT.json` under `mutants`.

### AttachEventStream

`outbox`, `nextEventSequence`, `eventCursor` and `turnTerminals` are the
spool's tables; `inbox`, `lastEventSequence` and `attachTerminals` the
gateway's; `projected`, `stripped` and `deleted` are what the gateway has since
done to admitted rows; `server`, `granted`, `queue`, `current` the ingress's
per-socket state; `up` and `down` the two directions of every socket ever dialed, in
order. `Enqueue`, `Withdraw`, `Compact`, `Dial`, `Transmit`,
`ReceiveHelloAck`, `ReceiveAck`, `ReceiveGap` are the plugin's; `Hello`,
`Buffer`, `DrainQueue`, `DrainAndDiscard`, `ReceiveEvent`, `Project`,
`CompactInbox`, `DeleteSession` the gateway's;
`Fault`, `DropSocket`, `CloseAbandoned`, `RecreateSpool` the environment's.
- Both databases survive a crash; all the rest goes with its process. A crash
  of one side is therefore a close of its sockets, which is `Fault`.
- A batch is admitted one frame at a time. `acceptAttachEvents` commits a whole
  batch, but where a batch ends depends on a zero-delay timer only, so a
  rolled-back tail leaves what a shorter batch would have left.
- Event kinds are told apart by their capability, by whether they are batched,
  whether they seal a turn and whether their payload may be withdrawn.
  Scheduled deliveries also bind a delivery id on admission and are left out.
- Two writers touch a row after its admission. The retention sweep
  (`compactAttachPayloads`, `storage.ts`:3978) takes the content out of a
  projected row of a sealed turn; the row keeps its id, kind and turn, so the
  model only notes its number in `stripped`. The deletion of a chat session
  (`storage.ts`:4990) blanks and discards the rows of the session's turns. The
  age at which a row is old enough, whether a session has an active turn, and
  which turns a session has, are left open. The deletion of a bot, which removes
  its whole stream, is left out.

### AttachCommandStream

`rows` is the gateway's outbox, `inbox` and `commandCursor` the spool's, `sent`
and `sendCursor` the ingress's window, `backlog` and `running` the plugin's
replay list and tasks. Command kinds stand for what the code does with them: a
turn goes to a background task, a resolution is awaited and may raise, an app
action is marked done by its own terminal event, a deletion is never replaced
by a discard.
- Byte budgets are left to the frame window; a send the full socket refuses is
  a drop.
- Capabilities are chosen per dial, which over-approximates plugin upgrades.
- `_retry_hello` is a dial like any other.
- `PriorCommands` starts from a plugin that remembers a gateway database since
  lost. There the module does not implement `EventLog`, because
  `reconcileAttachResume` retires rows queued before the first hello that the
  plugin never saw; that is checked with `PriorCommands = 0`, and the run with 1
  checks the rest.
- `lateHello` marks the one exception three properties state: the hello of an
  abandoned socket, read after its successor's, carries a cursor that predates
  what the successor delivered.

### TurnRunner

`queue`, `inflight` and `approvals` are the runner's memory; `record` is the
transcript per turn; `inbox` and `outbox` the undelivered rest of the two
streams; `active`, `held`, `sealed`, `stopping`, `asks`, `said` the plugin and
its harness.
- One step is one macrotask of the gateway. Between the settling of `send()`
  and the `finally` of `#runTurn` only microtasks run, so no request and no
  frame comes between them: the end of a turn is one step.
- A turn carries the number of its message; the ids the runner and the adapter
  mint for it are one.
- Drafts, tool steps and thinking are unsequenced and not stored: left out.
  The adapter's own turn timer equals the runner's and is armed after it: left
  out. `unregister` and `closeAll` take the path of a restart.
- A crash may come between the projection callback and the marker written after
  it (`GatewayCrashesBeforeMark`): the event is projected again.

### Tasks

`task`, `waits`, `absence`, `need` and `dispatch` are the tables of `tasks.ts`,
`command` the turn commands of the attach outbox, `active` and `native` the
rows of the native data plane; `live` is its memory; `downlink` and `exec` stand
for the stream to the agent and for what the agent does.
- The task is what its event stream says: each action appends the events its
  handler appends, as one change of the view they fold to.
- A lease or a ceiling may be over whenever the timer looks (`absence =
  "lapsed"` is the episode 120 s old).
- A run is a number, and its predecessor is the number before it, as every
  retry makes its run from the current one.
- Runtime stages, recovery decisions and delegation batches are left out.

### NativeTurns

`gw` is the gateway's database, one record because every handler is one
transaction of it; `lost`, `stopping` and `preparing` are its memory; `holds`,
`context`, `sealed` and `heard` the agent's.
- The await of a send on its workspace is two steps (`Prepare`, then `OpenTurn`),
  and all else may happen in between.
- An event is handled when it reaches the head of `uplink`; a command is taken
  when it reaches the head of the outbox. What is lost between them, and how it
  is found again, is the business of the stream modules.
- `heard` is a history variable: the messages some run of the agent had in its
  context.
- A hello seals its turns one by one. All but the selected conversation's end the
  same way whatever their order, so `OwnersLost` ends them in one expression.

### GroupRooms

`room`, `turns` and `queue` are the tables and the map of queues, `chain` the
drives of the name, `compress` and `drafts` the rest of the memory.
- A loop that does not wait runs before any other callback. `Running` says one
  can, and requests and events come only when none can; a rejected or resolved
  promise thus continues before the next macrotask.
- `life` counts the lives of the name, as `#generations` does: the durable room
  does not know it, which is how a late answer crosses two lives (section 3).
- A turn may send several events, commits or ends (`Answer`). The first settles the
  row and takes the waiter out of its map; a later one finds no waiter and goes to
  the recovery, unless somebody has consumed the row. `resettled` is a history field:
  a further event was handled before the loop that was woken, or lost with its
  process, had claimed the reply.
- The log is not trimmed: its limit of 96 entries is far above the bounds.

### MobileNode

`req` and `held` are the broker's two maps, `record` and `receipts` its tables,
`mode` and `selected` the hub's, the rest the agent, the phone and the clock.
- Frames between the gateway and the phone need no state of their own: a phone
  may answer anything it was ever shown, on any socket it ever had.
- An upload is two steps with everything possible in between; between them the
  request is `claimed`, out of the table and out of reach of a disconnect.
- `lost` counts the writes of a record that failed, which `#life` swallows
  (`mobile-node.ts`:560): any write may fail, and of a handler that writes twice
  either or both. A settled record is history after thirty days (`SweepRecord`).
- `told` is what was handed to `sendMobileResult`, which sends nothing to an agent
  whose link is gone (`ingress-v1.ts`:933); such a call has been settled by the agent.

### ChatExecutions

`session`, `chosen`, `touched`, `locked` and `active` are the chat's rows, `call`
and `line` the sends and the queue of `#preparations`, `row` and `tokens` the
executions, `peer` their attach sockets, `link`, `commands`, `receipts` and
`stale` the computer's stream and the one it superseded, `proc` its processes.
- A callback runs to its end with the continuations it releases: the end of a
  preparation and the admission of its turn are one step, and `Due` lets the
  next preparation in line begin before anything else.
- The computer's program is external. It starts a process once per execution,
  says how it is when asked again, ends it when told, and dies with its
  children. A command already on its way is not added a second time, since the
  second is carried out to no effect.
- `chosen` is the history of choices, the last of them the row. The model of the
  chat, the wait on its provider and the profile's content are left out.
- A row that is released (`gone`) is the deleted row: its number is not used
  again, as its random id is not.

## 3. Runs

Every passing run explores its whole state space, and together the runs of a
module fire every action of it.

| Run | Bounds | What it shows |
| --- | --- | --- |
| `EventStream` | window 2, batch 2, 3 numbers of which 1 legacy, 2 sockets, 1 fault, 1 drop, 1 overtaken frame | Types, `OneMeaningPerSequence`, `SettledIsDurable`, `NeverRefused`, `SealsAgree`; implements `EventLog`; `EventuallyDurable`. |
| `EventStreamSpoolLoss` | window 1, 2 numbers, 2 sockets, 1 fault, 1 spool loss, 2 projected rows, 1 turn of a deleted session, two capability sets | `PayloadKept`: only a media cleanup or the deletion of its session takes an event back, and retention takes content only from a projected row of a sealed turn; `JournalKept`: a number keeps its id, a row changes only with the deletion of its session, and a seal never. |
| `CommandStream` | window 1, 2 commands, 2 sockets, 1 fault or crash, 1 raising handler, 1 cancel, two capability sets | Types, `NothingRunsTwice`; implements `EventLog`; `EventuallyCarriedOut`. |
| `CommandStreamLoss` | window 2, 3 commands of which 1 prior, 3 sockets, 1 fault, 1 drop, 1 spool loss | `NoGapLoop`; `DeletionIsDelivered` and `RetiredNeverReplayed`, up to a hello read after that of a later dial. |
| `TurnRunner` | 2 messages, 3 replies, 2 restarts, no approvals, bound set | `EveryReplyOnce`; implements `TurnQueue`; `EveryMessageSettles`. |
| `TurnCards` | 2 approvals, memory of 1, 2 messages, 1 restart | `CardsAreSettled`, `CommandsHitTheirTurn`. |
| `Tasks` | 2 runs, an approval and a device request, retry budget 1, one absence, loss and restart each, 3 commands, 2 requests, 3 of all of these in one behaviour | Types, `OneRunAtATime`, `ExecutionIsCarried`, `CancelLands`. |
| `NativeTurns` | 3 messages, 1 with media, 2 conversations, one loss, absence and restart each, 2 acts, 1 frame, 4 of all of these | Types, `NoTurnIsDropped`, `SteersCountOnce`, `QueuedTurnsWait`, `TurnsEnd`. |
| `GroupRooms` | 2 members, 1 of them hidden, 2 rounds, 2 posts, 2 messages, 2 replies, 2 acts (requests, restarts and further events of an answered turn) | Types and limits; `RepliesPostOnce`, but for a turn settled again; `WorkHasALoop`. |
| `MobileNode` | 1 request of any kind, table of 1, 2 sockets, 2 advertisements, 1 break, 2 failed writes of its record | Types and the limit; `OutcomeIsAgreed`, up to a record that could not be written; `AskedOfTheLiving`; `RecordsSettle`, but for a crash and a failed write. |
| `ChatExecutions` | 2 workspaces, 2 sends, 2 executions, 2 choices, conversation left once, 1 break, 1 receipt under way | `RunsWhereChosen`, for steers up to a profile taken back; `OneExecution`, `TornDown`. |

`TurnRunner` and `ChatExecutions` define a `TypeOK` that is not among the runs'
properties; both are theorems.

Why the bounds suffice: a stream needs a row to be stale, a row that is current
and a socket to be late, which is two rows and two sockets; a third row puts a
hole or a legacy tail below the other two, and a third socket lets a spool be
lost after a reconnect. A fault is needed for an ack to be lost, and a second
fault only repeats the first because what survives a close is the two
databases. A thread needs a turn that ended and a turn that is live, which is
two messages; three replies give one turn an interim and a final one and leave
one for the other turn; two restarts let the plugin and the gateway each be
lost. `ApprovalMemory = 1` with two approvals overflows the memory, as 200 does
with 201.

A task needs a run and its successor; a third run stands to the second as the
second to the first. The two waits are of the two kinds the code tells apart.
Three incidents in one behaviour are a command, a loss and a restart in any
order, which is what the three clocks need to disagree. A conversation needs a
turn, a steer of it and a message after it, and a second conversation to change
to. A room needs a member who has spoken and one who has not, a second round to
answer in, a second thread to be queued, and two acts to be deleted and
recreated in the middle of a drive. A phone request is never compared with
another one except by the limit, so other agents' requests are a number that
fills the table; two sockets let an answer come on the one that was left. A chat needs a
workspace to leave for another, a send to be overtaken and one that overtakes
it, and an execution to be replaced. One break suffices to lose what is under
way: what survives it is the rows. It also lets a retired row meet a stale
receipt, a ready row a receipt of an earlier `create`, and a token withdrawn
between the dial and the hello, all of which were confirmed to occur.

### Where the code and its documents disagree

The following run checks one statement of the repository, quoted in
`PROJECT.json` under `findings`, and TLC finds a short behaviour of the code
that contradicts it.

| Run | Statement | What happens |
| --- | --- | --- |
| `NativeTurnsSteerLost` | "each steer is accounted for exactly once" (`contract/ext-bots-v1.md`:121) | A steer the agent refuses because the turn just ended is settled by the turn's own last frame: neither heard, promoted nor noted. |

The models show others, which the properties above are worded around:

| Where | Statement | What the code does |
| --- | --- | --- |
| `attach_spool.py`:291 | "Locally pending events are never skipped." | After the spool file is lost, new numbers start below the gateway's cursor, and the hello_ack settles rows the gateway never received. |
| `attach_client_v1.py`:530 | An event whose capability was not negotiated is discarded and the stream continues. | The plugin never sends it, and nothing behind it is sent either. |
| `storage.ts`:3517 | A cancel returns false when the turn was already taken. | It looks at the ack only; a turn taken with its ack on the wire is reported discarded and runs. |
| `attach_client_v1.py`:261 | A reconnect does not execute a command twice. | An app action still running at a redial is started again. |
| `ingress-v1.ts`:330 | Spool replacement is "recoverable without replaying an already-ACKed command" (`contract/attach-v1.md`:58). | A hello of an abandoned socket that is read after its successor's names what the spool held before: if the file was lost between them, it retires commands that the successor is still handing over, and the new spool takes them all the same. |
| `native-sink.ts`:36 | A later terminal cannot change the sealed result. | A stopped turn gets a second marker, or a reply, when the plugin's own terminal is projected. |
| `server.ts`:180 | Frames for settled turns are dropped. | A late approval event is claimed by nobody, becomes a dead letter and holds back the profile. |
| `native-data-plane.ts`:1343 | A steer that was answered is not asked again. | A commit that arrives after the turn was recorded settles no steer, so one it answered may be promoted. |
| `native-data-plane.ts`:1155 | "This message could not be delivered and was not answered" | The agent restarts with a reply in its spool. Its hello, which names no turn, seals the turn of a conversation that is not selected and notes its steer; the reply, read after the hello, is stored all the same, and the note stays. |
| `mobile-node.ts`:203 | A request "reaches exactly one typed terminal state" (`contract/ext-bots-v1.md`:341). | The table is in memory: a crash leaves the record open for good. |
| `mobile-node.ts`:560 | The same. | A record write that fails is swallowed: the request is settled, the agent told and the receipt kept, while the record stays open, as no sweep takes an open one. |
| `mobile-node.ts`:439 | A reconnect does not turn one consent into two prompts. | It does until the phone reports a stage, and at every new advertisement. |
| `storage.ts`:3294 | A completed settlement is assigned "atomically [...] to one orchestrator". | `#waitForTurn` ignores what the consume returned. When a second commit or end of a turn is projected in the pass that projected the first, it finds no waiter, so the recovery consumes the row and posts the reply; the loop then resumes and posts it again. The same happens after a restart. |
| `group-rooms.ts`:325 | A commit with `continues` "is projected exactly like any other message" (`contract/attach-v1.md`:112). | In a room the first commit settles its turn, whatever it carries; the words of the later ones are not read. |
| `group-rooms.ts`:391 | Late attach events of a deleted room are harmless. | A room recreated under the name starts its epochs again, so the late answer of the old room's turn is recovered into it. |
| `native-data-plane.ts`:714 | A chat with an execution row runs on exactly that peer, never in the wrong workspace. | A choice taken back deceives the second read: a send waits for the default context, another is queued for a workspace, the choice returns to the default, the first is admitted and locks it; the second then finds no row to compare with the lock and creates an execution. The running turn's steers go there, and later sends are refused; the words of a turn never do. |

## 4. Fairness

- `AttachEventStream`, `AttachCommandStream`: both event loops keep running, so
  what has arrived is read; the plugin's supervisor keeps dialing; the drain is
  repeated by a 15 s heartbeat on an open connection. Nothing obliges the agent
  to issue events, a person to send commands, or the network to fail.
  `EventuallyDurable` and `EventuallyCarriedOut` except what the code does not
  recover from by itself: a reply or a frame dropped under backpressure, a
  handler that raised (both are repaired only by a reconnect), and an adapter
  superseded by its own late hello, which stops for good.
- `TurnRunner`: the runner chains the next turn from the end of the last, and a
  timer fires. No fairness is assumed of the plugin. `EveryMessageSettles`
  therefore needs the wall-clock bound; `turnTimeoutSeconds` is 0 by default,
  and without it a turn whose plugin died is only ended by a person.
- `Tasks`: the heartbeat and the owner-loss sweep are timers; an agent that is
  installed reconnects, reads what it is sent and acknowledges it. Nobody has to
  answer a wait and no agent has to end a run. `CancelLands` is stated for an
  agent that comes back.
- `NativeTurns`: the sweep alone, which is an interval timer while a turn is
  open. The agent may stay away or silent for ever, and `TurnsEnd` holds all the
  same for the selected conversation.
- `MobileNode`: the deadline passes, its timer fires, and an upload handler comes
  to its end. Phone, agent and sockets owe nothing. `RecordsSettle` excepts the
  crash that takes the table with it and a record whose write failed, which the code
  does not try again.
- `ChatExecutions`: the sweep's interval timer, an event loop that reads what has
  arrived, and a computer that dials again and carries out what it is sent.
  `TornDown` needs the last, since a row stays until a receipt releases it; no
  send, no preparation and no boot has to come to an end for it.
- `GroupRooms` states no liveness. That a queued thread has a loop to take it on
  is checked as an invariant; that the loop's turn ends is the deadline of
  `#waitForTurn`.

## 5. Proofs

Eight modules hold theorems. Each proves an inductive invariant `IInv` from the
module's constant assumptions alone (or from the hypothesis named below), for
every value of the bounds, and derives from it what the runs of section 3 check
on small instances.

| Module | Theorem | Result |
| --- | --- | --- |
| `AttachEventStreamProofs` | `LossInvariant` | the inductive invariant that outlives the spool |
| | `JournalGrows` | `JournalKept` |
| | `PayloadsKept` | `[]PayloadKept` |
| | `InvariantHolds` | the inductive invariant: `[](SpoolKept => IInv)` |
| | `TypeCorrect` | `[](SpoolKept => TypeOK)` |
| | `MeaningIsShared` | `[](SpoolKept => OneMeaningPerSequence)` |
| | `NothingIsSkipped` | `[](SpoolKept => SettledIsDurable)` |
| | `FaithfulPeersAgree` | `[](SpoolKept => NeverRefused)` |
| | `SealsAreShared` | `[](SpoolKept => SealsAgree)` |
| | `LogIsImplemented` | `[]SpoolKept => ImplementsLog`: the spool, the wire and the inbox are an `EventLog` |
| `AttachCommandStreamProofs` | `InvariantHolds` | the inductive invariant |
| | `TypeCorrect` | `[]TypeOK` |
| | `NeverDrivenIntoAGap` | `[]NoGapLoop` |
| | `DeletionsAreDelivered` | `[]DeletionIsDelivered` |
| | `StartedOnce` | `[](recreations = 0 => NothingRunsTwice)` |
| | `RetiredAreNotReplayed` | `RetiredNeverReplayed` |
| | `LogIsImplemented` | `[](recreations = 0) => ImplementsLog`: the outbox, the wire and the inbox are an `EventLog` |
| `TurnRunnerProofs` | `InvariantHolds` | the inductive invariant |
| | `TypeCorrect` | `[]TypeOK` |
| | `RepliesOnce` | `[]EveryReplyOnce` |
| | `CardsSettle` | `[]CardsAreSettled` |
| | `CommandsHit` | `[]CommandsHitTheirTurn` |
| | `QueueIsImplemented` | `ImplementsTurnQueue`: the thread is a `TurnQueue` |
| `TasksProofs` | `InvariantHolds` | the inductive invariant |
| | `TypeCorrect` | `[]TypeOK` |
| | `OneAtATime` | `[]OneRunAtATime` |
| | `ExecutionCarried` | `[]ExecutionIsCarried` |
| `NativeTurnsProofs` | `InvariantHolds` | the inductive invariant |
| | `TypeCorrect` | `[]TypeOK` |
| | `TurnsAreKept` | `[]NoTurnIsDropped` |
| | `SteersAreCountedOnce` | `[]SteersCountOnce` |
| | `QueuedTurnsAreKept` | `QueuedTurnsWait` |
| `GroupRoomsProofs` | `InvariantHolds` | the inductive invariant |
| | `TypeCorrect` | `[]TypeOK` |
| | `RepliesPostedOnce` | `[]RepliesPostOnce` |
| | `WorkIsTakenOn` | `[]WorkHasALoop` |
| `MobileNodeProofs` | `InvariantHolds` | the inductive invariant |
| | `TypeCorrect` | `[]TypeOK` |
| | `OutcomesAgree` | `[]OutcomeIsAgreed` |
| | `LivingAreAsked` | `[]AskedOfTheLiving` |
| `ChatExecutionsProofs` | `InvariantHolds` | the inductive invariant |
| | `TypeCorrect` | `[]TypeOK` |
| | `WordsGoWhereChosen` | `[]RunsWhereChosen` |
| | `OneExecutionLives` | `[]OneExecution` |

The refinement theorems are the whole of what `EventLog` and `TurnQueue` state,
which is safety: initial states map to initial states and every step to a step of
the log, or of the queue, or to a stutter.

### Events

What the gateway's journal promises on its own, `JournalGrows` and
`PayloadsKept`, holds through any number of lost spool files. What relates the
two journals holds as long as none has been lost (`SpoolKept`), with whatever
losses are still to come: a new spool counts from 1 again, its numbers meet other
events' rows, and `SettledIsDurable` no longer holds (the first row of the
last table of section 3). `LogIsImplemented` is therefore about the behaviours
that lose no spool.

`LossInv` is the small invariant that outlives the spool. It types both journals,
the wire and the replies without relating one to another, and adds `PayloadsOK`:
every copy that may still reach the inbox, pending, sent or buffered, is the
event its id was minted for, or nothing once a cleanup has taken the payload
back; a row of the inbox may also have been blanked with its session
(`Journaled`). Ids are minted once for all spools, so a row of the lost spool that is
still on the wire keeps its meaning; and a frame is admitted only under
`lastEventSequence + 1`, a number the inbox does not hold whoever sent it. What
the gateway does to rows later is a class of steps of its own (`Retains`):
`RetentionKeeps` shows that they leave every number, id and seal as they were,
and `StrippedOK` carries the second half of `PayloadKept`, since `projected` and
the seals only grow.

`IInv` is the invariant before the first loss. The two journals alone are not inductive. A row is acked because an ack said
so, so the ack must have been true when it was sent and still be true when it
is read, on a socket the gateway may since have superseded. `IInv` therefore
speaks of everything in flight: a frame on its way up or in a buffer carries the
id the spool holds under its number; an ack on its way down, the id the gateway
holds; a gap asks for a suffix in which the gateway holds nothing the spool
lacks; the hello_ack is the first reply of a connection, comes once, and its
cursor is not below the plugin's (`HandshakeOK`). What keeps the argument short
is that each of these is a statement about a *set* of frames that only grows
with the journals (`FramesGrow`): a step that leaves the journals alone or
appends to them cannot falsify a frame that is already travelling, so each
action has to account only for the frames it sends. A heal is the one step that
assigns numbers that were missing; that it gives no two holes the same id is a
counting argument over ranks in a finite set (`RankInjects`).

Seals need one more invariant on top of the two. `SealsOK` says why no event of a sealed turn is ever ignored: the plugin issues
nothing for a turn after its terminal, ids of turn events ascend with their
numbers in the spool, and the wire keeps that order, so a turn the gateway has
sealed has nothing left to arrive. Delegation events are the exception, which
is why they are the one kind the gateway takes after the seal.

### Commands

`InvariantHolds`, `TypeCorrect`, `NeverDrivenIntoAGap`, `DeletionsAreDelivered`
and `RetiredAreNotReplayed` hold through lost spool files and lost gateway
databases. `StartedOnce` is stated for states in which the spool file has not
been lost so far, since its inbox is what makes a replay recognisable, and
`LogIsImplemented` for behaviours that do not lose it; it also assumes
`PriorCommands = 0`, because otherwise `reconcileAttachResume` retires rows the
plugin never saw.

`IInv` says exactly what is where. The acked rows are a prefix of the outbox's
numbering; the window of the connection that owns the agent is the interval
from there to its send cursor; its ACKs on their way up and the commands on
their way down are consecutive parts of that interval, and they meet at the
plugin's cursor. A hello read later than its successor's makes an abandoned
socket the owner, so the invariant also says what travels on a socket whose two
ends disagree on who owns the agent: nothing but a hello and its ack.

Four layers stand on it. A cursor covers a deletion only if it was taken, on its
way in either direction and in every hello that is still unread, and later
hellos never name more than earlier ones (`DeletionOK`). A turn that is still in
the backlog, or would be loaded into it by the next dial, has not started, and
every copy of a resolution that was taken back, in the inbox or on the wire, is
the discard (`OnceOK`). Nothing on its way, or still to be sent, is acknowledged
(`BehindOK`). And with both databases intact neither side has a hole or speaks
of what the other lacks (`LogOK`).

The attempt to prove `RetiredNeverReplayed` found that it was false as first
stated: with two breaks and three sockets, the hello sent before a spool loss is
read after its successor's, and its old cursor retires what the successor is
still handing over to the new spool. The property has since the exception for
`lateHello` that `DeletionIsDelivered` has (the second table of section 3).

### Turns of a thread

What makes `turns.ts` right is that a turn which is over never looks like one
that may still run. `Quiet` says when a turn is untouched: nothing was appended
for it and nobody stopped or lost it. `IInv` says that a message that waits, that
runs or that was steered has a quiet turn of its own (`ThreadOK`), and that both
streams and the plugin speak only of turns that have begun (`Begun`). The rest
follows from these two. Whatever the plugin still says of a turn the adapter let
go, it cannot touch the queue or the live turn; a commit that is projected for
the live turn is the first entry of its transcript, so no copy of it is there;
and an entry the sink adds, to a turn that was over already, ends nothing a
second time.

`RepliesOnce` keeps count of a reply from the moment it is said: it is in the
inbox until it is projected and in the transcript from then on, and in both only
when a crash fell between (`RepliesOK`). The inbox holds a reply once because
replies of a turn are numbered as they are said. `CardsSettle` rests on the
request of an approval being on its way at most once and before the card is
shown (`RequestsOK`), and on the record the runner keeps agreeing with the last
frame the clients saw (`CardsOK`). For `CommandsHit` every command in the outbox
carries what it was sent for, and nothing that is sent later changes a steer.

`QueueIsImplemented` maps a message to waiting, running, over, steered or lost.
On states of `IInv` a turn is over exactly when something was appended for it or
somebody stopped it, and it was not lost (`OverIs`), so each action needs one
look at the transcript and at `stopped`. The order of turns comes from the queue
being ascending.

### Tasks

The state of a task is a promise about a run: that one it calls executing was
acknowledged and has not ended. `ExecutionIsCarried` alone is not inductive,
because the promise can be suspended: a task whose owner is gone is `blocked`,
and reattachment gives back the state it had. `IInv` therefore says (`Carried`)
what `blocked` owes while it lasts, and that the only way into
`waiting_for_user_input` is a person's pause, which rests on an interrupted run
(`Rests`). For `OneRunAtATime` it describes the chain: a run's turn reaches the
command outbox once, in the order of the runs, and only when all the earlier
ones have ended or were withdrawn (`ChainOK`). A retry chooses its successor
without looking at the agent, so this is where `#executionEnded`, the
discards and the data plane's ends have to meet.

### Turns of a bot

A message of a conversation is a turn, a steer, or not known yet, and only a
promotion makes a turn of a steer (`IsTurn`). `IInv` says that whatever carries a
turn's number, a queued command, an open row, an event, a lease, carries that of
a message that is a turn already. A turn that is opened or promoted therefore has
no past: nothing has ended it, nothing of it is queued, and nobody speaks of it.
From there `TurnsAreKept` needs only that a conversation's active turn has not
ended and that one which ends leaves its conversation (`TurnsOK`).

`SteersAreCountedOnce` needs the same of the rows: one is open only for a steer
that is neither promoted nor noted (`SteersOK`), and no two queued commands carry
the same words. For that the commands of a turn stand behind the command that
opens it (`InOrder`): when the agent refuses a steer, the turn it was for is no
longer queued. `QueuedTurnsAreKept` follows because
an event, a lease and a hello speak of turns whose command is no longer queued.

Every handler is a composition of a few changes of the gateway's record
(`Settled`, `Finished`, `Promoted`, `OwnerLost`, ...), so the proof is a calculus
of them: each yields a sane record that keeps what was said of the old one
(`Safe`, which is transitive), and a step is safe when its parts are.

The attempt found that `SteersCountOnce` was false beyond the bounds of its run as
first stated: it also said that nothing had answered the noted steers. With two
messages, two conversations and one loss TLC finds a behaviour of five events that
contradicts it (`native-data-plane.ts`:1155 in the second table of section 3).

### Rooms

A reply is posted by whoever claims its turn, and there are two who may: the loop
that waits and the recovery, before or after a restart. Nothing in the code keeps
them apart once a turn has sent two events (section 3), so the invariant carries
the exception through: a post in the log is the reply of a turn that spoke, and
unless that turn was settled again it is of this life and has no second post
(`PostsOK`). A loop that waits, in the room it was begun in, waits for a turn that
has no post yet or was settled again (`Hopes`, `MayPost`), so it may post; a loop
whose room is gone waits for a turn that did not speak. The recovery runs for a turn
that was not answered, which no post can name, for one settled again, or after a
restart for the turn the lost loop had not claimed. A turn is pending only in the
room that is there and in its life (`TurnOK`): `stop` and `remove` settle all of
them, so a room that is recreated under the old name begins without one. And because
a woken loop runs before any request (`Due`), no deletion comes between a reply and
the loop that takes it.

`WorkHasALoop` needs its own converse. `LoopsOK` follows each turn of which
something is still to come (`Open`: its answer, or the post of its reply) and each
open bubble to the drive or the compress that waits for it; `DraftsOK` says whose
bubbles are open, those of pending turns and of turns of a deleted life, which is
why a loop that finds its room gone still closes one. `IdleOK` says that with no drive
and no compress the queue names no thread of the room: the last drive of a chain
and the end of a compress both start what they find, and a write from outside goes
into a thread the log has already. The limits of a round are a counting argument:
who has spoken and who is left are together never more than the members, because
`Rotated` turns a list of distinct seats (`AscendingLists` ranks a finite set).

### Phone requests

The invariant follows one request through its places: in the agent's frames, in
the table, in the hands of an upload, settled. In the first nothing is known of
it, in the second and third its record is open, or never was written, and the agent was
told nothing (`Waiting`); in the last, record, answer and receipt agree unless a write
of the record failed. `WriteOK` and `OpenedOK` say once what a record may be after any
of a handler's writes was lost, and every handler cites them. That the agent asks once and
that a frame precedes every trace of its request is `AsksOK`; without it a second
admission would reopen a settled record. The limit of the table (`TypeOK`) is a
counting argument over what is pending, held, and claimed by other agents.

### Chats on a computer

What a preparation found out before an await must still be true after it. It is,
because only the head of the line changes which execution the chat has:
`HeadOK` says what the head may rely on at each of its awaits (no other
workspace's execution, none at all before the row is written, this one while it
waits), and it survives every sweep, receipt and hello as long as there is the
conversation (`Alike`). Once that is deleted the head knows nothing, and every
one of its ways ends in a refusal. `LockOK` carries the rest of
`RunsWhereChosen` for a chat locked to a workspace: that workspace has its
execution, so a steer, which prepares nothing, is sent to it or to nobody.

A chat locked to the profile needs a second layer (`HomeOK`). As long as no send has
read a workspace behind one that took the profile (`Returned`), there is no execution,
none is prepared for and no steer leaves the profile (`ProfileOK`); that the sends are
made and queued in order (`OrderOK`) is what makes the first such send the only way
out, and that way is the exception `TakenBack` of the property. Turns have no
exception: a turn goes where the chat is locked, whatever was chosen meanwhile.

For `OneExecution` the lane is the whole argument (`LaneOK`). An execution whose
end was reported, or whose row is released, has no process and no create left
in the stream; a delete in the stream stands behind every create of the same
execution; and a row that is neither deleted nor released has no delete and no
report anywhere, so no stale receipt of a superseded socket can release it.

### Only model-checked

- Liveness under fairness, which is beyond the prover: `EventuallyDurable`,
  `EventuallyCarriedOut`, `EveryMessageSettles`, `CancelLands`, `TurnsEnd`,
  `RecordsSettle`, `TornDown`.

## 6. Plan

The modules of the plan are written. What is left, in the order in which it
should go on:

1. `NativeTurns`: approvals and clarify relays, which live and die with a turn.
2. `GroupRooms`: renames and member edits, which are fenced by the epoch.
3. `Tasks`: recovery decisions and delegation batches.
4. `ChatExecutions`: revoking a computer and the deletion of a bot.

## 7. Running

```
tlc -workers 2 -config EventStream.cfg MCAttachEventStream
tlapm AttachEventStreamProofs.tla
```

`tlapm` takes between two and five minutes for a module of proofs, and eleven for
`AttachCommandStreamProofs`.

Each configuration names its module in `PROJECT.json`. The longest runs,
`NativeTurns`, `MobileNode` and `ChatExecutions`, take about two minutes each on two
cores.
