# Verification of proletariat

`prlt` (`src/apps/cli/src`) runs AI agents on tickets: it makes them a worktree,
spawns them in tmux sessions on the host or in containers, watches them, moves
their tickets, brings their pull requests to the main branch and collects what
they leave. This directory holds TLA+ models of the parts of it that are
concurrent and that fail, the TLC runs that check them, and TLAPS proofs of their
safety properties for every size. `PROJECT.json` lists for every definition the
source lines it stands for, for every property the run that checks it and the
mutant of the code that breaks it, and the hazards of the code.

## The system

| component | state | operations | what is hard | what makes it correct |
| --- | --- | --- | --- | --- |
| Switchboard (`lib/switchboard`) | tables `messages`, `subscriptions`, `cursors` in one SQLite file | cast, call, reply, publish, poll, pollEvents, subscribe, router cycle, collector cycle | many processes, each statement atomic and nothing more; crashes between reading and marking; expiry and purge while a poll is under way | what is sent is handed over or accounted for; no event a subscriber should see is skipped; a call ends |
| Merge queue (`lib/sync/merge-queue.ts`, `lib/shipping/rebase.ts`) | `merge-queue.json`: pause flag, current and last merged pull request, the ejected ones | one cycle per interval: pick and rebase, or wait for CI, merge, eject; `sync pause` and `sync resume` | GitHub changes under the cycle; the file is read once and written whole; gh fails; the daemon dies after the merge | what the queue merges is rebased, and nothing it saw among the checks has failed; every merge is recorded |
| Shipping (`services/work-service.ts`, `lib/shipping/auto-merge.ts`) | a loop's counters; GitHub's auto-merge flag | `work ship`, with --wait, --all or --when-green: wait for CI, rebase, merge, switch native auto-merge on and off | GitHub, the merge queue and other ships act on the same pull request; each gh call may fail; the process may die | it merges only what it saw tested; native auto-merge does not outlive a ship that ended |
| Execution storage (`lib/execution/storage.ts`, `spawner.ts`) | table `agent_work` | spawn, `work ready`, `work stop`, `execution complete`, stale cleanup | read, act, write by id in separate processes; docker and tmux that do not answer | final statuses are lost only in true races; the cleanup stops nothing that was alive in the environments it asked |
| Session watcher (`lib/session/watcher.ts`, `tmux-watchdog.ts`, `heartbeat.ts`) | last server states, snapshots and handled crashes in memory; heartbeats in `agent_work` | four-phase cycle: server crash and recovery, heartbeats, stale detection, termination | cycles overlap where they await; lists that were read before a wait | a dead agent settles; a live one is not timed out or restarted twice |
| Hook manager (`lib/work-lifecycle/hooks/manager.ts`, `lib/orchestrate/escalation.ts`) | three queues of requests in memory, one handler per event | handle an event, approve, deny, escalate by index, time out, stop | handlers await callbacks while the queues change | a request is answered once, by the tier that has it |
| Poller (`lib/orchestrate/poller.ts`) | what it remembers of agents and pull requests | compare with GitHub, fire an event for each change and await its handler | polls overlap; it fires before it remembers; gh fails | no conflict is acted on twice; no merge goes unannounced |
| Agent workspaces (`lib/agents/commands.ts`, `lib/database/agents.ts`, `commands/work/start.ts`) | table `agents`; a directory with a git worktree per agent; sessions | discovery of agents on disk, `work start` and its undoing, `agent cleanup` | a table and a disk that are read and changed one after the other by commands that do not know of each other; errors that are passed over | a name has one owner; work a look could have seen as unsaved is not removed |
| Garbage collection (`lib/gc`, `commands/gc.ts`) | `pending` branches of the scheduler; a collector's list of candidates | collect and execute, by command or daemon; find and remove orphans | what is judged changes while gh, docker and tmux are asked; each may fail | no live agent and no work that was there to be seen is removed |
| Messaging gateway (`lib/gateway`) | offset and running flag in memory; table `messaging_routes` | long-poll Telegram, filter, route, poke a session | processes die, are stopped or run twice; calls fail | each message is heard, in order, once per process |
| Daemon manager (`lib/session/daemon-manager.ts`) and machine.db | a tmux name and a row per daemon | ensure, stop, clean up | several supervisors look and then act | one daemon, with a row that says so |
| Reconciler, action chaining (`lib/reconcile`, `lib/work-lifecycle/action-chaining.ts`) | chain depth, escalation tracker | scan, move; spawn what an action triggers | none now: the board storage they read throws from `listTickets` and `getTicket` (`lib/pmo/storage/index.ts:286`), so neither does anything | |
| Board storage, providers, integrations, runners, command line | see `PROJECT.json` | | | |

They meet in four places: the `agent_work` row (spawner, commands, cleanup,
watcher, poller), the event bus and the poller (whose events the hook manager
turns into actions), the pull request (merge queue, ships, collector, people) and
the directory of an agent (starts, cleanups, collector, the agent itself). The
switchboard and the gateway are ways for a message to come to an agent and share
nothing with each other.

## Modules

| module | models | extends |
| --- | --- | --- |
| `Switchboard` | the message queue, its clients, router and collector | |
| `Mailbox` | what the switchboard promises of messages; implemented by `Switchboard` | |
| `Gateway` | processes of the Telegram gateway | |
| `MergeQueue` | the merge queue, GitHub, CI and the pause commands | |
| `AutoMerge` | ships beside the merge queue | `MergeQueue` |
| `ExecutionLifecycle` | the `agent_work` row and the processes that write it | |
| `SessionWatcher` | watcher cycles beside those processes | `ExecutionLifecycle` |
| `HookManager` | event handlers, approval queues, timeout and stop | |
| `Approval` | what the tiers promise; implemented by `HookManager` | |
| `Poller` | polls of GitHub whose events the hook manager handles | `HookManager` |
| `AgentWorkspace` | agents' rows, directories and sessions; starts and cleanups | |
| `GarbageCollection` | collectors beside those starts, cleanups and agents | `AgentWorkspace` |
| `SwitchboardProofs`, `GatewayProofs`, `SessionWatcherProofs`, `HookManagerProofs`, `AgentWorkspaceProofs` | theorems about the module they are named for | that module |
| `MergeQueueProofs` | theorems about `MergeQueue`, alone and beside ships | `AutoMerge` |
| `PollerProofs` | theorems about `Poller` | it and `HookManagerProofs` |
| `GarbageCollectionProofs` | theorems about `GarbageCollection` | it and `AgentWorkspaceProofs` |
| `MCSwitchboard`, `MCMergeQueue`, `MCAutoMerge`, `MCSessionWatcher`, `MCAgentWorkspace`, `MCGarbageCollection` | values of constants, initial states of the merge queue's runs | each its module |
| `MCSessions`, `MCSessionScenes`, `MCPoller`, `MCGarbageScenes` | small instances of which a run plays one of several scenes | the above |

### Switchboard

The three tables are sequences and functions of records; a message keeps its
sender, address, type, status and the two times it is compared by. Each SQL
statement is one action. A client operation of several statements is a client
process with a program counter: `call` inserts, then polls for the reply until
it is there or its time is over; `poll` reads the pending rows (`PollRead`) and
marks them one statement later (`PollMark`); `pollEvents` reads the active
subscriptions and then goes through their topics: the cursor, the events, and the
cursor moved on. `subscribe` looks for a row (`subscribe`) and then updates or inserts
one (`SubscribeWrites`); rows of the same address and topic count as one, since a
second only repeats the poll. A client may die between any two of these; the rows
survive. Time is a bounded clock. The wakeup socket only shortens
waits and has no counterpart. `reply` is modelled as its users call it: a handler
answers the call it was given, to its sender.

`Mailbox` is the same seen from outside: messages, how far each has come, what
each process has taken and what calls returned. A process takes a direct message of
its address, once; who replies has taken the call; a call returns one reply, of
the callee, or fails and then returns none; events are read without a box.
Clocks, cursors, pages and the lists of the daemon are out of sight, and a process
that died with a message has taken it.

### Gateway

Any number of processes (`prlt gateway start`) poll one bot. `update` is what
users wrote, and Telegram forgets up to `confirmed` when a process asks beyond
it. A process of the model goes through the read loop: ask, get a batch, and for
each update reject the user, find no route, or bind the route (the row of
`messaging_routes` that a second gateway shares) and poke. It may be stopped,
which ends the batch first, or die. `heard` is a history of what each start made
of an update; a call of Telegram, of the database or a poke fails at most `MaxFault` times. Not
modelled is an answer: none is ever sent (see below).

### MergeQueue and AutoMerge

`file` is the state file, `daemon.state` the copy the running cycle has. A cycle reads
it, works and writes it back; writing is two actions because `writeFileSync`
truncates before it writes, and a reader in between gets the default state. A merge
is recorded unless a mishap cost the file its content: a lookup of gh that failed, a
reader of the truncated file, or a writer that had read before another wrote. The
history `damage` names these. Its first form did not count two commands that
write at the same time; the attempt to prove `MergeIsRecorded` failed there, TLC
found the trace with two operators, and `Overwrites` now counts them. Pull
requests live in `pr`: head commit, checks, whether they are behind, in
conflict or refused by branch protection. The checks of a commit register one by
one (`CIStarts`), as the jobs of `.github/workflows/test.yml` do that `need` another,
end on their own and may be run again (`CheckReruns`); authors push, people close.
Every gh call may fail, `gh pr merge` also after it has merged, and the daemon may
die at every point. A pause or resume reads the file twice, to refuse what is
already so (`CommandChecks`) and to have the state it writes (`CommandReads`).

Neither the queue nor a ship waits for a list of checks to be complete: one check
that ended green, listed alone before the others have registered, is enough
(`merge-queue.ts:365`, `auto-merge.ts:212`). So `tested` is the head whose checks the
queue read last and those of the checks listed then that have not been run again, and
`ship[s].seen` and `listed` are the same of a ship. `MergedWithoutFailure` and
`ShippedAsSeen` speak of these checks, and of checks that came later only where the
code has looked again. The daemon does not come as far as the queue at this commit
(see below); the model is of the cycle it would run.

A ship is a process over the same `pr`, one action per call of gh or git.
`native` holds the pull requests with GitHub's own auto-merge on, which
`NativeMerges` acts on. Its timeout
may strike at every turn; what it does to the ticket afterwards is left out.

### ExecutionLifecycle and SessionWatcher

`work` holds the rows, `agent` the tmux session behind each, `server` what a
probe of an environment answers and `docker` whether `docker ps` answers. A
command reads the row (and its answer becomes a local copy), perhaps kills the
session, and writes by id. A spawn inserts the row, launches, sets `running`
and records the session in two statements. The cleanup lists the rows, asks tmux on
the host (`CleanAsksHost`), asks docker for the containers that carry the label
`devcontainer.local_folder` (`CleanAsksDocker`), asks each of these
(`CleanAsksContainer`), then stops row by row. The constant `Labels` says which
containers may carry the label: no runner of the program sets it, so its own
containers are never asked and their live rows are stopped. `asked` and `alive` are
histories: the host if it answered and the containers that were asked, also in vain,
and the sessions there were then;
`StoppedOnlyIfGone` is a promise about environments in `asked` only.

The watcher is one thread of JavaScript: `thread` names the cycle that runs,
and a cycle gives it up only at an `await` (the wait for a crashed server, the
two callbacks). Other processes are not held up by it and act between any two
of its statements. Timestamps are reduced to the comparisons made with them:
`fresh` (heartbeat younger than the timeout) and `old` (row older than five
minutes). `FinalOnlyLostInRaces` is stated over all writers, so it stands in
`SessionWatcher`: a final status may be overwritten only by a process that had read
the row before it became final, which the history `holders` remembers.

### HookManager, Approval and Poller

A handler per event walks the hooks (`rest`); `pc = "run"` means that it has the
thread, and every other action waits for that (`Quiet`), so that things
interleave exactly at the awaits of the code: `"llm"`, `"human"` (either
callback for the human) and `"exec"`. The queues are sequences, answered at any
index. `mode` and `wired` are chosen at the start, so one run covers every
configuration. `outcome` is a history. `Approval` is the specification of one
request: it arrives at the tier of its mode, moves only from the model to the
human, and is answered once. The refinement reads the stage of a request off the
queues, the handler and the history.

A poll of `Poller` lists the open pull requests and visits one after the other,
then those that have gone. When something changed it fires an event, which
starts a handler, and waits for its end; only there another poll may run
(`Free`, `Running`). `tracked` and `resolving` are the poller's memory, shared by
all polls, and `ghAvailable` is asked for by the first and kept; `about` says what an
event was fired for. `episode` is a history: the conflicts of a ticket fired since gh
last said that a pull request of it is mergeable. A call of gh that fails leaves the
remembered state standing in its place, so a remembered MERGEABLE ends the
resolution unasked (`poller.ts:366`); `misled` names the tickets to which this has
happened, which `ConflictResolvedOnce` excepts. CI is one result; the lifecycle of agents, ready tickets and reviews
are left out.

### AgentWorkspace

`row` is the agents table, `tree` the directory of each agent with the head and
the unsaved work of its worktree. Every command begins with the discovery
(`getWorkspaceInfo`), statement by statement: it lists the active agents, marks those
whose directory is missing, reads the rows twice, scans the disk, updates or
inserts a row for each directory that has none, and reads the agents again. `known`
is what it has left to do, and then the copy it works from. A start then kills or
attaches to the session of its ticket, reuses a worktree, or makes an agent: name,
directory, worktree, row, checkout, launch, each an action, with the retry after a
collision and the undoing after a failure. It may also end between
directory and launch without undoing anything (`LeavesEarly`). A cleanup checks, pushes, looks again,
kills, removes and marks. The agents write, commit and push in between. What the
code swallows may happen: a removal leaves the directory or a part of it (`Leftover`),
the row of what is undone stays, a session is not killed, and a git command
that fails counts as "no unsaved work". `wrote` (cleanups whose agent wrote after
their last look) and `blind` (those whose last look failed) are histories. A start for which no name is left fails (`OutOfNames`): a
bound of the model, since the generator of the code has thousands.

### GarbageCollection

A collector (a command, or the sync daemon for branches past their grace period)
lists containers and worktrees, classifies one branch after the other, then works
off its candidates: container, remote branch, look for uncommitted changes,
worktree, branch. With `--orphans` it asks tmux once, judges each worktree and
removes the orphans after the last. `late` is a history: agents that wrote after
the collector's last look. The constant `Requires` says whether `require` can be
called; in the build, an ES module, it cannot, and every `try` around it falls
through. At most `MaxOutage` calls of gh, docker or tmux fail.

## Runs

| run | instance | shows |
| --- | --- | --- |
| `sb_direct` | three clients on two addresses (two share one), two messages, a clock of two ticks, one crash | a message is handed over at most once, the awaited call is live, all of it is a `Mailbox` |
| `sb_live` | two clients, events and casts, limits of one row for cursor and router, one crash, fair | no event below a cursor is unread, deliveries are accounted for, every message settles |
| `sb_event_lost` | one event, one subscriber | an event marked by the router before the subscriber polled is never read |
| `mq_cycle` | two pull requests with two checks that register one after the other, one gh failure, one crash; from one of five beginnings: the queue alone; a ship beside the queue on one pull request; a ship without the daemon among two; a ship and an author who pushes or runs a check again; two ships on one | no check that a ship saw has failed when it merges the head it saw; native auto-merge is not left behind |
| `mq_pause` | two checks, branch protection that may refuse; from one of three beginnings: commands and a crash over one pull request; a push, a gh failure and a crash over one; a second pull request in conflict | only rebased heads are merged, none with a failure among the checks that were read, and merges are recorded whatever dies in between |
| `mq_not_green` | one pull request, a CANCELLED check | it is merged |
| `sw_cycles` | a container and a host execution, in three scenes: cleanups; cycles of the watcher over both; and everything (command, cleanup, watcher, outages) over one | a cycle never times out what it has just seen; a revived row has a session; final statuses are lost in true races only; the cleanup stops nothing that was alive when its host answered or its container was asked; those it cannot ask, it stops unseen |
| `sw_live` | two scenes, fair: one execution in a container, two overlapping cycles, three crashes and outages; two gateways (one without a default agent), two users (one allowed), two updates, two starts, one fault | no session is restarted twice; a dead agent settles; no update is skipped, heard twice by one start, or left unheard |
| `hk_manager` | two events in two scenes, fair: two hooks of any modes with any callbacks; two overlapping polls of one pull request that changes twice, gh failing once, and one hook that acts or asks the human | every request at one place; the tiers as `Approval` states them; a conflict is acted on once before gh has answered that it is gone; a merge is announced |
| `ws_agents` | three scenes: two starts on one ticket, two names, one cleanup, one retry, one discovery in its midst at a time; two starts and a discovering cleanup over one name, with discoveries interleaved; one start and one name beside one collection at a time, one outage | no unsaved work is removed that a look which worked could have seen; a name has one owner; sessions seen are spared |
| `ws_collision` | two starts on tickets of their own, two names | the one that loses the name, here because its `git worktree add` fails, removes the worktree of the winner |
| `gc_alive` | one agent, one collector of a command | an agent with a session is collected |

The four runs that are named for what goes wrong (`sb_event_lost`,
`mq_not_green`, `ws_collision`, `gc_alive`) are expected to end in a
counterexample.

A scene is a variable of the MC module that is chosen at the start and never
changes; it says which of two instances a run plays, so that parts which share
nothing, or whose product adds nothing, do not multiply. Names and starts of
`ws_agents` are symmetric, and so are the two processes of one address of `sb_direct`,
since nothing in the model orders or distinguishes them and the runs check no
liveness.

The bounds are enough for the cases: every hazard needs at most two processes
on one row, message, request, directory or pull request, and one failure between two of
their steps; a second failure of the same kind meets the same states. Two rows,
requests or pull requests are there where one is acted on because of another (a
shared queue, a sibling's rebase, a cleanup that works off a list). The largest
run has about four million states and takes some three minutes; what a bound
leaves open is what the proofs below are for.

`CHECK_DEADLOCK FALSE` stands only where everything may be done: all executions
final (`sw_cycles`), all requests answered or the daemon stopped (`hk_manager`),
a start without a cleanup (`ws_collision`), everything merged and no daemon
(`mq_cycle`). In `sw_live` a gateway scene without starts left may rest by an
explicit step, `NoMoreStarts`, so that the rest of it is still checked.

## Fairness

- `Switchboard`: a poller in its loop reads again and again, the timers of
  router and collector fire. Reading direct messages is strongly fair because
  `doPollCycle` always polls them before it does anything else.
- `Gateway`: every call of a process ends and the loop goes on, for getUpdates
  and the poke have timeouts. Nobody has to start a process, so what is written
  when all processes have gone for good need not be heard.
- `SessionWatcher`: the interval fires, every step of a cycle returns (all the
  calls have timeouts), and a heartbeat that nobody renews grows old. Spawns
  and commands may hang for ever.
- `HookManager`: a handler that has the thread goes on. Callbacks may never answer,
  and nothing need escalate a queued decision: the one timer
  (`commands/orchestrate/index.ts:345`) belongs to a daemon that always gives
  `onLlmDecision` (line 174) and so queues none, and the managers that do
  queue (`hook/fire.ts:132`) have no timer.
- `Poller`: each poll goes on where the thread lets it. A handler that waits for
  ever may hold all polls, which `MergedIsAnnounced` excepts (`[]Waiting`), as it
  excepts an instance whose events are all used (`Exhausted`).
- `MergeQueue`, `AutoMerge`, `AgentWorkspace` and `GarbageCollection` have safety
  properties only and assume no fairness. A command may stop anywhere, and the cycle of
  the sync daemon does at this commit: `runSyncCycle` lists the tickets
  (`sync/engine.ts:83`), which throws (`pmo/storage/index.ts:312`), so neither the merge
  queue (`daemon-process.ts:105`) nor the collection after it is reached.

## What is proved

All theorems hold for every value of the constants that satisfies the named
assumptions of the module. Each proof has an inductive invariant, a lemma that
the initial states satisfy it, a lemma per action or group of actions, and a
last step that combines them.

- `SwitchboardProofs`: `TypeCorrect`, and `EventsAreNeverSkipped`, whose invariant
  also speaks of the cursor value a poll holds between its statements: the new
  cursor is the last event of the list that was read, and the list was read from
  the old cursor on.
- `SwitchboardProofs`, on delivery:
  `NothingHandedTwice`, `NothingDeliveredUnseen`, `AwaitedCallsLive`,
  `StatusNeverMovesBack`. Their invariant `DeliveryInv` says where
  a delivered message can come from: what is logged (`LogInv`), what a row can be
  (`RowInv`), what clients keep, have read and wait for (`KeptInv`, `PageInv`,
  `CallInv`) and what the router has listed (`RouterInv`).
- `SwitchboardProofs`, on the whole: `IsAMailbox`, the refinement of `Mailbox`, action by
  action. It needs `MailInv` besides: rows up to the last were sent (`SentInv`), what is
  on a page or was taken is addressed to the process (`BoxInv`), a reply is the
  callee's to the caller (`ReplyInv`), and nobody waits for a call that returned
  (`ReturnInv`). `StatusNeverMovesBack` says of the table's column what the mailbox says of
  its stages; no run checks it apart.
- `GatewayProofs`: `UpdatesAreHeard` and `UpdatesAreHeardOncePerStart`. Every update
  below what Telegram has forgotten, or before the one a process is at, has been
  heard; the second needs that starts are numbered apart and that a
  start has heard only what lies before its place.
- `MergeQueueProofs`, of the queue: `TypeCorrect`; `RebasedFirst`, where `OnlyRebased`
  follows the current pull request through the file, the copy of the daemon and those
  of the commands; `NoFailureMerged`, where `ReadChecks` says that checks which were listed and
  ended stay as they were read as long as the head is the same and nobody runs them
  again; `MergesRecorded` from
  `Recording`: unless a mishap cost the file its content, whoever has the state (the
  file, the cycle that writes it, or a command that has truncated it) carries
  as current the pull request that is merged and not recorded and the one a cycle works
  on (`FileCarries`), and in a cycle such a pull request is the current one when it is
  looked up, is none while the cycle rebases, reads checks and merges, and is noted from
  the merge to the write (`CycleCarries`).
- `MergeQueueProofs`, of ships beside the queue: `QueueBesideShips` says that the
  invariants of the queue survive what ships do, because a ship moves a pull
  request only as authors and GitHub may (`PRsMove`), and `NoFailureBesideShips` that the
  queue's merges still have no failure among the checks it read. `ShipsTyped`, `AutoMergeIsWatched` and
  `NothingUntestedShipped` rest on `ShipInv`: a ship has not seen a head that is yet to come, and
  past its checks a head that is still the one it saw has passed those it was shown
  (`Right`);
  native auto-merge is on only for an open pull request with a ship that switched it
  on and is not over.
- `SessionWatcherProofs`: `TypeCorrect`, `SeenAliveIsSpared`, `RevivalsHaveSessions`,
  `OneCycleRestarts`, `OnlyRacesLoseFinals`, and `CleanupConfirms`, for any labels and
  any outages, of environments that were asked. The invariants say who owns a crash (`Owned`), what a list that was
  read before a wait still means (`SeenIsFresh`, `Probed`), and that a process in the
  middle of its statements is a holder of the row (`HoldersKept`).
- `HookManagerProofs`: `TypeCorrect`; `OneEach` (`EveryRequestAtOnePlace`), whose
  invariant adds that no queue holds a request twice, that a request has at most
  one outcome (`Once`) and that the late decisions are the oldest (`OldestLate`), so that
  the timeout's removal of a prefix takes what is late. A step moves
  some requests to one place (`Moved`), and one lemma says that this keeps places
  apart. `Implements`: every step is a step of `Approval` or a stutter under the
  refinement mapping, action by action; `stop` is `Drops`, the timeout `Escalates`.
- `PollerProofs`: `PollsKeepOneEach` and `PollsImplement` carry both results over to a hook
  manager whose events come from polls, since each poll's step is one of the
  manager or leaves it alone. `PollTypeCorrect` and `ConflictsResolvedOnce`, from `OneResolution`: the
  ticket of a conflict that was fired is in `resolving` until gh says that it is
  mergeable, or it is `misled`.
- `AgentWorkspaceProofs`: `TypeCorrect`; `LateWorkOnly`, which excepts a look that
  failed; `InsertedOnce` from `NameInv` (the row of an inserted name is there or was
  taken, `RowKept`).
- `GarbageCollectionProofs`: `CollectionTypes`, `OnlyLateWorkCollected` and
  `MetSessionsAreSpared` from `GCInv`, over all that starts, cleanups and agents do
  in the meantime: their steps are covered by the type invariant of
  `AgentWorkspaceProofs` and a few facts about who may write in a worktree.

Only model-checked is liveness (`MessageSettles`, `EveryMessageHeard`,
`DeadAgentsSettle`, `MergedIsAnnounced`), which
the prover cannot treat under fairness, and what is said of violations. Every
invariant and action property of a passing run is a theorem.

The assumptions are those named in the modules: constants that are sets, numbers
or functions of the stated kind, values that stand for nobody or nothing outside
the sets they are not in (`TornAssumption`: a truncated file is no state), an order of
hooks without repetition.

## What disagrees with the code's own statements

Four runs show it, and `findings` in `PROJECT.json` quotes the statements: the
router marks an event delivered that a subscriber then never reads; the merge
queue, which the daemon of this commit does not reach, merges after CANCELLED
checks; the start that loses a name removes the
worktree of the one that won it; a live agent is collected, because the guard asks
the database with a `require` that always throws.

Seen in the code while modelling it, allowed by the models or excluded by a named
condition of a property, and not checked by a run of their own:

- Switchboard: a cast read by a process that then dies is gone, although it
  counts as delivered.
- Gateway: an agent's answer never reaches the user, because the poker reads
  `parsed.response` (`session-poker.ts:68`) where `session poke --json` puts it under
  `result` (`prompt-json.ts:613`), against `router.ts:9`; `types.ts:45` says the router
  de-duplicates re-delivered messages by id, but after a stop, a death or beside a
  second gateway a message is poked again; a message whose handling meets a
  database error is dropped with a log; two gateways with different
  `--default-agent` overwrite each other's route (`machine-db.ts:786`).
- Merge queue: the daemon never runs it, because `runSyncCycle` throws before
  (`sync/engine.ts:83`); a list of checks that is green but not complete is merged on
  (`merge-queue.ts:365`, and `auto-merge.ts:212` for ships), although
  `.github/workflows/test.yml` registers most jobs only after `detect-changes`; a merge
  after which gh fails is ejected, when the lookup fails too (`merge-queue.ts:401`); a
  commit pushed between the reading of the checks and the
  merge is merged untested; a pause given during a cycle is overwritten when the
  cycle saves; an ejected pull request is picked up again.
- Ships: when gh reports no checks, or fails, `--when-green` merges at once
  (`auto-merge.ts:212`, `pr/index.ts:1116`), also just after its own force-push, against
  "once all checks pass" (`auto-merge.ts:4`); conclusions other than FAILURE count as
  green there too; `rebaseOntoBase` fetches first, so `--force-with-lease` overwrites what
  others pushed (`auto-merge.ts:75`); `ship --all --when-green` reports a failed
  enabling as enabled (`work-service.ts:390`).
- Executions: `execution complete` overwrites a final status that was set after it read
  the row; the cleanup asks only containers with the label `devcontainer.local_folder`
  (`storage.ts:541`), which no runner sets (`docker-management.ts:374`), so it
  stops the rows of live containers of the program; it takes a failing `docker ps` for absent sessions
  (`storage.ts:511`); the watchdog takes a probe that errs for a crashed server
  (`tmux-watchdog.ts:163`, against line 12); an execution set running by a spawn slower
  than the heartbeat timeout, or whose pane said DONE, is never stale.
- Hooks: a request for a service or for a message to a session, once
  approved from a queue, is executed as a shell command (`manager.ts:742`).
- Poller: a failing gh with a remembered MERGEABLE ends a resolution, after which the
  same conflict is acted on again (`poller.ts:366` against line 65); CI results, reviews and merges are announced twice by polls that overlap;
  after a slow poll's stale write the last CI result may never be announced; a
  failing list of pull requests drops what is remembered; a hook that waits for a
  human blocks every poll at that pull request; an agent's death is never announced,
  since the watcher makes the row final first (`poller.ts:192`).
- Agent workspaces: a git command that fails counts as "no unsaved work", so a cleanup
  without force removes what it could not look at (`agents/commands.ts:1206`); errors
  of the removals and of the database are swallowed when a start is undone
  (`agents/commands.ts:832`, 890), so that a failed agent stays on disk or in the
  table; the discovery of any command registers half-made directories as
  active agents, so that their creators collide (`database/agents.ts:398`); two
  creators that find the same ended row both recycle it (`database/agents.ts:197`); a reuse
  that fails deletes the worktree with its uncommitted work (`work/start.ts:2822`);
  commits on a detached head or without an upstream are not seen as unsaved
  (`agents/commands.ts:1176`); the cleanup looks for a docker label nobody sets
  (`commands.ts:1105`).
- Garbage collection: with `require` throwing (`gc/index.ts:214`, 486, 526, 561, 881;
  `liveness.ts:104`) neither database checks nor recycling nor
  `cleanupTicketWorktrees` do anything; a failing gh makes every branch "closed"
  (`pr/index.ts:503`), so that it is collected and deleted at the remote, which closes
  its pull request; `git branch -D` deletes commits that were not pushed; the
  container and remote branch go even when the worktree is kept as dirty; `gcSweep`
  (`orchestrate/actions.ts:430`), which presets run on idle and completed agents
  (`presets.ts:54`), takes every agent for dead for the same reason and removes all
  worktrees with `--force`.
- Daemons: a failing `tmux ls` marks a live daemon's record failed; of two supervisors
  the slower one marks the record of the live daemon failed
  (`daemon-manager.ts:84`).

## Not modelled

Output, argument parsing, the adapters of external services and the schema
migrations have no behaviour worth a model. Docker, tmux, SQLite, GitHub,
Telegram and CI are environment: their outcomes are choices. The reconciler, the
chaining of actions and the transitions after an execution do nothing at this
commit, because the board storage throws. The daemon manager's records are shown
and decide nothing, and ordinary use falsifies them. The mirror of the machine
database is a second copy nobody modelled reads. The prompts given to a language
model have no behaviour to check. The large files under `commands/` are mostly
prompts, flags and layout around the operations that are modelled; of
`work/start.ts` the part that makes, reuses and undoes an agent is. So the models
cover the concurrent core and a small share of all lines.

## Plan

What is left, in the order of what it would add:

1. The orphan cleanup before a spawn, `session restart` and the columns of
   `agent_work` a collector writes, as further writers of `SessionWatcher`; then
   the composition of `AgentWorkspace` with `ExecutionLifecycle`.
2. `work spawn` in batches over `AgentWorkspace`: its limit of agents at once.
3. The poller's ready tickets and agent lifecycle, over rows that the watcher
   writes.
4. Abstract specifications: a merge intent that `MergeQueue` and `AutoMerge`
   implement together, an execution with one final status for `SessionWatcher`.
5. Proofs of what these add, in the invariants that are there.
