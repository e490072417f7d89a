# A verification of Dkron

TLA+ models of Dkron, a distributed cron: the replicated job store, the way of
a run from the scheduler to a node and its result back, the scheduler that has
to follow the store, the leader loop, the HTTP API and the web console. TLC
checks small instances; TLAPS proves most of their safety properties for all
sizes. `PROJECT.json` lists the
runs, the defective variants each property catches, the source lines behind
each definition, the disagreements found, the hazards and the theorems.

## 1. The system

Servers form a Raft group. The leader runs the cron scheduler; nodes (servers
and agents) run commands. Serf tells who is alive, gRPC carries the calls.

| Part | State | Operations | Talks to |
|---|---|---|---|
| Store (`store.go`) | jobs, executions, daily statistics in BuntDB | SetJob, DeleteJob, SetExecution, SetExecutionDone, DeleteExecutions, snapshots | called by the FSM, read by everyone |
| FSM (`fsm.go`) | the store | Apply, one message type at a time; Snapshot, Restore | Raft |
| Scheduler (`scheduler.go`) | cron entries, `started` | AddJob, RemoveJob, Start, Stop | handlers and leader loop, without a common lock |
| RPC server (`grpc.go`) | none | SetJob, DeleteJob, ExecutionDone, SetExecution, RunJob, ... | Raft, then scheduler or dispatch |
| Dispatch (`run.go`, `grpc_client.go`) | `activeExecutions`, one goroutine for each target | Agent.Run, AgentRun and its retry loop | nodes, and the leader for results |
| Node (`grpc_agent.go`) | the running command | AgentRun: first message, command, final message, fallback | the dispatcher, or any server |
| Leader loop (`leader.go`) | channel of the monitor, established or not, Raft peers | establish, revoke and transfer leadership, reconcile members with peers | scheduler, Raft, Serf, store |
| Membership (`serf.go`, `server_lookup.go`) | known servers | join, leave, fail, bootstrap | Raft peers |
| HTTP API (`api.go`, `ui.go`) | pause flag of the node | save, toggle, run, delete, auto-disable check, lists, index.html | the node's own store for reads, the leader for changes |
| Console (`ui/src`) | token, page, list parameters, selection, a change that can be undone, busy buttons | login, pages, filters, buttons, forms, diagram | HTTP API |
| Plugins | external processes | execute, process output | node, RPC server |

What is hard here, and what correctness means:

* **Store.** Any client sends any record, often one it read long ago; results
  arrive late, twice or before their start; SetJob and DeleteJob are several
  transactions. The job tree must stay whole, nothing may be half done,
  counters and results may not go back.
* **Dispatch and results.** A stream may break while the command goes on,
  servers may crash or lose the leadership at every point, and both the
  dispatcher and the node may report. A command should be started once, retried
  as often as configured, its result stored, its dependents run after it, and a
  job with concurrency "forbid" should not overlap with itself, nor be blocked
  for ever.
* **Scheduler.** Each change goes to the store through Raft and then to the
  entries, without a lock, while the leader loop may be filling the scheduler
  and runs write jobs back. In the end entries and store should agree.
* **Leadership.** The monitor, the loop and Raft are three goroutines that
  exchange notices; every call of the loop may fail or be overtaken by a loss
  of the leadership. Only a loop may schedule, a deposed server must stop, a
  lasting leader must schedule, and peers must follow members that move.
* **API and console.** Handlers read the local store and write whole records
  later, at a leader of which the local store may be behind; requests are lost,
  answers come after the page was left or after newer ones. What is acknowledged
  must be stored and shown, buttons must become ready again, and list, cards,
  labels and diagram must agree although each translates statuses and parents on
  its own.

## 2. Modules

| Module | Models | Checked by | Proved in |
|---|---|---|---|
| `Storage` | `store.go`, as operators on values | through FSM | `FSMProofs`, `StoreProofs` |
| `FSM` | `fsm.go`: the log applied to the store | `MCFSM` | `FSMProofs`, `StoreProofs` |
| `JobTree` | the abstract promise of the store about parents and children | `MCFSM`, as a refinement | `FSMProofs` |
| `Runs` | `run.go`, `grpc_client.go`, `grpc_agent.go`, ExecutionDone of `grpc.go`, `isRunnable` | `MCRuns` | `RunsProofs`, `RetryProofs` |
| `JobSync` | `scheduler.go`, SetJob and DeleteJob of `grpc.go`, the write-back of `run.go`, `leader.go` where it starts and stops the scheduler | `MCJobSync` | `JobSyncProofs` |
| `Leadership` | `leader.go`, with Raft and Serf as it uses them | `MCLeadership` | `LeadershipProofs` |
| `Diagram` | the walks and the layout of `JobDependencyDiagram.tsx`, as operators, with a reference definition | through Views | - |
| `Views` | what the pages show: dashboard, job list, job page; `GetJobs`, `jobsHandler`, `ui.go` | `MCViews` | - |
| `API` | the handlers of `api.go` that change jobs | through Console | `ConsoleProofs` |
| `Console` | the console as a client: session, fetches, buttons, forms | `MCConsole` | `ConsoleProofs` |

`FSM` extends `Storage`; `Runs`, `JobSync`, `Views` and `API` each extend `FSM`
and change the store only through its actions; `Console` extends `API`, and
`Views` uses `Diagram`. `Runs` and `JobSync` are not composed: `Runs` writes Next in
one step (nothing else of the record can change in it, as only results touch
the jobs there and SetJob merges those), and `JobSync` splits that write and
leaves the dispatch out.

### Storage and FSM

`jobs` maps each name to a record or to `NoJob`; `execs` is a set with at most
one execution for each key; `stats` are the totals over all days; `resp` is
what Apply answered. Each action is one log entry, whole. Times are numbers,
`Never` is the zero time, and `Later` is what both `time.After` and
`NullableTime.After` decide. `deps` counts how often a name occurs in
DependentJobs, since removal drops all occurrences and addition appends one;
the order of the list is left out. The fields of a job that only its owner
writes are one value, `config`. `GetNext` reads the clock of each replica, so it
is any member of `NextTimes`. Validation covers what model values can get
wrong: the parent and the missing schedule. `NamePrefixes` holds the pairs of
names of which one starts with the other: the store deletes executions by a
prefix of the key. `Trimmed` is a set of outcomes, as equal start times are
ordered by an unstable sort.

The constants `JobInputs` and `ExecInputs` are what clients and nodes may send;
nothing is assumed about the order.

### Runs

A *task* is the goroutine of one target in one call of Agent.Run, a *cmd* the
command that one of its dispatches started on the node, and a *call* an
ExecutionDone on its way, identified by who sent it. A server that is not the
leader forwards the call (`via`) and drops what the leader answers, which the
caller takes for success (`Told`). `active` is the union of
the servers' `activeExecutions`, which is what `GetActiveExecutions` asks for.
The clock `now` advances with every reading, so keys and groups are distinct.

| Code | Actions |
|---|---|
| `Job.Run`, `Agent.Run` | `Fire`, `Run` |
| `AgentRun`, `agentRunAttempt` | `DialFails`, `Dispatch`, `Refuse`, `RecvFirst`, `CallSetExecution`, `RecvFinal`, `RecvEOF`, `RecvError`, `DoneReturns`, `AttemptFails` |
| `AgentServer.AgentRun` | `Dispatch`, `Finish`, `Fallback` |
| `GRPCServer.ExecutionDone` | `ForwardDone`, `AcceptDone`, `ApplyDone`, `FetchJob`, `RetryRun`, `RunReturns`, `Notify`, `RunDependent`, `EndDone` |
| Raft, processes, network | `Elect`, `StepDown`, `Crash`, `NodeCrash`, `BreakStream` |

Each read of shared state, Raft entry and remote call of ExecutionDone is a
step of its own, so calls interleave there. Abstractions: a job is enabled and
due and targets every live node; executions are younger than the stale
threshold of `cleanupStaleRunningExecutions`; intermediate output messages
change nothing; the caller of a server that crashes while it forwards a result
learns of it when the forwarded call ends; a broken stream loses any message
that was not received, the final one too;
the Raft error that makes `GRPCServer.SetExecution` end its process is an error
to the caller; a job without executor behaves like one whose node dies after
the first message; a stored job is in the leader's scheduler.

### JobSync

One server's point of view: its cron `entries`, whether Raft has it lead
(`leads`), its leader `loop`, whether the scheduler is `started`, and the place
of each handler (`thread`). AddJob is three steps (find, remove, add), as it
holds no lock; its first look and the look of RemoveJob are one, since only the
second decides. `ClearCron` is one step. While the server does not lead,
`Elsewhere` changes the store. Handlers lose the leadership at any point: Raft
then refuses their entry, but scheduler changes go on.

Raft and the loop are apart. `Elected` and `Deposed` happen at any time; the
monitor reads later whether the server leads (`Won`, `Lost`), since LeaderCh
keeps the newest value only. A server that loses and wins again before its
monitor looked keeps its loop and its scheduler, with the entries of the earlier
term. A loop that was told to stop may still pass `Barrier` when the server leads
again by then. `Boot` is the loop from the barrier to the start of cron.

Two history variables say for what the properties are stated: `steady`, the
server has led without break since the barrier of its loop, and `raced`, the
jobs of which two calls (or one and the filling of the scheduler) overlapped
since then.

### JobTree

Only the stored names and the parent of each: a job is put below a stored job
that is not itself, and a job is removed when none hangs below it. `FSM`
implements it with the map that forgets everything else
(`ImplementsJobTree`), whatever the lists of dependents hold, which clients can
send.

### Leadership

Each server has the newest unread `notice` of LeaderCh, the channel
`weAreLeader` of its monitor (nil, open, or closed and waited for), the place
of its `loop`, `established`, and the scheduler's `started`. Raft is a leader
or none, a configuration `peers` of names and addresses, and a quorum of peers
that answer; Serf is a set of members with a status and an address.

| Code | Actions |
|---|---|
| `monitorLeadership` | `Won`, `Lost`, `LoopWaited` |
| `leaderLoop` | `Barrier`, `establishLeadership`, `leadershipTransfer`, `reconcile`, `reconcileMember`, `StopLoop`, `Reconciled`, `Interval` |
| `addRaftPeer`, `removeRaftPeer` | operators of `reconcileMember`, over `Configure` and `AddVoter` of Raft |
| Raft and Serf | `Elected`, `Deposed`, `Join`, `Stop`, `Reap` |

`reconcileCh` and `shutdownCh` are nil in every agent, so the loop never
receives from them; members are looked at once in each interval. The members of
reconcile are a snapshot, and each member is a step of its own. Members of
which nothing is to be done are passed in the step that reads them. Fill and
contents of the scheduler belong to `JobSync`.

### Diagram and Views

`Diagram` has the two recursive walks with the sets and levels they share, the
order of a JavaScript Set, the layout, and beside them what a diagram should
be: the ancestors and descendants by a closure. `Views` has one browser window
over the store of `FSM`, to which entries are applied while a page is open.
`html` is what the server wrote into index.html, `params` the list parameters
that react-admin keeps, `page` the mounted component with its state. A request
and its answer are one step at the time of the answer, as only the read of the
server matters there; `Console` splits them. Names and groups are numbers, in
the order of localeCompare; the order of a list of dependents is that of the
names.

| Code | Definitions |
|---|---|
| `JobDependencyDiagram.tsx` | `Diagram`, `Graph`, `hasNoDependencies`, `DiagramAnswer`, `DiagramFailure`, `ClickNode` |
| `JobList.tsx`, `StatusField.tsx`, `EnabledField.tsx` | `Filters`, `SetFilter`, `TurnPage`, `JobGroupFilter`, `ChooseGroup`, `JobDatagrid`, `StatusField`, `EnabledField`, `ClickRow` |
| `JobShow.tsx` | `JobShow`, `OpenTab`, `Refresh`, `RecordAnswer` |
| `dashboard/` | `Dashboard`, the links of the cards, `ClickCard`, `StatsAnswer` |
| `GetJobs`, `jobsHandler`, `ui.go` | operators of the same names, `UI` |

### API and Console

A request is in one of the places `Calls`, from "sent" over "store" (the handler
has read what it needs and calls SetJob) to "answered", with the status, whether
the state machine accepted the entry, and the entry's place in the log, `rev`.
One node serves all requests. Entries are applied by the leader, to `jobs`, while
handlers and pages read the node's own store: `trail` holds that store (`Local`)
and the ones that the entries which the node has not applied yet will make of
it, and `Replicate` applies one. A node that is the leader is the case in which
`trail` has one element when the answer goes out.

A run answers when it is over: `jobRunHandler` stores the job with its next time,
the request is then at "running", and `RunJobReturns` answers, with 404 when no
node was a target. The run that runoncreate starts is a request of another
client, as nobody waits for it.

`Console` has one window and other clients. A page is read by the server
(`FetchRead`) and arrives later (`FetchAnswer`); the number of entries that the
node has applied, `Seen`, stands for the data of the read. `busy` holds the
buttons that wait, `pending` a change that can still be undone, `acked` the newest
entry that an answer told the window of and that the node had applied by then. A
request keeps the token it was sent with and whether its page is still mounted.
The output of one execution grows while its page is open; `listed` is its length
in the list of executions on the screen, `panel` what is drawn, and `shown`
whether the record that FullButton writes its answer into still is the one on
the screen. `Sessions` says what a session is about, so that one run has
sessions of buttons, of bulk actions, of forms, of outputs, of tokens and of other
clients, instead of all at once. An answer to a fetch that was replaced by
another one is dropped, its status too. Signing out removes the token and opens
the login page in one step, as the browser takes no other event in between. A
request may be lost before it is handled, while its run goes on, or on the way
back; a browser that gives up while SetJob is under way is not modelled apart, as
the lost answer has the same effect.

## 3. Runs and what they show

Passing:

| Run | Shows | Bounds |
|---|---|---|
| `FSM_tree` | lists are exactly the children, no edge of the tree breaks, errors leave no trace, the abstract job tree is implemented | 4 jobs (symmetric), every parent, schedule present or not, DependentJobs left to the store |
| `FSM_counters` | counters, results and successes against stale records, late and repeated reports, deletions | 2 jobs, 2 runs each with a start and two results, limit of 1 execution, 2 counted results of each kind |
| `Runs_live` | acknowledged results are stored as reported, or replaced by the failure made up for a broken stream, no command is dispatched twice, results arrive, forbid jobs are not blocked for ever | 1 job with 1 retry, 3 runs, 2 servers, 1 broken stream, 1 redispatch |
| `Runs_forbid` | forbid holds and nothing leaks | 1 job without retries, 2 fires, 1 step-down, 1 server crash |
| `Runs_chain` | retries are bounded, an ephemeral job leaves nothing | main and an ephemeral child with 1 retry each, and as made-up dependents of main a name that is not stored and main itself; all that 1 fire sets off, 1 node and 2 servers, one of each may crash |
| `JobSync_jobs` | a job fires once and the scheduler is right, unless calls for that very job overlapped | 2 jobs, one of them a child in some versions; 2 calls (or 1 and the filling) at a time, for one job or for two; 3 cron identifiers, which bound the terms; any elections, noticed late or never |
| `Views_pages` | the diagram is complete, without overlaps, with arrows in the order of execution, and honest when it is empty; cards, lists, groups, filters and labels agree | 4 jobs in 3 groups, parents that make stars, chains and cycles, one made-up list of dependents, every status, pages of 3 rows; 1 entry while the console is open |
| `Console_pages` | acknowledged is stored, and shown once the node has it; an output is never older than its list; no page without token; buttons recover | 2 jobs, parent and child; 6 kinds of sessions with 2 requests (1 with tokens), each of which may be lost, refused or without a leader; a node any number of entries behind; an output of up to 3 units, cut after 1 |
| `Leadership_loop` | schedulers run in loops only, stop after a loss and start with a lasting leader, and peers follow members | 4 servers, 3 of them peers at first, 3 addresses, 2 elections, 1 failing call, 2 changes of membership |

Two of everything that races, and one failure of each kind, is where the
counterexamples below show up. The store relates no more than a job, its parent
and its former parent, so four names leave room there; the theorems remove the
bound and the restriction on DependentJobs. Three runs in `Runs_live` are needed:
a broken stream may be reported twice, and each report may start a retry.
Six runs in `Runs_chain` are all that one firing can set off: with a seventh
TLC finds the same states.
Four jobs make the diagram's walks meet a name twice, two rows of boxes and a
cycle beside a tree. Four servers on three addresses let a server take over the
address of a peer, and two elections let a deposed leader win again.
CHECK_DEADLOCK is off for `Runs`, `JobSync` and `Leadership`, as their bounds
end every behaviour; the store and the console never stop.

Violations, each a disagreement between the code and what the repository says of
it (quoted in `PROJECT.json`):

| Run | What happens |
|---|---|
| `FSM_prefix` | deleting the executions of `backup` deletes those of `backup-db`, not its counters |
| `JobSync_clients` | two SetJob of one job leave two entries |
| `Runs_pair` | one node's success is stored before another one's start: the dependent job runs while the second command does |

### The border of the passing runs

The bounds of a passing run are part of its claim. These changes of a
configuration make TLC report a violation, and each one is a behaviour of the
code rather than of the model:

* `Runs_live`, MaxStepDowns = 1: the leader steps down after the command
  started, the error of SetExecution is retryable, and the execution is
  dispatched again (`StartedOnce`). A result handed to a follower is lost when
  there is no leader or it steps down before raft.Apply: the follower drops
  every error of the forwarded call (`AckedResultStored`). So it is with
  MaxCrashes = 1. Also with a leader that stays, an acknowledged success may
  disappear from the store: the dispatcher, whose stream broke, reports a failure
  that is later. `AckedResultStored` names that case and admits no other. With an ephemeral job the
  deletion takes the result along, and with MaxExecutions = 1 a later start
  trims it (`AckedResultStored`).
* `Runs_forbid` with a retry: the retry keeps the FinishedAt of the failed
  attempt, so its start is stored as finished and, after its server crashed,
  the job may run again at the same time (`ForbidHolds`).
* `Runs_forbid`, MaxBreaks = 1: the dispatcher takes a broken stream for a failed
  command and its result is stored; after a crash nothing tells that the
  command still runs (`ForbidHolds`).
* `Runs_chain`, MaxBreaks = 1: dispatcher and node both report a failure, each
  starts a retry (`CommandsBounded`), and both work at the same time
  (`NoOrphanExecutions`). For an ephemeral job alone
  on two nodes, the second node's start may be stored after the success of the
  first deleted the job (`NoOrphanExecutions`).
* `Runs_chain`, MaxFires = 2, with a main job that allows concurrent runs: each
  run of it starts the ephemeral dependent before the other's start is
  registered as active, although the dependent forbids that; the first success
  deletes it, and the second start is stored afterwards (`NoOrphanExecutions`).
* `JobSync_jobs` without `raced`: besides `JobSync_clients`, a job changed between
  establishLeadership's read of the store and the start of the scheduler is
  scheduled in its old form (`SchedulerFollowsStore`). Without `steady`: a server
  that leads again before its monitor noticed the loss schedules what was stored
  in the earlier term, until its loop ends.
* Agent.Run stores the whole record it read, not only Next: a change that a
  client made in between is undone, and a job deleted in between comes back.
  No property of `JobSync` forbids it, as both are records that were valid.
* `Leadership` with `prompt` FALSE (both values are initial; two properties ask
  for TRUE): a loop ends itself after a transfer, the same server wins again
  before its monitor read the loss, and since LeaderCh keeps the newest value
  only and the second "won" is ignored, the server leads without a loop
  (`LeaderSchedules`). A failed or reaped member remains a Raft peer, which
  `PeersFollowMembers` therefore does not exclude.
* `CardsMatchLists` for the card of all jobs when a filter is remembered, and
  for partially failed jobs, which no card counts.
* `EmptyIsTrue` when the page of 1000 jobs is full.
* `AcknowledgedIsShown` with every acknowledged entry instead of those that the
  node had applied: the answer comes from the leader, the page that is fetched
  again from a follower which is behind, and it shows the job as it was until the
  next refresh.
* `ButtonsRecover` without the exception for runs: the Run button waits for the
  answer, which comes when the run is over on all nodes.
* JobInputs with a record that the state machine refuses: the handler still
  removes the cron entry of the stored job, as applySetJob passes on two errors
  only.

Three expectations are no invariants of the store, and no run states them: a
result that is reported again after a later one of its kind is counted twice; an
older success that is reported late moves LastSuccess back; and results without
a stored start exceed MaxExecutions, since only SetExecution trims.

### Fairness

`FairRunsSpec` assumes weak fairness of each goroutine, command and call, and of
the election. Goroutines run until they block; commands end; Raft elects while
a majority is up. Neither the scheduler's firing nor any failure is assumed.
`ConsoleFairSpec` assumes of each request that the server handles it or the
connection fails, and that the browser settles each promise. It assumes neither
that a run ends, since its RPC has no time limit, nor that a node catches up with
the leader; and nothing of the user. `LeadershipSpec` assumes that monitor and loop run, that
Raft deposes a leader without a quorum (its lease), and strong fairness of the
receipt from the closed stop channel: the loop's `select` meets it again and
again beside the timer and chooses among the ready channels at random.
In `Runs`, liveness is checked without step-downs and crashes of servers: a dispatching
goroutine that dies with its server reports nothing.

## 4. What is proved

`FSMProofs`, for every set of names, inputs, prefixes and bounds, from the named
assumptions of `Storage` and `FSM` (the special values differ from ordinary
ones, inputs are records of the right shape, MaxExecutions is positive):

* `Inductive`: `Spec => []IInv`, with
  `IInv == TypeOK /\ ParentListsChild /\ KeysUnique(execs)`.
* `TypeCorrect`, `TreeWhole`: its first two parts.
* `NoPartialFailure`: an entry answered with an error changes nothing. SetJob
  commits first and updates the parents afterwards; that those updates cannot
  fail follows from `ParentListsChild` before the step: the old parent is still
  stored, and so is the parent of each parent that is stored again
  (`RemoveSucceeds`, `AddSucceeds`).
* `CountersSafe`: counters only fall to zero, with the executions. It needs the
  types, and that merging takes the larger counter (`MergeType`).
* `ResultsSafe`: under one key FinishedAt only grows. It needs
  `KeysUnique`: with two versions under a key the comparison with one of them
  would say nothing of the other.

* `TreeImplemented`: `Spec => JobTree!Spec` under the refinement map. Each entry
  is a `Put`, a `Remove` or a stutter; that a job with children is not removed
  needs `ParentListsChild`, since DeleteJob only looks at the list.

The job tree is the longest part (`SetJobTree`, `DeleteJobTree`): it follows the
map of jobs through the commit, the removal from the old parent and the addition
to the new one, where old and new parent, the job itself and any other job are
separate cases.

`LeadershipProofs`, for any servers, addresses and bounds, from
`LeadershipAssumption`:

* `LoopInvariant`: `LeadershipSpec => []LoopInv`. `SchedulerHasLoop` alone is
  not inductive: a loop started beside an older one would establish itself over
  a running scheduler. `LoopInv` adds that a server without channel has no
  loop, that scheduler and `established` agree, and that an established loop is
  not at the places of a failed establishment.
* `SchedulerBound`: its consequence `SchedulerHasLoop`.

`StoreProofs`, over `FSMProofs`:

* `ChildrenListed`: `CleanInputs /\ Spec => []DependentsAreChildren`. The
  hypothesis says that clients leave DependentJobs to the store: a list that a
  client sends is stored as it is, and may name anything. The proof
  (`SetJobExact`, `DeleteJobExact`) follows one job out of the old list and into
  the new one, once.
* `EverySuccessCounts`: `Spec => []SuccessesCounted`. It alone is not
  inductive: a job stored anew starts at zero, so `Counted` adds that a job that
  is not stored has no successful executions, and that executions are finitely
  many.
* `CountersNotOrphaned`: `NamePrefixes = {} /\ Spec => NoOrphanCounters`. With
  prefixes it is false (`FSM_prefix`). Trimming leaves the newest execution, as
  MaxExecutions is positive.

`FSMProofs` has for the modules that follow `ValidStored` (every stored job
passed Validate) and what an entry does to the fields that only owners write.

`JobSyncProofs`, from `JobSyncAssumption` (the handlers are finitely many):

* `SyncInvariant`, `SyncTypes`: types, the invariant of the store, and what a
  handler knows at each of its places.
* `FiredOnce`: `SyncSpec => []FiresOnce`, for any number of overlapping calls and
  any elections. A job whose own calls overlapped (`raced`) is excepted, and there
  the property is false (`JobSync_clients`). `Single` adds what the steps of AddJob
  rely on: of a job that is not raced, an identifier that was found is still its
  one entry, and after the removal there is none (`Apart`: at most one thread is
  concerned with it).
* `SchedulerInStep`: `ValidSent /\ SyncSpec => []SchedulerFollowsStore`.
  `ValidSent` is what the API lets through; a record that the state machine
  refuses still changes the scheduler (section 3). The invariant `SyncFollows`
  says of each job that is not raced, while the server is `steady`, that its
  entries follow the store or a handler is about to make them (`Follows`), and
  the same of the jobs that `Boot` has and has not yet added (`Boots`).

`ConsoleProofs`, from `APIAssumption` and `ConsoleAssumption`; `APIAssumption` asks that
the store at the start is one that the state machine can be in (`Whole`), and
that switching a job on or off gives a configuration:

* `ConsoleInvariant`: `ConsoleSpec => [](ServerInv /\ WindowInv)`.
* `AcksTrue`, `ChangesShown`, `OutputsFresh`, `LoginHides`: `AckedIsApplied`,
  `AcknowledgedIsShown`, `OutputNotOlder` and `LoggedOutSeesNothing`, for every
  session, any number of overlapping requests, lost or refused, any other
  clients and any lag of the node. `AckedIsApplied` rests on the validity of the
  record that a request carries to SetJob and of every stored job, at the leader
  and in every store that the node goes through (`Sound`, `Trail`), since
  applySetJob takes unknown errors for success. `AcknowledgedIsShown` needs that
  an answer on its way to the page is not older than what the window was told
  (`Sight`), and that the node keeps what it has applied (`acked <= Seen`).
  `OutputNotOlder` needs that a panel which is cut is the listed one, and that
  an answer which will still be shown is not older than the list (`Outputs`): a
  fetch that finds a longer output takes the record away from the request, and
  one that finds the same leaves an answer that is at least as long.
  `LoggedOutSeesNothing` needs that no request of the window has a mounted
  component left when the login page is open (`Hidden`).

`RunsProofs`, from `RunsAssumption` (there are servers and jobs, the stored jobs
at the start are `Whole`, bounds are numbers):

* `RunsInvariant`, `RunsTyped`: types, with the invariant of the store.
* `ActiveInvariant`, `NoLeakedEntries`: `ActiveHasTask`, for any failures. The
  invariant says that a goroutine which receives holds the execution of its own
  command (`Linked`), so that the second message finds the entry that the first
  one made, and that a run not made yet has no goroutine that could hold one.
* `BegunInvariant`: a running command has sent its first message and its node is
  up.
* `DispatchedOnce`: `MaxStepDowns = 0 /\ RunsSpec => []StartedOnce`, for any
  crashes, broken streams and redispatches. With a step-down it is false
  (section 3). Without one only the leader works (`Loyal`), since a crash takes
  the goroutines of the old leader with it; so no report is refused, a
  redispatch follows only a dial that failed, and no earlier attempt of the
  goroutine has started a command (`LastTry`).
* `StoreForbids`: `MaxBreaks = 0 /\ StoredOnce /\ RunsSpec => []ForbidHolds`, for
  any crashes of servers and nodes, elections and step-downs. `StoredOnce` says
  that no job has retries; with one the property is false (section 3). With
  MaxBreaks = 0 a stream ends early only when its node or server does: the
  dispatcher would otherwise report a command as finished while it runs. The
  invariant says that commands differ in the instant of their start
  (`Commands`), and that nobody, neither store nor report nor goroutine, has a
  result of a command that runs (`StoreHolds`, `CallsHold`, `TasksHold`).

`RetryProofs`, about the same specification and from the same assumption:

* `LineageInvariant`: commands, reports and retries of a goroutine carry the job,
  group and attempt it was started with and name no node but its own, whatever
  fails.
* `ChainInvariant`, `RetriesBounded`: `MaxBreaks = 0 /\ MaxStepDowns = 0 /\
  RunsSpec => []CommandsBounded`, for any crashes. Goroutine, command and report
  of an attempt are never at work at the same time (`Watched`); so of the
  attempts of a group on a node only the newest can start another one (`Front`,
  `Chains`), attempts have different numbers, and FetchJob lets none exceed the
  job's limit (`Limited`). The commands of a group on a node then map one to one
  into 1..retries + 1.
* `AcknowledgedStays`: `Calm /\ RunsSpec => []AckedResultStored`, for any broken
  streams and crashes of nodes. `Calm` says that the leader stays, that no stored
  job is ephemeral, and that MaxExecutions exceeds the number of commands;
  without any one of these the property is false (section 3). Every stored
  execution has the key of a command that was started, or was never started
  (`AllTraced`), so the limit is not reached and nothing is trimmed; a report
  past its apply finds its result or a later version in the store (`Secured`). A
  version under the key of a command that is a success is the command's own
  result, wherever it is: in the store, a goroutine or a report (`Genuine`), so a
  later version is a failure that was made up.

Only model-checked:

* all liveness, which with ENABLED and fairness is out of the prover's reach;
* `NoOrphanExecutions`, for what one firing sets off on one node: with more it is
  false (section 3);
* the properties of `Views`: it uses the recursive walks of `Diagram` and sorted
  and filtered sequences, and what a recursive definition computes for every
  input is out of reach.

## 5. Not modelled

Snapshots and restore of the store; cleanup of stale executions and
reconcileRunningExecutionOrphans; maybeBootstrap, bootstrap mode and the server
lookup; selection of nodes by tags; schedule parsing; the restore and leave
handlers; handlers that only print what is stored; plugins and the commands
themselves; logging, metrics, tracing. Of the console: theme, layout, columns,
clock, settings, the drawing of the chart, the unused JobChart, what the lists
of nodes and running executions print, the bulk deletion of several rows. Of
the repository: generated code, the bundles under `ui-dist`, the website. Raft
is taken as one log with at most one leader that accepts entries; react-admin
as refetching after a refresh and dropping what a later fetch replaces.

## 6. Plan

1. `Runs`: cleanup of stale executions (in `isRunnable` and on election), with
   the clock against a threshold, and RunJob, which bypasses `isRunnable`.
2. `Replication`: several FSMs, a log, snapshots persisted late, Restore over a
   store.
3. `maybeBootstrap` with several servers that count at the same time.
4. Algorithms against reference definitions: `selectNodes` and tags,
   `generateJobTree` with the restore handler, `AfterSchedule`, the two
   backoffs.
5. Theorems: `NoOrphanExecutions` for several firings of jobs that forbid
   concurrent runs, if it holds; `ForbidHolds` with retries, once the retry
   clears FinishedAt.
