# TLA+ models and proofs for the local system engineer ("Goethe")

This directory specifies the control plane of the repository in TLA+: the durable
state behind its overnight "dreaming" (TRAUM), the human gate in front of the
knowledge base, the controller that runs dream passes for the operator, the plan ledger
and its child runs, the A2A task executor, the offline evaluation registry, and the files
that the deep-search dashboard shares with its workers.  TLC checks the modules on small
instances and TLAPS proves the central theorems for every value of the constants.  Paths below are relative to the repository.

## 1. Inventory

| Part | State it keeps | Operations | Hard behaviour |
|---|---|---|---|
| Canonical TRAUM store, `tools/traum_state.py` | SQLite tables runs, attempts, proposals, session_consumption | create, start, finish, cancel, finalize, archive, record, transition, claim, expire, recover | used at once by gateways, the scheduler, dream runners and command lines; callers die; leases expire while workers report |
| Proposal decisions, `tools/dream_apply.py` | none of its own: reads rows, holds them in variables, writes them back later | preview, decide, sweep, interactive main | several transactions and external writes per decision, by several processes |
| TRAUM controller, `tools/traum_controller.py` | worker threads, child processes, cancel events, attempts owned | start, retry, cancel, recover, the worker loop, failure handling | several gateways on one store, threads, subprocesses, deadlines, process death |
| Dream runner and cycle, `tools/dream_runner.py`, `tools/run-dream-cycle.sh` | a lock file; one attempt in the store | the passes, publication, auto-projection of graph proposals | stale-lock reclaim, killed passes, several passes in one run |
| Dream digest, `tools/dream_digest.py` | markdown files | render | none beyond its attempt, which the controller owns |
| Planner, `tools/goethe_planner.py` | SQLite tables task_blocks and child_runs, one thread per slow plan | plan with detach-on-slow, checkpoints, step_done, resume, delegate_child, promotion, sweep and requeue at startup | reads and writes of a block in separate transactions; hand-off between a thread and its caller; check-then-insert budgets; restart |
| A2A gateway and orchestrator, `tools/goethe_a2a.py`, `goethe_orchestrator/` | tasks in flight, envelopes, a thread pool, the audit gate's record | submit, attempt, cancel, report, dispatch, collect, heartbeat | coroutines, one thread per task and pool threads; deadlines; handlers that hang; a cancel that meets a result |
| Evaluation registry, `tools/traum_eval_registry.py` | state.json, artifacts and manifests, a summary | capture, open window, trial, analyze, reconcile | unlocked read-modify-write of files by several processes; calls killed between two files |
| Deep search, `tools/goethe_ui.py`, `tools/deep_search_worker.py`, `tools/deep_search_core.py` | topics.json, dossiers, runs/*/state.json | create, delete, spawn; the worker's passes, signals | requests and detached workers edit the same files without a lock |
| Web tools and load balancer, permissions, episode index, node control, net discovery | small files and tables | search with cooldown, grant, index, snapshot merge | mostly sequential |
| MCP gateway, UI pages, text helpers, network tool wrappers, exporters, scripts | none that matters to other parts | | pure input and output |

How they interact.  The gateway process hosts the controller, the planner, the A2A
service, the dashboard and the tool servers.  The controller starts dream runners as
subprocesses and talks to them through the store only: both report the outcome of the
same attempt.  A runner stages proposals under its attempt; finishing the attempt
publishes them; the operator decides them in the dashboard (through the controller) or
at the command line (`dream_apply`), which claims rows in the store, writes to the
Elasticsearch knowledge base and records the outcome.  The operator starts whole cycles
by hand, through the same store (the nightly timer has been retired).  A plan's steps
delegate children, and every process that constructs `Tools()` sweeps the plan ledger
and requeues children as it starts.  An A2A task runs its attempts in the
orchestrator's pool; a ledger handler calls the planner.  The dashboard spawns
deep-search workers that outlive the gateway and edit the topic files themselves.  The
registry is called by command lines and workers, and reads exports of the store.

What makes each part correct:

- store: one controller operation at a time; verdicts, consumption and decisions
  are final; nothing unfinished is published; the same content is not proposed
  twice; pairs are decided as one; abandoned work is fenced, and only expired work;
- gate: a claim is always resolved; its rows are not decided away; APPLIED means
  written; a failed write is not replayed; a sweep yields to humans;
- controller: a run always ends, whatever fails; the loser of a race leaves the
  winner alone; an active run has somebody working on it;
- cycle: it ends with its run over, a success is whole, fenced work stays silent, an
  abandoned lock stops nobody, and one runner works at a time;
- planner: one finalizer per plan; acknowledged strikes stay; a closed plan is done;
  interrupted steps are announced; budgets and writer locks are exceeded by no more
  than the threads that checked together;
- A2A: a task is answered; a canceled one stays silent and is overtaken by one attempt
  at most; attempts of one task do not run side by side;
- registry: nothing acknowledged is lost, nothing frozen changes, only an elapsed
  window with two different corpora is analyzed;
- deep search: one search per topic, index and dossiers in step, an end that is reported.

`PROJECT.json` lists every part with its status, and every hazard with its line
and the properties that cover it, or the reason why none does yet.

## 2. Modules

**TraumState** is the store.  Each public method runs in one `BEGIN IMMEDIATE`
transaction and is one action.  A call that raises rolls back, and a repeated call
changes nothing: both are stuttering steps.  `runs`, `attempts`, `proposals` and
`consumed` are the tables, keyed as their UNIQUE constraints key them (an attempt
by run, pass and attempt number; a proposal by attempt and fingerprint); `now` is
the clock the leases are compared with.  Admission of controller runs and the
recovery that is part of it are in `Admission` and `RecoverOrphaned`; the state of
a run is recomputed by `AggregateState` as in `_aggregate_run`.  A session or
proposal is an opaque value; what the code distinguishes about a draft (malformed,
repeat, rule, pair, graph) is kept as state and reason.  Left out:
`acknowledge_attempt` (a flag nothing reads), `recover_stale_applying` (no caller;
section 3), the import of legacy days and the operation log.

`finalize_run` looks at no attempt: `FinalizeRunFailed` fails any run, also around an
attempt another gateway has just retried, and `OnlyFailureOutlived` says that nothing else
leaves a live attempt in a run that is over.

**ProposalGate** is `dream_apply.decide_proposal` with its callers.  A worker (a
gateway, whose decisions are serialised by `_decision_lock`; a `dream_apply`
process; a dream runner that auto-projects) has a step and the local variables the
function keeps between its store calls: the group, the revisions read, the writes
still to do.  `rows` keeps the history of each proposal's states, so that the
revision is its length and operators may decide on a display of any age.  The
knowledge base is reduced to which documents still reproduce the drafts' tokens
and how often each proposal was written.  A process ends at any point; a store
transaction that raises leaves the same rows as a crash before it, so `Crash` stands for
both.  The abstract specification it is checked
against is the store itself: `ImplementsStore` instantiates TraumState with the
rows as the proposals of one completed attempt and requires every step of the gate
to be, row by row, a step of the store.

**TraumController** composes the store with gateways: it EXTENDS TraumState, and
its actions are the worker's steps between store calls, each store call being the
action of TraumState.  `worker[g].step` names the place in `_execute_run`:

    idle -> loop -> start -> child -> record -> finish -> next -> loop ... -> final -> pop
                       \_ refused -> fail -> missing -> unstarted* -> finalize -> final

`runners` holds the attempts a live child works on: children outlive their
gateway and report themselves (`RunnerFinish`).  `Cancel`, `Retry`, `Recover`,
`Crash`, `Error` (an exception in any step) and the clock interleave with every
step.  `todo` and `skip` are the list of passes that `_finish_unstarted` goes through and
the passes it has found, or has just made; `ChildVerdict` is the set of outcomes of
runners that an instance considers.  Left out: a thread that fails to start, and a second store failure inside
the failure handler.

**DreamCycle** also EXTENDS TraumState: the script of a manual cycle, the runner it
starts for each pass, and the lock file.  `script[c].step` follows
`run-dream-cycle.sh` down to its finalizers, with the signal handler that bash runs
once the runner in the foreground is through; `runner[c].step` follows `main` of
`dream_runner.py`:

    none -> boot -> enlist -> guard -> lock -> write -> check -> work -> staged -> release -> unlink
                                        \_ look -> reclaim -> lock   \_ fail __/
                                             \_ held

`timeout(1)` may end a runner anywhere once its share is used up and lets none live
longer; the script then goes on to the next pass.  The commands with which the script
finalizes (`FinalizeScript`, and `FinalizeSignal` in the trap) and expires may fail, upon
which it goes on, as `finalizer failed` and `|| true` have it; `finalized` remembers whether
one went through.  Creating the lock file and
writing its pid, judging it stale and removing it, reading it and removing it on
release are separate steps.  The unit of time is the margin of five seconds below
which the script starts nothing.  Left out: the age limit of the lock, the wake-up of the
dreamer's node, and the digest's content.

**PlanLedger** is `planner()` with its worker thread, the `task_blocks` table, and the
calls of the agent (`task_resume`, `plan_step_done`, `task_checkpoint`).  Each method
reads a block in one transaction and replaces it in another; they are two actions
(`StrikeRead`, `StrikeWrite` and so on), with the local copy between them.
`plan[c].at` follows the worker thread of `planner` and its landing; the gate that caller
and worker take is `plan[c].detached`.  `mark_interrupted_on_startup` (`Sweep`) runs as
the gateway (`Boot`) or any helper process (`HelperStarts`) starts, and may fail before any
of its writes (`SweepFail`), which blocks no startup; what it `missed` is remembered.  The agent follows the protocol of
the docstrings.  Left out: the `backend` column, rendering, and an exception of
`_planner_finalize` outside the write it guards, which ends a detached worker in a living
process and leaves the in-progress row for ever.  `torn` records blocks that an outdated copy
has overwritten.

**ChildRuns** is the `child_runs` table: `delegate_child` reads the budget, then the
writer lock, then inserts, each through a connection of its own; promotion
(`_promote_queued_children`, which only the tests call), execution, death and the
requeue at startup.  The requeue looks for rows without a result and never matches
those of `delegate_child`, which keep the prompt there; `Requeued` has that guard.

**A2AExecutor** composes `GoetheResearcherExecutor` with the local backend of the
orchestrator.  `run[t]` is the thread of a task with the times left to its deadline and
to its wait, `work` the envelopes, `queue` the pool's queue.  `Submit`, `Cancel` and
`Finish` are coroutines of one event loop, hence single actions; threads, handlers, the
clock (`Tick`) and the heartbeat interleave with them.  A handler may hang for ever.
Left out: the journal and the envelope's ttl, which nothing reads back, the push
webhook, authentication, the Ray backend and scoring among several workers.

**EvalRegistry** is one evaluation: for each slot (a capture or a trial) the input in
the sandbox, the frozen copy and the manifest, and `state.json`, which every call loads
and writes back.  One payload stands for the several files of a slot.  The steps of a
call are `Begin`, `Check` (with `Look`), `Copy` and `Describe`, or `Analyze` and `Summarize`,
then `Refresh` and `Save`, and `Kill` may end it between any two.  Nothing keeps two calls
off one slot: `raced` remembers the slots for which two were between their check and their
write at once, the only ones for which the properties promise nothing; a load raises on a
manifest that does not describe its file (`Loads`).  Left out: evidence events, the
statistics, the validation of plans.

**DeepSearchRuns** has the files of the dashboard: `dossiers` and `passes` (the
topics/*.json), `listed` (topics.json), `status` (runs/*/state.json).  A request (create,
delete, spawn) reads a file in one step and replaces it in a later one, and so does a
worker (touch, merge).  `Signal` is the handler of SIGTERM, which takes the lock that
the main thread may hold; `Kill` and `GatewayCrash` end a process anywhere, and `EditFails` and
`UpdateFails` are a file that cannot be read or replaced, whatever was written before it.  Two
history variables make the properties exact: `lapses` counts the requests that could not
see a pass already granted, `disturbed` says that two edits met or one was cut short.
The search engine is reduced to its verdict.

The proofs are in modules of their own: **TraumState_proofs** (the store),
**TraumClients_proofs** (its clients DreamCycle and TraumController, on top of the store's
theorems), **ProposalGate_proofs**, **PlanLedger_proofs**, **ChildRuns_proofs**,
**EvalRegistry_proofs**, **A2AExecutor_proofs** and **DeepSearchRuns_proofs**.  The MC
modules (**MCTraumState**, **MCProposalGate**, **MCTraumController**, **MCDreamCycle**,
**MCPlanLedger**, **MCChildRuns**, **MCEvalRegistry**, **MCA2AExecutor**,
**MCDeepSearchRuns**) hold values, symmetries and constraints for TLC.
Definitions that begin with a comment "Mutant:" are plausible errors used to see that
each property can fail; no specification uses them.

## 3. Model checking

Runs that pass:

| Run | Instance | Distinct states | Shows |
|---|---|---|---|
| traum_store | 1 gui or cli run, 1 pass, 2 attempts, a pair and a graph proposal, 1 session, leases 1 and none, clock 0..2 | 263 909 | no live attempt in a run that is over, unless finalize_run failed it; publication, single live row, pairs, final decisions and verdicts, recovery that respects leases |
| gate_gateways | 2 gateways, a `dream_apply` process and a runner, a pair and a graph proposal, crashes | 290 167 | what an approval promises |
| gate_concurrent | a gateway and a `dream_apply` process, a pair, crashes | 43 840 | the gate implements the store; claims are resolved |
| controller_gateways | 2 gateways that may be suspended, 2 single-pass runs, one retry | 518 878 | exclusive admission and sparing the winner at every interleaving of store calls |
| controller_crash | 1 gateway, 2 passes and the digest, one retry, failures and crashes | 355 196 | every run ends |
| dream_cycle | 1 script, 2 passes, a draft and a session, signals, kills, cancellations, a budget of 2; or 2 scripts in their first passes | 547 082 | a finalized cycle is over, a SUCCEEDED one whole, fenced work silent; an old lock stops nobody; an abandoned cycle is settled |
| plan_ledger | 2 planner calls on one block, 2 steps, 2 mishaps | 988 862 | one lander per plan, strikes that stay, closed means done, interruptions announced |
| child_runs | 2 threads, 1 parent, 2 scopes, caps 2 and 3, 5 rows, 1 crash | 3 217 583 | caps and locks exceeded by one per further thread at most |
| eval_registry | 2 processes, 1 seed, 2 contents for B's corpus, 1 for the rest, clock 0..1, 1 crash | 2 168 680 | acknowledged work stays, frozen files are final, the window elapses, the analysis is of what is frozen, each but for a slot whose calls raced |
| a2a_tasks | 1 task, 3 attempts, ttl 1 or 3, deadline 3, pool of 2, 2 cancels, 1 late heartbeat | 205 149 | silence after a cancel, one late attempt, sole attempts, the audit gate; tasks are answered |
| deep_search | 2 threads, 1 topic, 2 passes, cap 2, 1 mishap | 4 075 398 | one search per topic, files in step, ends reported; no deadlock |

Bounds and why they are enough.  Admission and races are between two: two runs, two
gateways, two threads, two processes exhibit every conflict, a third only repeats one
(and the theorems of section 4 hold for any number).  Two attempts per pass distinguish
"latest" from "earlier"; two passes distinguish complete, degraded and failed runs, and
"never started"; three attempts of an A2A task distinguish the first, one behind a hung
one and one behind two, when the pool is full.  A lease of one time unit, with a clock
that passes lease and grace, puts each store call before, at and after its deadline.
Two planner calls on one block are a plan and its revision; two steps distinguish a
plan half done.  Two contents of a corpus are "the same" and "another one".
`Horizon`, `LastStart` and `LastCycle` stop new work early so that the clock can run past every
deadline (which the liveness properties need); `MaxTime` stops the clock;
`MaxRevision`, `MaxRetries`, `MaxCancels`, `MaxLapses`, `MaxMishaps`, `MaxCrashes`,
`MaxChild` and the ids of `Run` (`IdLeft`) bound what would repeat.

Constraints name what they leave out: `OneKind` takes the pair or the single proposal,
and sessions and proposals only in leased cli runs, so that the contention of two gui
runs is left to controller_gateways and to the theorem `OneRunAtATime`;
`OneGroup` keeps independent groups of the gate from moving at the same time, and
`OneRests` keeps one of the two gateways and `dream_apply` at rest, since a conflict is of two;
`SinglePassRuns` leaves runs of several passes to controller_crash; `AloneOrPlain` takes
one cycle through everything and lets two overlap in their first passes only;
`OneBlock` has both planner calls on one block, and one mishap once a revision began;
`OneRace` has calls race for one slot of the registry only, and the theorems have them race for all.
Threads, gateways, runs and processes are symmetric where a run declares it, and no
run with a liveness property does.  Deadlock is checked in deep_search; elsewhere a
state at rest with an exhausted clock or an exhausted bound is a legal end.

Fairness.  Of ProposalGate: a thread inside `decide_proposal` runs on.  Of
TraumController: worker threads run on, the watchdog timer ends every child, the clock
advances, and some gateway is polled (every list and status request recovers).  Of
DreamCycle: `timeout(1)` ends a runner over its budget, the clock advances and a gateway
is polled, while scripts and runners may stop anywhere.  Of A2AExecutor: a task's thread
and the event loop run on and time passes; nothing is assumed of handlers, of the pool
or of the heartbeat.  None assumes that operators act, that a store call succeeds or
that a gateway survives.  `Timely` (controller_crash) says that a live worker is through
within the grace after its deadline, which the watchdog is for; controller_gateways does
without it.

### Where the code disagrees with its documents

gate_replay is a run that TLC finds violated: a second approval that had read the rows
before the first one finished writes an APPLIED proposal to the knowledge base again
(dream_apply.py:1249 calls repeated calls idempotent).

Further disagreements were seen in counterexamples or while modelling, and have no run.

Store, gate and cycle:

- a budget that runs out at the head of the loop leaves the digest of a standard run
  without an attempt, hence the run RUNNING without a worker (traum_controller.py:937,
  against TRAUM-OPERATOR-MANUAL.md:49);
- a failing worker marks its run FAILED after another gateway has started a retry in it,
  so a live attempt works in a run that is over (traum_controller.py:1270);
  `OnlyFailureOutlived` names it;
- the finalizer of a cycle may fail, and so may the trap's; the run of a script that has
  ended is then active until recovery;
- the first runner of a cycle gives the run a deadline of its own share, and the leases
  of later passes are cut to that (traum_state.py:608), though run-dream-cycle.sh:86
  shares the budget out so that no pass starves another;
- a repeat once superseded supersedes all later drafts of the same content, also after
  the original expired undecided (traum_state.py:855; dream_apply.py:1421 says that a
  re-dream will re-propose it);
- a proposal whose claimer died stays APPLYING, since nothing calls
  `recover_stale_applying` (TRAUM-OPERATOR-MANUAL.md:105 says it becomes APPLY_FAILED);
- two runners can be past the dream lock together, because a lock file is created empty,
  an empty one counts as stale, and it is removed whoever has created it meanwhile
  (dream_runner.py:4650 says that whoever comes second is turned away);
- a pass killed at its budget leaves its attempt live, so that every later pass of its
  cycle is refused until recovery (run-dream-cycle.sh:146 says "continuing");
- `finalize_cycle` leaves STAGED proposals under a BLOCKED attempt
  (TRAUM-OPERATOR-MANUAL.md:97 has them SYSTEM_REJECTED);
- a retried digest asks for no lease and inherits a deadline that has passed
  (traum_state.py:610 calls a retry a new bounded operation);
- `dream_apply` may resolve, without revisions, rows that a gateway is writing; the target
  token is compared in the preview and not again before the write (traum_state.py:283
  asks for it at apply time); a cancellation that arrives after the worker's last look at
  its flag is recorded and not honoured.

Planner:

- the in-progress row is written after the gate is released, so the worker's row may be
  overwritten by it and stay "PLANNING IN PROGRESS" (goethe_planner.py:2773: "the row can
  never be stranded"); a worker that dies leaves it as well;
- `plan_step_done` does not remove both stamps, as docs/05 says; a sweep by any process
  marks the steps of a live gateway interrupted, and a sweep that fails marks none while
  the gateway serves, so that a resume does not say the step was interrupted; `INSERT OR REPLACE` drops the stored
  backend that a comment says is reused;
- a child whose process died is not released, nor requeued (its row keeps its prompt);
  "promoted automatically when it frees" has no caller; two promoters start one child,
  and a stale promotion runs a finished child again with its output as prompt; a refused
  child counts toward the total cap; a crash between insertion and cancellation leaves a
  queued required row; `depends_on` is never written, so the required gate never blocks.

A2A:

- errors of handlers lose their class (`_classify` is unused, and `except
  PolicyViolationError` cannot fire with the local backend), while
  tests/test_a2a_adapter.py:239 expects `failed[policy]`;
- an attempt given up records at the audit gate after the task's cleanup ("terminal tasks
  leave no gate state"); an attempt can begin after an accepted cancel; a cancel after the
  end still sends CANCELED after COMPLETED; with a ttl below the deadline attempts of a
  ledger handler run side by side; a planner call whose reply is lost is made again and
  creates a second block; nothing enforces the envelope's ttl.

Evaluation registry:

- a call killed between copy and manifest, followed by a new export of the input, ends in
  `immutable_conflict` for ever (traum-ab-design-v2.md section 3: an interruption does not
  require a new evaluation);
- the opening of the window is in state.json only, so a stale writer erases it
  ("atomically before advancing state.json");
- two calls for one slot that both pass the check replace each other's copy and manifest;
  they can leave a manifest that does not describe the file, after which no load of the
  evaluation succeeds, or a state.json with another summary than the one on disk ("Repeated
  calls with the same bytes are idempotent").

Deep search:

- the gateway writes state.json too (DASHBOARD_SPEC section 2: workers only) and may
  overwrite an end with RUNNING, for ever; a dead worker's RUNNING counts against the cap
  for ever ("a broken state file must not wedge the cap"); overlapping requests exceed the
  cap and "one active run per topic"; SIGTERM after DONE rewrites FAILED; the signal
  handler takes a lock that is not reentrant in the thread that may hold it, so that the
  process can hang;
- "single writer": edits of topics.json and dossiers by requests and workers lose each
  other; concurrent creates of one title list it twice; a failed pass leaves its topic
  "researching", which a docstring reserves for active runs; errors that escape the engine
  skip `_ledger_finish`.

## 4. Proofs

All theorems hold for every value of the constants, from the named assumptions of the
modules only, and each inductive invariant was checked by TLC first, on the instance of
the component's run.

TraumState (`Spec`; any number of runs, passes, attempts, fingerprints, sessions, leases):

- `TypeCorrect`: `TypeOK`, one lemma per action that builds rows.
- `LiveAttempts`, from `LiveInv`, which adds to the property that only existing runs have
  attempts.  A run that finalize_run has failed around a live attempt stays FAILED or is
  aggregated again when that attempt ends, which is why the property bounds the attempts and
  not the runs; that admission stays exclusive is a matter of the controller, which `OneRunAtATime` below proves.
- `FinalVerdicts`, `FinalDecisions`: action properties, from the type invariant
  and what each action may touch.
- `SoundPublication`, `SoundConsumption`, `NoDoubleProposal`, `CompleteSuccess`:
  each with the strengthening its proof states.  `SoundConsumption` and
  `CompleteSuccess` are proved only; no run repeats them.
- `PairsStayTogether` from `PairsAgree`: the members of a pair are in one state and as old
  as each other.  Without the age the expiry, which goes by it, could split them; they are
  recorded in one call, and every decision, sweep, verdict and recovery moves the pair or
  the whole attempt.
- `RecoveryWaits`, from `LeaseInv`: the lease of a live attempt lies within the deadline of
  its run, so that the earliest deadline recovery looks at is that lease (a run with a live
  attempt has no other live one), and one that was fenced is over.

DreamCycle and TraumController are clients of the store.  `CycleUsesStore` and
`ControllerUsesStore` say that each of their steps is one operation of the store with
arguments the store knows, or leaves the store alone, so that every theorem about
`Spec` holds beneath them.  What the clients ask for must be among what the store's
constants list; `ClientAssumption` and `StoreAssumption` say so, for sources, leases and
verdicts.

DreamCycle, for any number of scripts, passes, fingerprints and sessions:

- `CycleTypeCorrect`, with `RunnerFollowsScript`: a runner past its start has an attempt,
  of its script's run, and is there exactly while the script waits.
- `LateWorkersAreSilent` from `SilentInv`: a fenced attempt is over, and one that is over
  gets no new undecided proposal, because staging and finishing ask the store whether the
  attempt is live in their own transaction.
- `FinishedCyclesAreOver` and `SuccessIsWhole` from `OverInv`: once a finalizing command
  went through nothing revives the run, since only a runner of this script starts attempts in it and
  the runner is through; and a run that finalizes SUCCEEDED was planned with all passes of
  the cycle.
- `NoLockOutAlone` from `AloneInv`, which follows the lock file through creation, writing,
  judgement and removal while no other runner is at work: the pid in the file is of
  somebody who came before, or the runner's own.

TraumController, for any number of gateways, runs and passes, whether gateways are timely
or not, crash or not.  The proof has one lemma per action, which says what the action
makes of the worker's row and which operation of the store it is, and the two parts of
`ControllerInv` rely on each other:

- of the workers (`HandInv`, `OwnWork`): a row is consistent with its step (`Consistent`)
  and with the store (`Grounded`: its run exists, its attempt is of its run), no two
  workers have one attempt, and a worker that fills up a failed run has found or made an
  attempt for every pass it has passed over (`Filling`);
- of the store (`StoreInv`): runs are the operator's, with the one or the six passes that
  `start_run` asks for; a run has one live attempt at most (`Sole`); and a run that is over
  around a live attempt has an attempt for every pass it was asked for (`Leftover`).

`OneControllerRunActive` alone is not inductive, because `finalize_run` does not look at
attempts: the end of a live attempt left behind has the run's state computed again, and
would make it active beside another one if a pass were missing.  `Leftover` excludes that,
and holds because the failing worker has filled up the run before it finalizes it, which
is what `Filling` carries from step to step.  `ControllerTypeCorrect`, `OneRunAtATime` and
`LosersSpareWinners` (with `OwnWork` and `Sole`: what another worker ends is its own
attempt, in another run) follow.

ProposalGate:

- `AppliedAlwaysWritten` for all workers, from `WrittenInv`: what an approval has taken off
  its list is written.
- `GateImplementsStore` for all workers: each action that moves rows moves one canonical
  group to one state, and finds there what the operation of TraumState asks for.  Needed of
  the invariants is only that a worker at work has one canonical group.
- `ApprovalAlwaysKeepsRows`, `FailureNeverReplayed` and `SweepAlwaysYields` for all workers.
  The invariant rejection of `dream_apply` passes no revisions, so it may take the rows of an
  approval away (`Taken`); the first property excepts it by name, and the other two hold in
  spite of it.  `GateInv` has six parts beside the types.  `SeenInv`: a decision of anybody
  else starts from a revision of the row that waited for one, and rows only grow, so that it
  still did.  `UniformInv`: members of a pair are in one state, or one of them expired.
  From the two, a decision that passes the comparison of revisions finds all its rows waiting,
  also when it compares only the row it displayed.  `ClaimInv`: an approval has its rows
  APPLYING alone, or they were taken from it, or all of them are APPLIED.  `FreshInv`: what an
  approval writes has not failed before.  `OrphanInv` and `FailedInv`: what a dead claimer
  left and what failed is claimed by nobody.

PlanLedger, for any number of calls, steps and mishaps.  Each action has a lemma that says
field by field what it does (`WakeEffect`, `StrikeWriteEffect`, ...); `TypeInv` adds to the
types who must have a block in hand.

- `LandedByOne` from `HandInv`: a live plan is not detached exactly while the agent waits in its
  call or lands it.
- `StrikesStay` from `StruckInv`.  Every writer keeps the steps that are done or tears the
  block: a landing because all done steps lie below the first new one (`NewStepsKeep`), a
  strike because the step it has read was not done yet.
- `LostIsAnnounced` from `LostInv`: what was given out bears a stamp, hence is found by the
  sweep of the next gateway, unless that failed on the way to it (`Missed`); and what
  `task_resume` is about to stamp is not among the lost.
- `TornForAReason` from `CalmInv`, which holds while there is no mishap: only blocks that were
  planned are touched (`BegunInv`), and every copy of a block whose plans were never detached
  is up to date, because the agent that waits in the call is the only other writer
  (`FreshInv`).
- `CompleteWhenDone` from `OrderInv`: in a block that no outdated copy was written over, the
  steps are lined up, those before the first open one are done, and only that one is struck,
  since the agent strikes the step it was given; hence the strike that closes the block is
  the last one.  A planner that comes late and writes its steps over a complete block tears
  it.  This rests on the agent's protocol: `plan_step_done` itself takes any open step, and
  closes a block once nothing in it is pending.

ChildRuns: `CapsHold` counts, for each parent, its rows together with the threads that have
passed the budget and not inserted yet; `TotalInv` and `ActiveInv` bound the sum by the cap and
the overshoot, which makes a check that passes leave room for the thread that made it.
`HolderInv` says that every holder of a scope is the row of a thread at work, or that no thread
works in the scope and the holders a crash has left keep all others out.  The ownership of rows
(`OwnInv`, `SoleInv`) is what keeps a thread from reviving a row another one ended.

EvalRegistry, for any number of processes and any overlap of their calls: `EvalInv` is the
type invariant, `OneWriter` (two calls between check and write of one slot make it raced),
`DiskInv` (a manifest of a slot that has not raced describes its file; a summary is of two
different corpora, and of what is frozen) and `CallsInv` (what a call carries agrees with the
disk, whatever the age of its copy of state.json).  The type alone is not inductive: that only
calls for slots copy and describe belongs to it.  From it follow `ManifestsAlwaysHold`,
`WindowAlwaysElapsed`, `AnalysisAlwaysSound`, `AcknowledgedAlwaysStays` and `FrozenAlwaysFinal`.

A2AExecutor: four inductive invariants, one per promise.  `ReportInv` relates what was sent
to the flags of the task (`AlwaysSilent`); `OvertakeInv` says that an attempt begun after a
cancel is the one its thread was about to make (`AlwaysOneLate`); `AuditInv` follows the
gate's record (`AlwaysAudited`); `SoloInv` orders the attempts in pool and queue and compares
the deadline left with the wait left (`AlwaysSole`, for ttls that reach the deadline).

DeepSearchRuns:

- `AlwaysReported` from `Reported`: every stage after the final report has a terminal status,
  or its run was deleted or overwritten by the gateway's late first status.
- `AlwaysInStep` from `EditInv`: while no edit met another or was cut short there is one
  editor, what its stage has read is still so, and index and dossier of a topic differ only
  while a request is between the two writes.
- `SearchesBounded` from `ClaimInv`: the passes of a topic that search or have been granted
  (`Claims`) number one more than the lapses at most.  It needs that a searching worker has a
  status by which it is seen, hence that a deletion never removes a searching pass, hence that
  only merged passes are listed, in dossiers and in every copy of one.

Only model-checked: liveness (`ClaimResolved`, `RunEnds`, `CycleIsSettled`,
`TaskIsAnswered`), which TLAPS does not reach here.  Every safety property of a run that
passes is also a theorem.

## 5. Not modelled, and the plan

Not modelled because there is no state or concurrency to check: text helpers,
rendering, prompts and model calls, wrappers of external services, exporters, the Shodan
pages, configuration builders.  Most of the repository's lines are of this kind (prompts,
tool wrappers, self-tests, text parsing), which is why the map covers only the part that
decides about shared state.

Plan, in order of what can go wrong:

1. The engine of deep search: its budget of search actions, the gap loop, the clamped model
   deadline, and which errors escape `run`; one sequential call, hence after the files
   around it.
2. Load balancer cooldown, permissions, the episode index.
3. The runs without a deadline that `goethe_graph` creates, which nothing fences.
4. What a lock of the registry's slots would have to promise, once the code has one: the
   properties without their exception for `raced`.
5. Proofs: that the runs of DreamCycle and TraumController stay one at a time on a store
   they share.
