# TLA+ models of roboclaw-rs

This directory is a verification development for roboclaw-rs, a Rust program that turns an
instruction into robot skills and runs them, once or as durable jobs, behind a local gateway.
The modules model the parts that decide *whether and how often a robot moves* and *what the
files say afterwards*: the durable job store, the run journal, the notification dispatcher, the
mission loop, recovery comparisons with their trials on the simulated robot, the gateway that runs
them side by side, and what a session's memory tells its planners.  They also model the experiment
program and the decisions of twelve of its suites.  TLC checks each on a small instance; TLAPS proves
the central results for every instance.

Paths below are relative to the repository root (`src/jobs.rs` is the job store).

## 1. The system

| Part | Code | State it keeps | Operations | Hard because |
| --- | --- | --- | --- | --- |
| Durable jobs | `src/jobs.rs`, `roboclaw jobs`, worker of `src/server.rs` | `jobs/ID.json`, `.jobs.lock`, `.runner.lock` | add, cancel, recover, claim, execute, commit | crash between claim and commit, cancellation at any moment, wall clock |
| Schedules | `src/schedule.rs` | none | next slot after a time | clock set back, no next slot |
| Run journal | `src/runtime.rs`, `src/storage.rs` | `runs/ID/run.json`, `events.jsonl`, `sessions/S/session.json`, two locks per execution | run, note, recovery of abandoned records | several writes per run, shared memory directories, death between writes |
| Memory | `crates/memory` | `short_term.json`, `long_term.md` | remember event or log, load, search | whole-file replacement from a copy in memory; a text file parsed line by line |
| Planners | `crates/agent/src/lib.rs`, `Workspace::planner` | none | build a prompt, narrow the choice of skills, resolve the answer | context and recalled memory are part of the text they interpret |
| Webhooks | `src/webhooks.rs` | `webhooks/ID.json`, `.webhooks.lock` | dispatch, retry, list | lost answers, dying senders, two senders, budgets |
| Mission gateway | `crates/gateway` | replans, reports, planning instruction, checkpoint | plan, run, replan, hand back, stop | alternating failures and recoveries, stop at any moment |
| Agent | `crates/agent/src/lib.rs` | step, attempts, status | preflight, step, retry, report | late answers after a stop, partial skills |
| Planner chain | `crates/agent/src/fallback.rs` | the candidate | try each in order | stop between candidates |
| Execution control | `crates/tools/src/control.rs` | cancelled flag, deadline | cancel, stop_reason, wait | shared by threads |
| Tools and policy | `crates/tools/src/lib.rs` | policy, injected failures | validate, execute | must be checked before every operation |
| Skill catalog | `crates/skills` | skills, steps, checkpoints | load, validate, rank recovery skills | data the loops rely on |
| Gateway server | `src/server.rs` | shutdown control, threads | worker, notifier, four handlers | joint shutdown, one worker for two queues |
| Challenges | `src/challenges.rs` | `challenges/ID/challenge.json` | create, cancel, claim, run trials, recover | a claim that races a cancellation |
| Simulator, ROS 2 bridge | `crates/sim`, `crates/ros2` | gripper and pose; messages | move, grasp, place; publish | retried commands |
| Experiment program | `examples/planner_experiments.rs` | three documents under `docs/` | run 22 suites, summarise, write | documents written one after the other from files that change |
| Experiment suites | `experiments/*` | `cases.json`, the variants' sources | decide every case with every variant, score, rank | ties decided by order or name, weights and thresholds |
| Config, doctor, CLI, dashboard | remaining files | - | parsing, presentation | out of scope, see section 7 |

How they meet: a client submits a job; a *runner* (the gateway's worker thread or `jobs run`)
claims it and calls `run_with_id`, which takes the session's and the memory directory's lock,
journals the run, and calls the *mission gateway*, which plans, lets the *agent* execute a skill
through the *tools*, and replans on failure.  A monitor thread carries cancellation and shutdown
into the run's *execution control*, which all of these poll.  A run that ended while a webhook was
configured becomes a *delivery*, which a dispatcher in some process sends.

What makes each part correct: a job's effects never begin twice for one slot, and cancellation is
final (jobs); no file loses what it held and no running execution is called interrupted
(journal, memory); every request is counted and every notification settles (webhooks); a mission
ends, skips only what succeeded, and stops promptly (gateway, agent, control); no trial is evaluated
twice and no verdict is rewritten (challenges); a pass is earned and the scenarios separate the
strategies (fault injection, tools, simulator); the gateway ends as a whole, holds its lease until its
last thread is gone, and serves what it accepted (server); notes survive, and what a session
remembers neither misleads a recovery nor narrows an unrelated choice (memory, planners); the
committed documents are what the suites compute (experiments).

## 2. Modules

| Module | Models | Composition |
| --- | --- | --- |
| `AtMostOnce` | what the durable runner promises, abstractly: one begin per granted slot | implemented by `Jobs`, and by `Challenges` for each trial |
| `Jobs` | job store, schedules, runner processes, clients, monitor, signals, clock | instantiates `AtMostOnce` with a refinement mapping (`KeepsPromise`) |
| `Jobs_proofs` | theorems about `Jobs` | extends `Jobs`, `TLAPS` |
| `RunJournal` | `run_internal`, `remember_note`, locks, memory files, trace, journal recovery | - |
| `RunJournal_proofs` | theorems about `RunJournal` | extends `RunJournal`, `FiniteSetTheorems`, `TLAPS` |
| `Notification` | what the dispatchers promise about one run's notification, abstractly | implemented by `Webhooks` |
| `Webhooks` | `dispatch`, `retry`, receiver, time | instantiates `Notification` with a refinement mapping (`KeepsPromise`) |
| `Webhooks_proofs` | theorems about `Webhooks` | extends `Webhooks`, `FiniteSetTheorems`, `TLAPS` |
| `Mission` | gateway loop, fallback chain, agent, control, registry checks | - |
| `Mission_proofs` | theorems about `Mission` | extends `Mission`, `TLAPS` |
| `Challenges` | comparisons: clients, claim, trial loop, monitor, close, recovery | instantiates `AtMostOnce` for each trial (`TrialsKeepPromise`) |
| `Challenges_proofs` | theorems about `Challenges` | extends `Challenges`, `TLAPS` |
| `Trial` | one trial: keyword planner, fault injection, built-in tools, simulated robot, pass rule | extends `Mission`, whose actions it completes, and instantiates it with a refinement mapping (`TrialIsMission`) |
| `Trial_proofs` | theorems about `Trial`, and what it inherits from `Mission` | extends `Trial`, `NaturalsInduction`, `WellFoundedInduction`, `TLAPS`; instantiates `Mission_proofs` |
| `Server` | `serve`: lease, recovery, bind, worker, notifier, handlers, joins, shutdown, death | reduces jobs and comparisons to their place in the worker's queue |
| `Recall` | one session's memory file, search, prompts, choice of skills, over notes and runs | - |
| `Recall_proofs` | theorems about `Recall` and its text operators | extends `Recall`, `FiniteSetTheorems`, `SequenceTheorems`, `TLAPS` |
| `Suite` | the harness every suite repeats: metrics, scores, report, frontier, what documents show | extended by `Evidence` and the suites |
| `Evidence` | what the release-history suites share: evidence, challengers, majorities, settlement | extends `Suite` |
| `RollbackRules`, `PromotionRules`, `CrossSuiteContradiction`, `PromotionProvenance`, `PromotionEnvironmentProvenance`, `ProvenanceBackfill`, `ProvenanceLagBudgets`, `CrossTrainLagCarryover`, `SurfaceLagBudgetCalibration`, `ArtifactMirroringDrift`, `ArtifactTrustDecay`, `CrossRepoProvenanceStitching` | one suite each: its cases, four variants, and scores | extend `Suite` or `Evidence` |
| `Experiments` | the program: suites in order, reports, documents, failures, edits | instantiates the twelve suites |
| `Programs_proofs` | theorems about `Server` and `Experiments` | extends `Server`, `Experiments`, `TLAPS` |
| `MCJobs`, `MCJobsLive`, `MCJournal`, `MCWebhooks`, `MCMission`, `MCChallenges`, `MCTrial`, `MCServer`, `MCRecall`, `MCExperiments` | constants, symmetry and bounds for TLC; `MCJobsLive` turns `Jobs` into a window of time that moves; `MCTrial` also has TLC evaluate what the theorems of `Trial_proofs` assume of a catalog on the shipped one | extend the module they instantiate |

### Jobs

`job[j]` is the file of job `j`; an absent file has status `absent`.  `lease` is the holder of
`.runner.lock`; `pc`, `mode`, `shutdown`, `processed`, `mine`, `control` and `outcome` are the
memory of each runner process and are lost when it ends (`Gone`).  A section under `.jobs.lock`
that writes one file is one step, since nobody else can act on the files within it and one
`atomic_write` either happened or did not.  Recovery writes several files and is therefore several
steps (`RecoverJob`, `RecoveryDone`), and everything else that needs the lock waits (`LockFree`).

* `Enqueue`, `Cancel`: a CLI call or a gateway handler.
* `Launch`, `RecoverJob`, `RecoveryDone`: start of a runner.
* `KeepGoing`, `Claim`, `IdleServe`, `IdleBatch`, `Stop`: its loop; the look at the shutdown and
  the claim are two steps because the code does them one after the other.
* `Start`, `Monitor`, `Finish`, `CommitFinal`, `CommitAgain`: `execute`.  What the run itself does
  is `RunJournal` and `Mission`; here it returns an outcome.
* `Crash` (at any step; a failed read, write or lock leaves the same files), `Signal`, `Tick`,
  `StepBack`.

Choices made: job ids are random, so jobs with the same due time are taken in any order;
`claim_due`'s `now` is read just before the lock is taken, and the model reads it at the claim;
`run_id` is the number of the run, which is all that uniqueness is needed for.  `Finish` after a
cancelled control returns `cancelled` or an error: a control cancelled after the run's last look at
it has no effect, so that order is the same as a `Finish` before `Monitor`.  A failed read of the
job by the monitor, which also cancels, is not modelled.  `starts` and `renewals` are history.

### RunJournal

`run`, `trace`, `session`, `short`, `long` are files; `slock` and `mlock` the two locks; `local`
is what the process keeps in memory, notably its copy of the session record and of both memory
files, which it writes back whole.  One action per write: `Record`, `Count` (session record, then
`Memory::new`, which only reads), `Remember`, `Observe`, `LogExecution`, `Save`, `Close`, and for
notes `NoteBegin`, `NoteLog`, `NoteEnd`.  `Abandon` is process death or an error return at any
point; both release the locks and leave the files.  `Snapshot`, `Mark`, `Skip` are the journal half
of recovery: all records are read first, each is marked later under its session's lock.

### Webhooks

`delivery[i]` is the delivery file of run `i`, or what `list` shows when there is none yet.  A
dispatcher reads the list once (`Begin`) and works through its copy: `Revive` (found `sending`),
`PassOver`, `Exhaust`, `Claim`, `Send`, `Settle`.  `posts` counts the requests put on the wire, all of
which may have arrived: the receiver may accept one whose answer is lost.  `Die` and `Shutdown` interrupt a call;
`Retry` is the manual retry.  Different calls may use different `max_attempts`.  Payload, headers
and credentials are left out; an answer is accepted, retryable or refused.

`Notification` says the same without dispatchers, locks and files: a notification waits, is claimed,
posted, and delivered, failed, put back or lost.  In the mapping a file that says `sending` is
*claimed* or *posted* while a dispatcher works on it (`StateOf`, `At`), and *lost* as soon as that
dispatcher dies, though the file still says `sending` and the next call finds it so.

### Mission

`pc` walks through the gateway's loop and the agent's nested loops; every `stop_reason` check of
the code is a separate step, so that the control may stop between any two of them.  `planning`
tells the original instruction from a request to replan, `resume` is the checkpoint, `done` and
`late` are history: the steps that ever succeeded, and the calls begun after the stop.  Planners
answer with any skill or an error; a tool's output meets the expectation, misses it, or the tool
errs.  `IOError` is a failed memory write, observer or publication, which ends the mission.

`CheckpointsLookBack` assumes that a step's checkpoint is not after the step.  The shipped skills
satisfy it; `SkillCatalog::validate` only checks that the checkpoint exists.  `ResumeSkipsOnlyDone`
and `CompletedMeansDone` depend on it.

The budget of replans, `max_replans`, is a variable fixed at the start, since a trial takes 0 or 1
of it by its strategy and a plain run takes the configured one.

### Challenges

`challenge[c]` is the file of comparison `c`, with the statuses of its trials.  A runner is the
gateway's worker (`mode` serve) or `challenges run` (once), which evaluates the comparison it creates;
both hold `.runner.lock`.  As in `Jobs`, a section under `.challenges.lock` is one step, except for
recovery.  The look of `claim_next` (`Pick`), which takes no lock, and the claim (`Claim`,
`ClaimFails`) are two steps; so are the loop's check (`BeginTrial`, `LeaveLoop`), the end of a trial
(`Finish`), the write of its verdict (`SaveTrial`) and the close.  `begun` is history.  `claim_next`
takes the comparison created first; the model takes any, as creation times may be equal or step
back.  `Monitor` may also fire because its read failed (`ReadsMayFail`).  A trial's outcome is
chosen here; `Trial` says what it depends on.

### Trial

A mission behind the fault injection of `src/challenges.rs`.  `Mission` leaves the operation of a tool
open (`Operate`); here it has two halves, the wrapper, which counts and may fail or stall (`Inject`,
`Stall`, `EndStall`, `PassOn`), and the tool (`Observe`, `Command`, `IllegalCommand`), between which
the control may stop (`Refuse`).  `robot` is the simulator's state, `stats` the counters of
`FaultStats`; `cube` and `moved` are history: where the commands carried out left the cube, and whether
there were any.  Skills are data: `MCTrial` holds the four shipped ones, step by step, with their
inputs, expectations, retries, checkpoints and recovery rules.  An expectation is compared field by
field; the nested `state` of an answer is flattened.  The mock planner chooses as
`FilePromptPlanner` does for the fixed instruction of a comparison; a model may choose any skill,
two custom ones among them: `just_move` only moves to the bin, and `just_place` then places what it
does not hold, which the robot refuses.

`Trial` has no type invariant of its own: what it shares with `Mission` is typed by that module's
theorem through `TrialIsMission`.

### Server

`main` is where `serve` is: `jobs`, `challenges` and `bind` before the threads exist, then the thread it
joins, and `scope`, where the scope joins what an early `?` left running.  `worker`, `notifier` and
`handler[h]` are the threads, `joined` counts the handlers joined, `cancelled` is the shutdown control
that all of them look at.  The worker's look, its claim of a due job, its claim of a comparison and
the execution are four steps (`Look`, `ClaimDue`, `ClaimNext`, `Execute`).  `request[q]` is what a client
sent; a submission is in `work` before it is answered (`Respond`, `Reply`).  `WorkerFails`,
`NotifierPanics` and `HandlerFails` are errors and panics; `CancelOnExit` makes the notifier's panic
cancel the control, the others are only noticed when joined.  Threads end by their own steps: `Return`
only waits for them, while the death of the process (`Die`) takes them along.  `FallDue` is a repeating
job's next slot, `Stored` holds what was submitted before the first launch, `Endless` the jobs whose
execution ends only when it is told to, and `Withheld` the requests whose client may announce a body and
keep it back: `body` reads to the end without a timeout (`src/server.rs:341-343`), so that `Respond` need
not come (`Held`).  What becomes of a job or a comparison is in `Jobs` and
`Challenges`.

### Recall

Text is a sequence of lines; a line carries what the code tells apart: the words a search looks for,
the phrases that make an instruction a request to replan (`IsReplan`), a `failed step:` or `failed
tool:` field, and whether it begins with `## ` and a time stamp follows.  `disk` is `long_term.md` and is
parsed and rendered as the code does, so that a heading inside a note becomes a log of its own
(`Parse`, `Render`); `memory` is what a run read when it began and writes back with its own logs
(`Record`).  `Begin` searches and composes the context (`Search`, `Context`), `Ask` gives a candidate of
the chain its prompt (`Prompt`) and says which skills it is offered (`Offered`), `Refuse` is its error,
`Execute` a skill that completes, fails or is stopped, and `Stop` a stop between turns.  The log of a skill
(`SkillLog`) quotes the planner's reason: the mock planner's is one harmless line, a model's any of
`Reasons`, on as many lines as it likes.  A skill's events are the two that a search can hit by the instruction or the skill's name; the leases are in `RunJournal`.
`notes`, `runs` and `reasons` are history.  A recovery rule has steps and tools here; the code's rules may
also ask for a word of the observation (`observation_contains`, `crates/skills/src/lib.rs:213-238`), which no
skill of the repository does.  What is shown of recoveries is for catalogs without it.

`Words` and `Names` are what lines may say and what their fields may name; `Lines` is the set of lines made
of them.  The heading that precedes the context says a word nobody else's line says, so that it can be
counted; blank lines are left out.  The logs of a file are found by the rank of their header among
the headers (`HeaderAt`), which is what splitting at `## ` gives and can be reasoned about.

### Suites and Experiments

A suite's module holds its `Cases` as `cases.json` lists them, a decision operator per variant, the
metrics of the variants' committed sources and the suite's own formulas.  Weights and confidences
are multiplied to integers so that no threshold is rounded.  Reasons, which only reach the
documents' prose, and measured times are left out.  `Shown` is what the documents print of a report.

`Experiments` runs the suites one by one (`RunSuite`), each reading what the files say at that moment
(`tree`), then writes the three documents, each truncated before it is filled (`Truncate`, `Fill`).
`Fail` ends the program anywhere, `Edit` is a maintainer relisting cases or editing a source.

## 3. Runs

| Run | Checks | Instance | States |
| --- | --- | --- | --- |
| `jobs` | at-most-once, client view, cancellation, schedule, refinement of `AtMostOnce` | 2 jobs of any kind, 2 runners in either mode, time 0..2 with steps back, 2 runs per job | 407k |
| `jobs_live` | dispatch, cancellation and shutdown eventually work | 2 jobs, one that repeats and need not end, 1 gateway, a window of time that moves without end | 165k |
| `jobs_return` | *violation*: a successful repeating job returns to the queue | as `jobs`, 1 runner | - |
| `journal` | recovery leaves executions alone, trace, memory and session counts agree, nothing forgotten | 2 processes, 2 sessions, 2 memory directories (one session may use either), 2 runs | 717k |
| `journal_final` | *violation*: a terminal run record is final | 1 process, 1 run | - |
| `webhooks` | budgets, backoff, refinement of `Notification`; every notification settles | 2 dispatchers with limits 1 and 2 and budgets 4 and 2, delays 1 up to 2, 2 runs, 1 manual retry, 2 interruptions | 512k |
| `mission` | bounds, prompt stop, resumption, completion, termination | 4 skills (3, 2, 1, 2 steps), up to 2 replans, 2 planners | 220k |
| `challenges` | refinement of `AtMostOnce` by each trial, file in step with the loop, coherent report, cancellation; queued ones are taken up, running ones end | 2 comparisons of 2 trials, one runner at a time in either mode | 126k |
| `trial` | documented scores, earned passes, robot in step with the skills, refinement of `Mission` with its fairness | the shipped skills and two custom ones, all 6 scenarios, both strategies, keyword planner or any model | 71k |
| `server` | lease outlives the threads, one late claim, honest result, joint end, comparisons and requests served | a job that repeats and need not end and whose client may keep its body back, a stored job that does not repeat, 1 comparison, notifier, 2 handlers, every kind of thread failing | 229k |
| `recall` | notes survive, one context per prompt, recovery offers fit the failure, logs narrow nothing | 3 skills, 2 instructions, 2 notes of which 1 is written, 2 reasons, 2 runs, 1 replan, 3 chains | 463k |
| `experiments` | committed documents match, documents agree | the real cases and sources of 12 suites; 2 invocations, 1 edit | 50k |

Why the bounds suffice.  *Jobs*: two jobs show that work on one neither starves nor touches the
other, two runners that the lease excludes and that a successor recovers; two runs per job reach
claim, repetition, second claim and its end; three instants hold a slot, a later one and the end of
time, where no next slot exists.  `jobs_live` has no end of time: `Recenter` shifts all instants back by one
and the run numbers with them, which the steps of `Jobs` only compare with each other, so that a job can
repeat for ever while another one waits.  There the endless job is the only one that repeats
(`Submitted`); with a claim that takes any queued job instead of the one due first the run finds the other
starved.  *Journal*: the second session may use the first one's memory
directory, which is the only sharing between sessions; two runs let one be abandoned and recovered
while another executes.  *Webhooks*: two runs compete for the dispatcher that
sends one at a time (until it ended the other one is attempted once at most, `EndsInTime`); a budget of 4
has three waits, which grow from 1 to 2 and are then held at the cap instead of growing to 4, before and after a
manual retry, and a budget of 2 meets deliveries of the other; with two notifications at once a receiver
asks for one more attempt only (`AsksOnce`), and one alone may use up its budget; two interruptions allow a
second death while the first is being repaired.  *Mission*: two replans are needed for a recovery that itself fails, and
for a resumption after a recovery; the catalog has a checkpoint that goes back, a recovery skill and
a skill denied at its last step.

*Challenges*: one slot for runners is enough, because the lease excludes a second one and a successor
takes the slot (the proofs are for any number); two trials have a first, a last and one left over;
two comparisons show that the second is taken up.  *Trial*: the catalog, the scenarios and both
budgets are the real ones, so nothing is bounded but the planner's answers, to the catalog.
*Server*: two handlers have one that fails and one that is joined after it, or one that a client holds
and one that is left to answer; one job that repeats or never ends is enough to starve a comparison,
and the other job, which does neither, is seen not to; every thread fails in some behaviour.
*Recall*: two runs, because a run can only read what an earlier one wrote; one note of each kind,
because notes meet only runs; a reason that repeats the report of a failure and one that does not; two memories are recalled instead of five and a snippet is six lines
instead of a thousand characters, so that both cuts happen; nothing is noted and no time passes after the
beginning of the last run, whose logs nobody reads (`Brief`).  *Experiments*: a second invocation meets
the documents a failed one left, and one edit falls before, between or after the suites.

Symmetry is used for runners and jobs, and for processes and run ids, only in `jobs` and `journal`, whose
properties are invariants and action properties.  The liveness runs use none.  Deadlock is checked
everywhere except in `mission` and `trial`, which end, and in `recall` and `experiments`, where nobody
has to begin another run.

## 4. Fairness

* `Jobs`: weak fairness of each runner's own steps and of its monitor, which are threads that never
  block for good (locks are tried for two seconds); of the end of a run unless the run is `Endless`
  and has not been told to stop, since every wait polls the control every 20 ms.  Nothing obliges
  clients, signals, the clock or whoever starts a runner; in `jobs_live` the clock can go on for ever and
  need not.
* `Webhooks`: weak fairness of "some dispatcher starts a call" (the notifier's loop), of each call in
  progress (requests have a timeout) and of time.  Interruptions are bounded: with endless deaths no
  delivery settles, nor does the code promise it.
* `Mission`: weak fairness of the executing thread.  That planners and tools return is assumed; the
  HTTP clients have timeouts and the built-in tools do not block.

* `Challenges`: weak fairness of each runner's own steps and of its monitor, as in `Jobs`; a trial has
  a deadline of at most a minute, so its end is one of those steps.  `ComparisonsMoveOn` speaks of a
  gateway without due jobs, which its worker prefers.
* `Server`: weak fairness of `serve`, the worker, the notifier and each handler.  An execution ends unless it
  is `Endless` and not told to stop, which `Jobs` and `Challenges` show and `Server` takes as one step; a
  delivery ends by its request timeout.  A handler is not assumed to get on while it reads a body that its
  client may keep back (`Held`): no timeout ends that read.
* `Trial`: weak fairness of the executing thread and of the deadline, which is a clock.  The waiting
  sensor is not assumed to return: `TrialIsMission` includes `Mission`'s fairness and holds
  because the wait looks at the control.

## 5. Proofs

`tlapm` checks every leaf.  Liveness and ENABLED are left to TLC.

**Jobs.**  `IInv` is `TypeOK` with four more parts.  `NoAutoReplay` (starts <= renewals + 1) is not
inductive: nothing in it says that a job waiting in the queue has used up its slots, or that the
runner about to start a run is the only one holding it.  `OneRunner` says that a live runner holds
the lease, `ClaimsHeld` that the stored record is the runner's claim from claim to commit, `Counted`
that a queued job has exactly as many starts as renewals, and `StartsOfClaim` relates the runner's
place to both counters.  Recovery keeps `ClaimsHeld` because it runs under the lease, so by
`OneRunner` nobody holds a claim.  From `IInv` follow `NeverReplayed`, `ClaimDurable`, the action
properties `CancelIsFinal` and `SlotsOnlyAdvance`, and `StoreKeepsPromise`: each step of the store
maps to a step of `AtMostOnce` or to a stutter.  They hold for any sets of jobs and runners, any slots
and any bounds, from `JobsAssumption` and `NobodyAssumption`.

**Mission.**  `IInv` adds `Ended`, `Budget`, `Position`, `Behind`, `Lateness` and `Validated`.
`ReportsBounded` needs `Budget`: a skill run for a replan is paid by it, and so is one return to the
instruction, which is why handing back without a replan would break it.  `ResumeSkipsOnlyDone` needs
`Behind`, which carries the claim over the agent's loop and over the checkpoint while other skills
run.  `OneLateCall` needs `Lateness`: after the late call the mission is at a place from which the
next check stops it.  Each lemma `...Step` treats every action of `Next` once.  The theorems hold for
every catalog, policy, planner chain and number of replans, from `MissionAssumption` and
`CheckpointsLookBack`.

**Challenges.**  `IInv` is `TypeOK` with five more parts: `OneRunner`, `HasWork` (a runner beyond its
loop holds a comparison), `Unbegun` (a trial that is still queued never began, any other at most
once), `LoopMatchesFile` and `ReportCoherent`.  `TrialsOnce` is a consequence of `Unbegun`, which is
inductive because no step makes a trial queued again: recovery marks the active one interrupted, and
a claim takes a comparison whose trials are all queued by `ReportCoherent`.  The lemma `RecordStep`
says once what a step of the lease holder on its own record must preserve, and every runner's action
cites it.  `TrialsArePromised` says that every trial of every comparison goes the way of `AtMostOnce`,
with one slot that nothing renews: each step is a step of that trial or a stutter (`SlotMoves`), because
a trial that leaves `queued` for the second time would contradict `Unbegun`.  `TrialIsAtMostOnce` draws
the conclusion for a single trial, as its specification.  The theorems hold for any sets of comparisons
and runners and any number of trials.

**Server** (`Programs_proofs`, first part).  `IInv` is `TypeOK` with `Whole` (the lease is held exactly while `serve` runs, and before
the threads are spawned there are none), `Claims` (a worker about to claim has not claimed since the
shutdown) and `Joins`.  `ResultHonest` is about the scope only; what makes it inductive is that a thread
`serve` has joined is over and stays over, so that no failure comes after the result was chosen, and
that handlers are joined in order.  `LeaseCovers` rests on the scope's join: `Return` leaves the threads as
they are, and its guard says that each has ended by itself; without it the proof fails.  It also needs
`Whole`, because the early returns of a failed recovery or bind release the lease without a join, when
there is no thread yet.  The theorems hold for any number of handlers, any
requests, with or without a notifier and whichever threads may fail, from `ServerAssumption`.

**Experiments** (`Programs_proofs`, second part).  `DocsAgree` looks at three files at rest; it is
inductive with `RunsCounted` (an invocation that writes has not finished), `DocsDated` (no document is
from a later invocation, and none is from this one before it writes) and `DocsOfRun` (what this
invocation has written in full is its reports, and a truncated file is empty).  The documents are written in
order, so the one about to be written is the first outdated one (`NextIsFirst`).  For any number of
invocations, failures and edits; the suites' own decisions do not matter.

**Jobs, once more.**  `OutcomeCoherent` is not inductive either: a running job must show no result, or the
one it got from an earlier slot would outlive an interruption.  `Story` adds that, is kept by every
operator on a record (`StoryOfUpdates`, `StoryOfCommits`), and gives `OutcomesAreCoherent`.

**RunJournal.**  `IInv` has one part per process: it holds the locks of the session and the directory it
works with (`Locked`), its copies are what the files say (`Loaded`), the run it executes is recorded
under them (`Owned`), and the trace lags by at most the event at hand (`InStep`).  `Known` says that
an unrecorded run has left nothing anywhere.  The session's count lies between the number of its
terminal records and the number of all of them (`Counted`), and is strictly inside while a process is
between the two writes (`Margin`); both are cardinalities, which is why the finite-set theorems are
used.  A process's step changes nothing another one relies on, since the locks they hold are
different; a mark by recovery counts as a step of the session's lock holder.  `NothingIsForgotten` follows
from `Loaded`: a file is replaced by a longer version of what it holds.  From `JournalAssumption` and
`SentinelAssumption`, for any processes, sessions, directories, runs and bounds.

**Webhooks.**  `Copies` says that a dispatcher in a call holds the sender lock, that its copies of the
deliveries ahead are the files, and that none is listed twice: without it a settled delivery could be
overwritten by a stale copy.  `Recorded` bounds the requests by the attempts, and the attempts by the
budgets before and after each manual retry (`Budgeted`), and dates the next attempt (`Paced`).  The budgets
are sums over a retry history of any length, so `BudgetIsKept` holds for any number of retries.
`2^k` has no rule in the provers; that it is a number comes from counting subsets.

`NotificationsKeepPromise` is the refinement of `Notification`.  Most of a dispatcher's steps change one
notification (`RunMoves`); what has to be shown is that they leave the abstract state of all others alone, although
that state depends on who is at work: only the holder of the sender lock is (`Alone`), and only a delivery
it has claimed is in flight (`InFlight`).  The death of a dispatcher is the step at which its claim is
lost, and a call that finds `sending` finds a lost one.  `UsedIs` relates the attempts since the last manual
retry, which is a field of the file, to the history of retries.  From `WebhooksAssumption`, for any runs, dispatchers, limits, budgets and delays.

**Trial.**  Every action of a trial is a step of `Mission` or a stutter, where a trial inside a tool is a
mission about to operate and a stalled one has erred (`MissionPc`).  `TrialIsAMission` is the safety part
of `TrialIsMission`, for every catalog, scenario and planner; `TrialKeepsPromises` carries the theorems of
`Mission_proofs` over, by instantiating that module with the same mapping.  `PassesAreEarned` is proved
under the hypothesis `CubeGoesToBin`, that no skill of the catalog puts the red cube anywhere but into
the bin.  The shipped catalog satisfies it, and the hypothesis is needed: the pass rule looks at the last
pose and the number of placements, not at the cube.  The invariant `Earned` follows the cube: the
gripper holds it exactly if the history says so, and after a placement it is in the bin or in the gripper
again.

`RobotIsInStep` is proved for the catalogs of `CatalogInOrder(idle, ready)`, which is about one skill at a time: from
the poses `ready[s][k]` step k of skill s asks for what the robot can do and leaves it in
`ready[s][k + 1]`, a skill may begin in any `idle` state, a recovery skill ends in one, and a step that may
miss goes back to a checkpoint where `idle` will do.  That no interleaving of faults, retries, recoveries
and resumptions then brings the robot out of step is the theorem (`InOrder`, `InOrderStep`).

`ScoresAreStock` adds `CatalogSeparates(idle, ready, look, grip, put)`: `pick_and_place` looks in one step and grips in
one, with one retry each, recovery skills do not grip, and there is at most one replan.  The invariant
`Scored` counts: a pass over the skill costs no fault, one, or two and then fails (`PassCount`); each replan has cost two
(`Tally`); and the faults that happened are the calls they were scheduled for, up to the limit of a scenario that
ends (`Accounted`).  A mission that concludes has therefore had exactly the faults and replans of its scenario
(`ConcludedScore`), and a placement if it completed (`BinnedStep`).  With two retries for the look or the grip the
statement is false and the proof fails.

TLC evaluates all three hypotheses on the shipped catalog (`CubeIsOnlyBinned`, `ShippedCatalogInOrder`,
`ShippedCatalogSeparates` in `MCTrial`).  From the assumptions of `Mission` and `Trial`; `CommandsAreKnown` is
what `Command::validated` rejects.

**Recall.**  The theorems are about text of any length, so the text operators come first.  The library's
induction theorems take an operator and cannot be instantiated, but well-foundedness of the naturals is a
statement about sets: `UpTo` says that a set of numbers which holds 0 and is closed under successor up to
n is `0 .. n`, and gives every bounded induction needed.  With it, `FlattenSeq` has the expected unfolding
(`FlatteningExists`, `FlatteningUnique`, `FlattenAppend`), every rank of a finite order is taken
(`RankExists`), so that `HeaderAt` and `Search` choose something that exists, and a file that begins
with a header survives parsing and rewriting, except for the time stamps of headers without one
(`RoundTrip`).  `IInv` has five parts: `Typed`; `Planning` (what a run plans is its
instruction, or the replan of the failure it had); `Asked` (the prompt has the context at most once);
`Quiet` (unless a note, an instruction, a context file or a model's reason told the session of a failure, no
stored line reports one); and `NotesKept` (the notes
are in the file and in the memory a run is going to write).  `NotesAreKept` needs that the file begins with a
header, since parsing drops what precedes the first one.  `Typed` and `Quiet` are one argument for two
sets of lines: what the memory does to a line stays in a `Closed` set (`WithinStep`).
`OwnLogsAreHarmless` is then `Quiet` for the prompt, and `RecoveriesAreOnTarget` says where in the prompt the
first `failed step:` is.  From `RecallAssumption`: the constants are texts over `Words` and `Names`, the context's
heading is nobody else's line, and no rule names the value that stands for a missing field.

`NeverRepeated` (`TrialsOnce`), `HistoryIsKept` (`HistoryKept`: nothing takes an attempt or a retry back or
touches an acknowledged delivery), `VerdictsStay` (no step rewrites a trial's verdict), `ClaimDurable` (the stored record is the claim of the
lease holder until its commit), `PreflightProtects` (no operation begins while a later step of its
skill is denied) and the theorems about types are proved and not run: on a small instance they would repeat
what the runs check.

Only model-checked:

* the liveness properties (`DueJobDispatched`, `StopsTakeEffect`, `EveryRunSettles`, `Terminates`,
  `ComparisonsMoveOn`, `EndsWhole`, `ComparisonServed`, `RequestServed`) and the fairness half of
  `TrialIsMission`: the provers have no rule for ENABLED;
* `DocsMatch`, which is a computation on the committed cases;
* the two violations, which are counterexamples.

## 6. What the checks show

The promises above hold, and so do the scores that `docs/recovery-challenges.md` states for the stock
skills and the mock planner.  Two statements of the documentation do not hold of the code:

1. `docs/robot-workspace.md:147` says successful interval jobs return to `queued`.  A job whose last
   step succeeds while its runner is being stopped is stored as `completed` (`src/jobs.rs:275`) and
   its schedule ends (`jobs_return`).
2. `docs/robot-workspace.md:114-116` says abandoned records become `interrupted`.  Recovery writes
   back a record it read before it tried the session's lock (`src/jobs.rs:164-181`), so a run of
   another process that finished in between loses its terminal status and result (`journal_final`).

The end of the gateway depends on its clients: `body` has no read timeout (`src/server.rs:341-343`), so a client
that announces more than it sends holds its handler, and after a signal `serve` waits for that handler in
its join (`src/server.rs:125-129`) for as long as the connection lasts.  `EndsWhole` says that this is the only thing
that can hold the process up, and `RequestServed` that others are answered as long as a handler is left.

Two races of the gateway are narrow and bounded; the models contain them and the properties are
stated around them:

* A stop between the worker's look at the shutdown and its claim (`src/server.rs:92-93`) takes a queued
  job, which ends `cancelled`, while `docs/robot-workspace.md:179-180` says that queued jobs remain
  available.  `OneLateClaim` shows that it is never more than one.
* If a client cancels a comparison between the worker's look at the list and its claim
  (`src/challenges.rs:357-362`), the claim is an error, which ends the worker and with it the gateway
  (`ClaimFails` in `Challenges`, `WorkerFails` in `Server`).  `LoopMatchesFile` shows that a cancelled
  comparison is not run, `EndsWhole` that the gateway then ends properly.

What is recalled is searched for by what it says and given to model planners as part of the text in which
they look for a request to replan.  `OwnLogsNarrowNothing` holds because a log repeats the user's instruction
and not the planning instruction, and it is stated for sessions in which no note, instruction, context file
or reason of a model had a `failed step:` or `failed tool:` line: such a line, once recalled next to one of the
phrases, narrows the skills of an unrelated first turn.  A model's reason is a way into the prompt of its
own: the log quotes it as it is (`crates/agent/src/lib.rs:1064-1068`), so that a model which repeats in it, on lines
of their own, the step and tool it was told had failed leaves them to later runs of the session.  Without the
reasons in the hypothesis the property fails in five steps.  A recalled `replan_after_` line alone makes the prompt carry recovery guidance without
a failure, but leaves every skill on offer.

`DocsMatch` holds: the figures of twelve suites in `docs/experiments.md` and `docs/decisions.md` are what the
committed cases, sources and decisions give, and none depends on the order in which a case lists its
artifacts.  While modelling we noticed that `adjacent_pending_reuse` of the carry-over suite, `mirror_budget`
and `trust_decay_budget` can answer "superseded" and name no successor; no committed case reaches it.

Three more observations, stated as hazards in `PROJECT.json`: a monitor that fails to read its
comparison once stops the trial as cancelled, and the comparison still ends `completed`; with two or
more replans a failed recovery skill that is not resumable replaces the checkpoint of the original
skill with nothing; and an I/O error right after `run.json` says `running` leaves it so until a runner starts.

## 7. Not modelled, and why

* HTTP planners and the parsing of their answers: an answer is any skill or an error.
* The ROS 2 bridge: it publishes to an external process; its errors are `IOError`.
* Configuration parsing, doctor, argument parsing, output and dashboard: no state that outlives a call.
* Ten experiment suites (`frontier_snapshot_replay`, `gateway_replanning`, `planner_selection`,
  `tool_output_validation`, `resume_policy`, `recovery_skill_patterns`, `backend_observation_fusion`,
  `ros2_observation_ingestion`, `planner_prompt_shaping`, `cross_provider_validation`): they take their
  turn in `Experiments`, but their variants decide by text similarity, simulated conversations or
  floating-point fusion, which a model would have to transliterate.
* Cron syntax, time zones and daylight saving: a library's.
* HTTP routing, authorization and status codes of the gateway.

## 8. Plan

All modules of section 2 are done, with the proofs of section 5.  What is left is a composition of
`Jobs`, `RunJournal` and `Webhooks` over one crash: what the job, its run record and its
notification say after recovery.
