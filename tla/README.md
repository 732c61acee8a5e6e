# A verification project for ROPD

ROPD distils a black-box teacher into a student on policy: the student's
rollouts are judged, with the teacher's answers and a rubric, by remote language
models, and the scores train the student. The repository holds ROPD's own code
(`algo/`, `scripts/`, and the strict-async pipeline in
`verl/experimental/fully_async_policy/`) and a vendored copy of the verl
framework (the rest of `verl/`). This project is about ROPD's own code and about the
synchronous training loop of `verl/` that ROPD runs in by default. All paths
below are relative to the repository's root; `FA` stands for
`verl/experimental/fully_async_policy`.

## 1. Inventory

| Part (source) | State | Operations | Talks to | What is hard | What makes it correct |
|---|---|---|---|---|---|
| Window coordinator (`FA/black_opd_window_coordinator.py`) | version, window state, members, judged and consumed groups | `request_admission`, `mark_reward_done`, `mark_consumed`, `ready_for_sync`, `advance_version` | called by rollouter, dispatcher, trainer, synchronizer | callers are separate processes: any order, late calls | identifiers fresh; a full, judged, consumed window can always advance, another never |
| Rollouter (`FA/fully_async_rollouter.py`) | queues of samples, `active_tasks`, `staleness_samples`, `paused`, `running`, a condition | feeder, processor, monitor, one task per sample, `pause`, `update_param_version`, `resume` | coordinator, raw queue, trainer's remote calls | coroutines and a lock held across awaits, state re-read or not after an await | no sample lost, no stale or mixed weights, bounded staleness, it ends |
| Group queues (`FA/black_opd_queue.py`) | a bounded deque | `put_nowait`, `get_nowait`, `qsize` | rollouter, dispatcher, trainer | refusal and polling at the limit | no item lost or duplicated |
| Judge dispatcher, judge actors (`FA/fully_async_main.py`, `FA/ropd_judge_worker.py`) | pending references, round-robin index | `run`, `score` | both queues, coordinator | results out of order, failing judges, publish before mark | each group judged and published once |
| Trainer (`FA/fully_async_trainer.py`) | batch, `local_trigger_step`, version | collect, `mark_consumed`, train, synchronise, final validation | scored queue, coordinator, synchronizer | blocks on the others at every step | trains each group once, in its window |
| Parameter synchronizer (`FA/param_sync.py`) | none of its own | `sync_weights`, `_sync_runtime_version` | rollouter, coordinator, workers | a refused version ends the job | version and weights advance together |
| Task runner (`FA/fully_async_main.py`) | the components and their futures | initialise, run, shut down | all | one future fails while others block | it returns or raises |
| Request scheduler (`algo/ropd_scheduler.py`) | a bounded heap, one condition | `submit`, worker loop, `shutdown` | provider, worker threads | two kinds of waiters on one condition, shutdown at any time | capacity, priority, no lost wakeup, no abandoned future |
| Judge provider (`algo/ropd_clients.py`) | circuit breakers, in-flight futures, token buckets | `create_text`, `_execute_with_retry`, `allow_request`, `record_*`, `acquire` | scheduler, transports | outcomes reported in another breaker state than the one that admitted; leaders that fail | trips in time, never locks out, one request per fingerprint, everyone returns |
| Token buckets (`algo/ropd_clients.py`) | tokens, time of the last refill, a lock | `acquire` | provider, clock | threads that sleep and wake together, requests larger than the bucket | the rate holds over every interval; no sleep is unbounded |
| Reward manager, clients, prompts (`algo/ropd/`, `algo/ropd_prompts.py`) | none shared | evaluate a group, build requests, parse answers, restore shuffled scores | provider | partial failure of a group; alignment of scores and answers | a score reaches the answer it was given for |
| Pairwise pipeline (`algo/ropd_pipeline.py`) | rubric cache | evaluate pairs | clients | only its types are used by ROPD | - |
| Teacher index (`algo/ropd_teacher_index.py`, `scripts/build_teacher_index.py`) | a JSONL file | generate in batches, append, resume, look up | provider | a crash while appending | resuming neither loses nor repeats a record |
| Sync trainer, checkpoints (`verl/trainer/ppo/ray_trainer.py`, `verl/utils/checkpoint/`) | step, epoch, dataloader position, saved paths; on disk the checkpoints and the tracker | `fit`, `_save_checkpoint`, `_load_checkpoint`, retention | dataloader, disk | a kill between any two writes, a snapshot at the end of an epoch | what the tracker names loads; every batch once; it ends after its last step |
| Batch assembly, reward control (`FA/detach_utils.py`, `FA/ray_trainer.py`) | none shared | merge samples, merge control values, expand teacher rows | trainer | merging is order-sensitive | the batch says what its samples said |
| Message queue (`FA/message_queue.py`) | a deque, versions, counters | put, get, shut down | rollouter, trainer in the non-strict mode | drops the oldest, consumers blocked at shutdown | - |
| Artifacts, environment, provider resolution, launch scripts, vendored verl | files, configuration | - | - | no protocol of ROPD's | - |

How a sample travels in strict-async mode: the feeder puts it in
`pending_queue`; the processor submits a task for it; the task asks the
coordinator for admission, generates, and puts it in the raw queue; the dispatcher
hands it to a judge round-robin, puts the scored sample in the scored queue and
marks its reward done; the trainer collects a batch, marks each group consumed and
trains; every `trigger_parameter_sync_step` batches it calls `sync_weights`, which
pauses the rollouter, advances the coordinator, transfers the weights, updates the
rollouter's version and resumes it. Within a judge actor, a call to `create_text`
shares an in-flight request or leads one, passes through the scheduler, and runs in a
worker thread under the limits and the circuit breaker of its stage.

The hazards of all this, each at its line, are in `PROJECT.json`.

## 2. Modules

| Module | Models | Form |
|---|---|---|
| `OnPolicyWindows` | what strict on-policy training promises, without states, counters or messages | abstract specification |
| `WindowCoordinator` | `WindowCoordinatorState`, a method an action; calls in any order with any identifier | implements `OnPolicyWindows` |
| `StrictRollouter` | the event loop: feeder, processor, monitor, sample tasks, remote calls, the lock and its queue | component, composed by `StrictAsync` |
| `JudgeDispatcher` | the dispatcher's loop, the judge actors, the two group queues | component |
| `StrictTrainer` | `fit` and `sync_weights` as one sequential program | component |
| `StrictAsync` | the whole pipeline: it extends the four components, and each of its actions is one of theirs joined with the calls it makes to the others; the task runner | composition, implements `WindowCoordinator` and `OnPolicyWindows` |
| `RequestScheduler` | `BoundedRequestScheduler` with its callers and worker threads | component |
| `ProviderCalls` | the sharing of in-flight requests in `create_text`; it extends `RequestScheduler` and joins each of its actions with what it does to the table of pending requests | composition |
| `CircuitBreaker` | the breaker of a stage and the retry loops of the requests that report to it | component |
| `MCCircuitBreaker`, `MCProviderCalls` | constants of `CircuitBreaker` and of `ProviderCalls` for TLC | model-checking modules |
| `TokenBucket` | `SyncTokenBucket.acquire` by concurrent threads | component |
| `SyncTraining` | `RayPPOTrainer.fit` and its checkpoints, killed and restarted | component with a crash model |
| `TeacherIndexBuild` | `build_teacher_index.py` over several runs, interrupted and killed, and `OfflineTeacherIndex.load` | component with a crash model |
| `GroupEvaluation` | `RopdRewardManager.__call__` for one batch, and the merge of reward controls | component |
| `MCGroupEvaluation`, `MCTeacherIndexBuild` | a batch, a dataset | model-checking modules |
| `*_proofs` | the theorems of section 5; the scheduler's are in `ProviderCalls_proofs`, with those of the calls above it | proofs |

Correspondence worth knowing when reading them next to the code:

* **Event loop (`StrictRollouter`).** A coroutine gives up the loop only at an await
  that really waits; `onLoop` names the one that has not. The processor goes from
  action to action without giving way unless the action says `WaitsNow`. An
  `asyncio.Condition` serves its lock first come, first served: `lock` is its holder
  across an await and `lockQueue` its queue. `monitor = "resuming"` is the window
  between the monitor's decision and its turn with the lock. `resetTo` is the value
  `update_param_version` computed before its await. `doneTasksBound` is whether the
  processor's local `done_tasks` has a value yet. Partial rollout is off in ROPD's
  configuration, so `cancel_queue` stays empty.
* **Dispatcher.** Its actor is single-threaded and `run()` never yields, so each
  remote call it blocks on is one action; publish and mark are two. `unjudged` is history:
  the samples whose judge raised. `givenUp` is the trainer's: those of the batch that was
  not full when the end marker came. With `trained` they say where a sample ended.
* **Trainer.** It blocks on every call; one program counter covers it and
  `sync_weights`. The version and `local_trigger_step` change before the
  synchronisation, as in `_trigger_parameter_sync_after_step`.
* **Joined calls.** An action of `StrictAsync` joins a step with the remote call it makes,
  and in three places with what the same coroutine does next. `Admit` is the granting of
  admission and the start of generation: a task that was admitted and does not generate
  yet is counted as generating, so that a transfer of weights between the two is seen by
  `madeWith` as a mixture, which is stricter than the code. `TaskEnqueued` is the test of
  `running` and the put that follows it: `running` turns false only after the end marker is in
  the raw queue, and what follows the marker nobody reads. `SyncVersion` is the
  coordinator's answers and the advance: the synchronizer alone advances, and between
  the answers only a late mark can come, which is the race of finding 1 from its other
  side.
* **Coordinator.** The string `v{version}-g{index}` is the pair. A refused admission
  and a KeyError change nothing.
* **Scheduler.** A critical section is one step. `wait()` is a state of the thread
  left by the next `notify_all()`, after which it competes for the lock and tests its
  condition again (a submitter is then `"woken"`). The heap is a set ordered by `ticket`; a caller blocks, so it has
  at most one request and names it.
* **Breaker.** `allow_request` and each `record_*` is a critical section; the request
  is out between them. The consecutive count matters up to its threshold and the
  successes up to the number of probes, and both are kept up to there. Time is
  whether the cooldown has passed. `rolling_error_rate` enters as the least number of
  errors that reaches it. A `circuit_open` rejection is raised inside the retry loop
  and recorded by its handler in a second critical section: `rejected` is the gap.
  `probing` and `leaked` are history: which admitted probes are out, and how many
  ended in an exception that no handler of `_execute_with_retry` names.
* **In-flight requests.** The stage is part of a request's fingerprint (`StageOf`); `Asks`
  is what each thread may ask for. An entry of `inflight_requests` is named by its leader.
  `_complete_inflight_request` removes it under the lock (`RemoveEntry`) and completes
  the future after it (`CompleteFuture`).
* **Token bucket.** One pass under the lock is one action; a tick is the time in which a
  token is added, so that the code's division by the rate disappears. `watchedAt` and
  `taken` are history: an observer may begin to count at any moment.
* **Sync trainer.** Generating, judging and optimising a batch change nothing outside the
  process, so they are one step, `TrainBatch`. Each write in place (actor, `data.pt`,
  tracker) is two steps with a torn file between. Weights are the sequence of batches
  they saw. `Checkpoint` has no guard on the step because the third condition of the
  code, that the capacity is about to expire, may hold at any.
* **Teacher index.** The file is a sequence of lines; `ended` says whether the last has
  its newline. A row that is appended to an unended line is joined to it, and the two do
  not parse. `Fragile` are the prompts whose answers hold a character at which
  `splitlines()` cuts and which `json.dumps` leaves alone.
* **Group evaluation.** The hash orders of the shuffle are any order. The verifier
  (`Replies`) may answer a chunk in any order; `parse_ropd_scores` refuses all but one.
  A score is in points of the rubric. A rollout's index in its group is the number of the
  group's rollouts up to it (`IndexOf`); `TeacherAnswers` lets the teacher give any sequence
  of texts up to its count, equal ones included: `dict.fromkeys` removes duplicates before
  the texts are trimmed, and trimming may make two of them equal. `Claims` are bounded by the
  maximum score; `parse_ropd_scores` accepts any number.

## 3. Runs

TLC checks every run exhaustively. `CHECK_DEADLOCK FALSE` is set where the system
stops: the job ends, a bound is reached, or nobody calls any more.

| Run | Question | Answer |
|---|---|---|
| `strict_async` | Is training on policy, does each sample go through once, and are the coordinator's windows never stuck, whatever the interleaving and the failures? | It holds, with no assumption on timing, a quota that fills the window, and a synchronisation every second batch. The job implements the coordinator, and both implement `OnPolicyWindows`. The final synchronisation is refused when it bumps the version, and only then. |
| `strict_async_live` | Does the job end, with every full batch trained, and is nothing refused? | It holds, through failures of generation and judging and with no assumption on timing. What a synchronisation may lack is the one mark of finding 1 (`OnlyMarkIsLate`). |
| `strict_async_race` | Does `sync_weights` always find the window ready? | No: finding 1. |
| `provider_calls` | Capacity, order, wakeups, sharing, and does everyone come back through a shutdown? | It holds; with `if` for `while` around `wait()`, or `notify` for `notify_all`, it does not. |
| `circuit_breaker` | Does it trip in time, keep its slots, and never lock its stage out? | It holds. |
| `token_bucket` | Does the rate hold over every interval, and is every sleep bounded? | It holds for requests that fit the bucket; the bound on sleeps for all. |
| `sync_training` | What does a kill at any point lose? | Nothing that the tracker names, and a restart raises only if the kill cut the write of the tracker itself; no batch is repeated or skipped; the job ends after its last step. |
| `sync_training_keep_one` | And with a single checkpoint kept? | The only checkpoint may be gone: finding 2. |
| `teacher_index` | Does exit code zero mean a usable index, whatever happened before, and can an interrupted build be resumed? | It holds for answers without line separators. |
| `teacher_index_interrupted` | And with them? | No: finding 3. |
| `group_evaluation` | Does every score reach its answer, and does the control account for the batch? | It holds. |
| `group_evaluation_miscount` | And if the verifier adds up wrongly? | The wrong sum is the reward: finding 4. |

The findings:

1. The dispatcher publishes a scored group before it marks its reward
   (`FA/fully_async_main.py:132-133`), and the trainer does not wait for the mark. If it
   collects, consumes and trains first, the window is still SEALED and `sync_weights`
   raises, which ends the job. A training step is normally far slower than the call, but
   nothing enforces it. The mark is all that can be missing: `OnlyMarkIsLate`.
2. With `max_actor_ckpt_to_keep: 1` the old actor is removed as soon as the new one is
   written, before `data.pt` and the tracker are. A kill in between leaves a tracker
   that names a removed checkpoint, and the restart raises. The docstring of
   `ensure_checkpoint_capacity` promises that the old one is kept until the save is
   complete.
3. `OfflineTeacherIndex.load` cuts lines with `splitlines()`, which also cuts at U+2028,
   U+2029 and U+0085; the builder writes these unescaped. One such answer makes the
   index impossible to load and to resume.
4. `_validate_verifier_score` corrects a `final_score` that is not the sum of the judged
   points; `parse_ropd_scores` drops the corrected copy.

Every property is paired in `PROJECT.json` with a change to the code's model that
violates it.

### Observations that no run states

What the code does, read while modelling it; the models do the same, and no text of
the repository says more exactly what it should do, or a run would only restate it.

* The final validation bumps the version when `local_trigger_step > 1`
  (`FA/fully_async_trainer.py:783` and `:797`), and the coordinator, whose window is then not
  full, refuses it: with `trigger_parameter_sync_step` of two, a job that trained an odd
  number of batches ends in an exception after its last step. The docstring
  (`:773-776`) says "Reuse the current parameter version for this final validation-only sync
  instead of forcing a synthetic version bump that would violate the window coordinator state
  machine". The configuration of `strict_async` has such jobs: there `finishing => trainer #
  "failed"` is false, and `FinalSyncFailsMidway` says that nothing else makes the final
  synchronisation fail.
* `ropd.yaml` as shipped cannot run the strict-async mode. `target_group_count` is
  `${data.train_batch_size}` (`ropd.yaml:141`); the rollouter asserts that this is 0
  (`FA/fully_async_rollouter.py:78`), and the coordinator refuses 0
  (`FA/black_opd_window_coordinator.py:31-32`). Were it 32, as in `ropd.yaml:52`, a
  synchronisation would come after 8 groups (`ppo_mini_batch_size * require_batches`,
  with a synchronisation after each batch), find an OPEN window and raise: a
  job only passes its first synchronisation if `target_group_count` is
  `RequiredSamples * SyncStep`, which nothing checks. The runs have it so.
* The coordinator starts at version 0 whatever the checkpoint says
  (`FA/fully_async_main.py:336-346`), so the first synchronisation of a resumed
  strict-async job is refused. The models start at 0 (`ResumeVersion`).
* With `fail_policy` other than `stop` a judge's failure leaves its group unmarked, and the
  job hangs or is refused. A judge's failure under `stop` ends the job; a sample may then be
  waiting for admission to a window that will not open, which is why
  `AdmissionNeverRefused` speaks of the time until a judge raised.
* `record_response_quality_failure` and `record_ignored_failure` free a probe slot of a half-open
  breaker for requests that hold none (admitted before it opened, or rejected), so more
  than `half_open_probe_requests` probes may be out. The same release is what makes
  `KeepsAdmitting` hold after exceptions have leaked slots.
* A token bucket holds a sixtieth of the limit per minute. Below sixty requests per
  minute every request is larger than the bucket: it is granted at once, its debt cut off at
  one bucket, and several threads together exceed the rate. The rate holds where tokens
  are granted, not where requests are sent.
* A restart with a torn tracker raises (`int('')`) until somebody repairs the file, despite
  the comment "for atomic usage" (`ray_trainer.py:1737`). A job that is restarted after its
  last step, and before it returned, trains one step too many when the pinned number of
  steps is not a multiple of the epoch. Retention forgets what earlier processes saved.
* The rates of the reward control are averaged pairwise over samples, so later
  samples weigh more, and `step_retry_attempt`, a setting, is summed. The update mask is
  true for the rollouts of excluded groups too. `effective_pair_count` is read by the
  trainer and never written by the manager, and nothing sets `quality_gate_stop`.

### Bounds, and why they are enough

* Pipeline: windows and a quota of two. `strict_async` has six samples, three windows
  trained one sample at a time (771,869 states), so that a version is reached by two
  synchronisations and left by a third, and a job that a failure shortens ends in the middle
  of a window. `strict_async_live` has five in batches of two (331,121), two windows
  and a remainder. `pending_queue` has one place, so that the processor drains it and the
  monitor's decision to resume meets `pause()` in every window; group queues of one place make
  every put meet a full queue. Two judges let results overtake each other. The version
  cannot exceed the number of windows, which `MaxVersion` is above.
* Coordinator: within the pipeline its methods are called where the code calls them;
  the theorems of section 5 are about calls in any order, with any identifier.
* Scheduler and provider: four threads, a heap of two and two workers (217,404 states).
  With both workers not yet at the heap, two threads fill it and two wait; one removal
  wakes both for one place. One thread asks for the teacher's or a verifier's answer, one for
  a rubric, two for verifiers' answers, one of which the first may share: so there are a leader
  and a follower, requests of every stage, and two of one stage that only age orders.
  `MaxRequests` stops the sequence number. With finitely many
  requests a stage cannot starve in the run: the code promises no more than priority, and
  starvation of the verifier stage by endless teacher requests is possible by design.
* Breaker: three requests with one retry, a threshold of two, a window of three, one
  probe. A request that was admitted before the breaker opened, the probe, and a
  rejected one coexist, which is what its hazards need.
* Token bucket: two threads, a bucket of two, sizes below, at and above it, and a clock long
  enough for a debt to be cut off and paid back.
* Sync training: epochs of two steps, five steps pinned over one configured epoch (a
  fraction of an epoch at the end), two checkpoints kept of three saved or more, and two kills, the
  second of which hits the process that resumed.
* Teacher index: a key twice in a dataset of four rows, batches of two, three builds, one
  kill. The second build meets what the first left, the third what was resumed.
* Group evaluation: a group of two and one of one, interleaved in the batch, two teacher
  answers that may be equal, chunks of two, so that a group has two chunks, and one retry.

### Fairness

* `asyncio` runs every coroutine that can run, so each coroutine's step is weakly fair;
  the polling loops of dispatcher, trainer and tasks never give up before their
  deadlines, and generation and judge calls return or raise (the transports have
  timeouts). Generation failing, as opposed to finishing, is not fair.
* Threads of the scheduler and the provider are scheduled, and a request ends. Nobody has
  to call `submit` or `shutdown`.
* `KeepsAdmitting` is about a stage in use: requests keep coming and the cooldown
  passes. It does not assume that any request succeeds.
* The last four components are checked for safety only: a killed process need not be
  restarted, and a failing teacher need not recover.

## 4. What is model-checked only

Liveness, which is out of the proof system's reach: `Terminates`, `CreateTextReturns`,
`ShutdownReturns`, `KeepsAdmitting`. Every invariant and every action property of a passing run
is stated by a theorem of section 5 as well, under the hypotheses given there.

## 5. What is proved

All theorems are for every value of the constants under the assumptions named in the
modules (positive limits, finite sets of threads, workers that are not callers), without
bounds on behaviours.

* `WindowCoordinator_proofs`. The conjunction of `CoordinatorTypeOK`, `MembersAreNumbered` and
  `SealedAwaitsReward` is inductive. The numbering is what makes an identifier fresh
  (the next index is in no member) and ties the cardinality of the window to its
  index; without it neither the seal nor the refinement goes through. From it:
  `CoordinatorNeverStuckSealed`, `CoordinatorNumbersMembers`, and
  `CoordinatorImplementsOnPolicyWindows`, whose refinement maps the identifiers used so
  far to those of the earlier versions and of the current members.
* `StrictAsync_proofs`. Theorems about the whole job, for any number of samples, windows,
  judges, queue places and any interleaving, in layers that each rest on the ones before:
  1. *Components* (`ComponentsInvariant`): the types of the four components, the states in
     which the processor holds a sample, who may hold the event loop and the lock, and that
     no coroutine is twice in the lock's queue. `JobTypes` is the run's `TypeOK`.
  2. *Places* (`PipelineInvariant`): every sample that was taken is in exactly one place
     (the processor's hand, its task, the raw queue, a judge, the scored queue, the
     dispatcher, the batch, trained, given up with a batch that was not full, or refused by a
     judge), no sample that was not taken is anywhere, and the end marker is in the scored
     queue only after every task ended. `SamplesAreHandedOverOnce` says it of what was
     generated: nothing is lost or duplicated, and the ends of a sample are named.
  3. *Groups* (`JobInvariant`, `CoordinatorInvariantInJob`): the coordinator's own inductive
     invariant holds within the job; whatever is on its way from admission to training is a
     member of the current window, with an index of its own; a mark that is due is for a member
     whose reward is not done (`MarksAreForMembers`); a group is consumed exactly when the
     trainer's index has passed it. `JobNumbersMembers` and `JobNeverStuckSealed` follow.
  4. *Refinement*: `JobImplementsWindows` (every step of the job is one of the coordinator or
     leaves it alone, the window's capacity and its version included) and
     `JobImplementsOnPolicyWindows`, by composition with `CoordinatorImplementsWindows`.
  5. *Quota*: under `Tied` (`MaxRequiredSamples <= TargetGroupCount`), the samples taken since
     the last reset, those that wait for admission and those admitted fit into the window,
     and once the rollouter was paused for a synchronisation nothing that holds weights is
     still generating. Hence `QuotaInvariant`, `StalenessIsBounded`, and
     `TrainsStrictlyOnPolicy`: whatever is trained at a version was generated with it.
  6. *Synchronisation*: `SyncLacksOneMark`. The quota lets in, for a version, no more than
     `RequiredSamples * SyncStep` samples, and the trainer asks for the next version when it
     has consumed as many; so all that was admitted is consumed, all of it was published, and
     the dispatcher can owe no mark but the one between its two calls.
     `FinalSyncOnlyFailsMidway`, for every configuration: the final synchronisation is accepted
     when it reuses the version.
  7. *End*: `AdmissionsAreGranted`: as long as tasks wait for admission, the window has room
     for them or will be advanced, unless a judge raised.
  8. *Survival*: `ProcessorSurvivesWindows`. The only way for the processor to die without a
     failed task is to find `active_tasks` emptied by `pause()` before its `done_tasks` has a
     value. Until it has reaped a task, nobody but the processor has held the lock, so that
     nobody waits for it (`OwnLock`); it takes the lock in the same turn of the loop in which it
     finds tasks to wait for; and a quota that is used up finds it there. So
     `pause()`, which is not called before all of the quota was consumed, waits behind it.
  9. *Remainder*: `OnlyRemainderIsUntrained`. Without a failed task the processor ends with
     every sample taken and done, nothing follows the end marker in either queue, and the
     dispatcher sends its marker with nothing pending (`EndInOrder`); so a sample that is not
     trained by then is in the batch given up, which is not full, while what is trained is a
     number of whole batches.

  The hypotheses are two. `Tied` (`MaxRequiredSamples <= TargetGroupCount`): the window holds
  at least a quota. `NoStaleness` (`MaxRequiredSamples = RequiredSamples * SyncStep`): the
  quota is one synchronisation's worth, which is what `staleness_threshold: 0`
  (`ropd.yaml:124`) makes it. Neither says that a window is one synchronisation's worth, nor
  anything of timing. With `TargetGroupCount` above `RequiredSamples * SyncStep` both
  hold, and the theorems are about a job whose first synchronisation is refused (see the
  second observation of section 3); they say most where the two are equal, as in
  `StrictAsync.cfg` and `StrictAsyncLive.cfg`, which satisfy both hypotheses and check the
  same properties.

  Outside `Tied`, on-policy training can be lost, which a failed proof attempt showed and TLC
  confirmed: with a quota of three, a window of two and one place in `pending_queue`, the
  monitor decides to lift the pause, the trainer's `pause()` goes by, and the monitor, next
  with the lock, lifts the new pause and lets a task generate with the old weights. And
  `BoundedStaleness` is about the job before its final validation: `update_param_version`
  without a pause then resets the count to `len(active_tasks)` while samples of the window are
  still on their way.
* `CircuitBreaker_proofs`. Every report keeps the types and trips in time
  (`ReportFacts`), whatever the breaker's state when it arrives. `BreakerLosesNoSlot`
  needs `ProbesAreOut`: a probe is a request that is out, and there are none unless the
  breaker is half open; hence an admission adds one to both sides of the inequality
  and a report or a leak takes at most as much from the right as from the left.
  `BreakerTypes` is the run's `TypeOK`.
* `ProviderCalls_proofs`. Of the scheduler, `WithinCapacity` and `NobodyOversleeps` need `Placement`:
  a request is in the heap or with one worker, in agreement with the states of its
  caller and worker, and a worker leaves only a drained scheduler. `Numbered` (no
  sequence number twice in the heap) makes the heap's order total, from which
  `SchedulerUrgentFirst` follows for the step that takes a request.
  `SchedulerLosesNoWakeup` and `SchedulerAbandonsNothing` are the safety half of "every
  call returns".
  Of the calls above it: entries are exactly the calls that lead (`LeadersAreEntries`),
  their keys differ (`KeysAreUnique`), and whoever follows has a leader that leads or
  completes. `CallsUseScheduler`: a behaviour of
  `create_text` is one of the scheduler beneath it, so that the scheduler's theorems hold
  here too (`CallsKeepScheduler`). That the scheduler's answer or refusal finds a call that
  is waiting for it rests on the scheduler's `Placement`.
  `SharesRequests`, `EntriesAlwaysPending` and `FollowersAlwaysHeld` are the run's properties.
* `TokenBucket_proofs`. `BucketKeepsRate` needs more than its statement: the tokens left,
  refilled up to now, and those taken since the observer came are together within a
  bucket and the time that passed.
* `SyncTraining_proofs`. `CheckpointSurvivesKills`, for two or more kept: while saving, the
  tracked step is the newest of this process's saved paths or older than all of them, so
  that neither removal reaches it. It does not say that every kill can be resumed from: one
  that cuts the write of the tracker makes the restart raise. It says that this is the only
  one, and that the checkpoint being tracked is then whole on the disk (`TornIsBesideWhole`),
  for which the number of steps must be within its bound (`StepsSuffice`). `EveryBatchOnce` ties the position of the dataloader to
  the number of batches seen modulo the epoch, in memory and in each
  complete checkpoint; it rests on the first theorem for what a resume loads.
  `ReturnsWhenDone` also needs where the step count stands in its epoch: epoch, dataloader
  position and number of batches agree by a division, in memory and on the disk, except
  after resuming a checkpoint that was written at the end of an epoch, where the code
  enters the next epoch with a dataloader that has nothing left to read.
* `GroupEvaluation_proofs`. `RewardsFollowTexts` holds whatever the verifier claims: what it
  scores is a permutation of the group's answers (`ItemsAreShuffled`), each score so far is
  a claim for the answer at its place (`ScoresAreClaims`), no two rollouts of a group have the
  same index (`IndicesDiffer`), so that the place a score is restored from is the rollout's
  own. `RewardsAreJudged` is the same for a verifier that adds up correctly
  (`Miscounted = {}`; otherwise finding 4 refutes it). `ControlAccounted` rests on
  `MergeAccounts`: the controls of disjoint sets of groups merge into one that accounts
  for both. The samples are merged a step at a time, as the loop of
  `assemble_batch_from_scored_rollout_samples` does, so that the induction is over steps.
* `TeacherIndexBuild_proofs`. While a build runs, every line is of its teacher
  (`OneTeacher`). Unless a request failed or a line was broken, every key is in the file,
  in flight, or still to be read (`ExitZeroIsComplete`). While nothing was killed, what is
  in flight or to be read is not in the file, so no key is written twice
  (`InterruptedResumes`, for answers that are not fragile).

## 6. Not modelled

* The strings: prompts, JSON repair, the parsing of rubrics, the estimate of a request's
  tokens; the normalisation of scores and the rates of the reward control.
* The assembly of tensors into a batch and the expansion of teacher rows; the lookup in the
  teacher index by uid and prompt, and the script that filters a parquet by it.
* The non-strict message queue, which ROPD's configuration does not use.
* `shutdown(wait=False)` and the queue metrics of the scheduler, which nothing calls;
  a provider with the scheduler disabled; payloads without a fingerprint.
* The runtime's shutdown after the training loop (`_shutdown_runtime`), checkpoints of the
  strict-async mode, partial rollout (off in ROPD's configuration), logging and metrics.
* In the sync trainer: the critic, asynchronous saves, HDFS, `resume_path`, validation.
* `BlackOPDPipeline`: only `build_ropd_pipeline` constructs it, which nothing calls.
* Vendored verl: models, kernels, workers, single controller, the other experimental
  policies and algorithms. These are most of the repository's lines, and what is in
  them is numerical or GPU work, or a framework's plumbing, without a protocol of ROPD's.

## 7. Plan

Done: the window protocol and its composition; the provider's scheduler, sharing, breaker
and token buckets; the evaluation of groups and the merge of reward control; the teacher
index; the synchronous trainer and its checkpoints; the proofs of section 5. What would come
next, in this order:

1. Shutdown of the strict-async runtime after each way of ending its loop, and the
   checkpoints of that mode once a resumed coordinator agrees with its trainer.
2. The message queue and the non-strict pipeline: dropped samples, staleness, shutdown.
3. Proofs: what bounds a wait (the scheduler's and the breaker's liveness has safety halves
   that are proved; the ranking arguments behind the rest are not stated), and on-policy
   training outside `Tied`, for the configurations in which it holds.
