# A verification project for the Lean theorem-prover training code

TLA+ models of the parts of this repository whose correctness depends on the
order in which things happen, the TLC runs that check them on small instances,
and TLAPS proofs of what holds for every size. Paths below are relative to
`src/`; `P` stands for `lean_prover/lean_training`, `E` for
`experiments/dynamic_grpo_v2_1_2`.

`PROJECT.json` lists components, runs, mutants, the source lines of every
definition, findings, hazards and theorems. To repeat a result:

    tlc -workers 2 -config PoolFaults.cfg MCVerificationPool
    tlapm VerificationPoolProofs.tla

## 1. Inventory

| Component | State it keeps | Operations | What is hard | Model |
|---|---|---|---|---|
| Verification pool, `P/verification/pool.py` | task queues, one result queue, spool directory, `in_flight`, `task_retries`, `worker_generations`, `buffered_results` | `start`, `run_batch` (`submit`, `drain`, `accept`), `_monitor_workers`, `_restart_worker`, `close`; `worker_process_loop` | processes that die, raise or hang at any point; messages of replaced processes; bounded queues in both directions; retries | `VerificationPool`, `PoolWorker`, `BatchVerification` |
| Hard-timeout pool, `E/pool_hard_timeout_e2.py` | the same, plus `in_flight_started` | the same, plus `_hard_timeout_worker`; serial warm-up; put-back loop | a wedged RPC whose heartbeat lives on; a deadline racing a late result | `HardTimeoutPool` |
| Pantograph verifier, `P/verification/pantograph.py` | one Lean server per worker | `verify`, `check_source`, restart | a task that kills the server that the next one uses | `PantographVerifier` |
| Persistent service, `E/persistent_pantograph_service.py`, reward function of `E/vendor/grpo_remote.py` | one long-lived pool, one client at a time | `serve`; `run_batch` and `snapshot` over a socket | a run that is killed and started again while its service works on | `PersistentService` |
| Two-phase generate/verify, `E/grpo_two_phase_bf16.py` | frozen shards, chunk files, receipts JSONL, manifests | `freeze_shards`, `generate_shard`, `audit_generations`, `verify_generations` | crash and resume between any two writes; torn lines | `TwoPhase`, `ReceiptLog` |
| Benchmark pipeline, `P/evaluation/benchmark.py` | JSONL stores, manifest, pending sets | `run_pipeline`, resume | generation overlapping verification; results that arrive while submitting; crash and resume | `BenchmarkRun` |
| Expanded validation, `P/evaluation/expanded_validation.py` | none | restore rows, pass@k, paired tests, gates | rows matched by text after a rebuild; off-by-one in gates | `ExpandedValidation` |
| Dynamic cycle controller, `E/dynamic_cycle_v2.py`, `E/dynamic_cycle_controller.py` | cycle directories, receipts, history | `freeze_cycle`, `bind_receipts`, `plan_topup`, `finalize` | several files written per step; files of other cycles and policies on disk; a step repeated after a crash | `DynamicCycle` |
| Static rollouts, nine scripts of `E/` from `select_rollout_pool.py` to `expand_training_budget.py` | files handed from one to the next | select, shard, top up, merge, route, expand | each relies on what the others wrote | `RolloutBanks` |
| Group rewards, `E/adaptive_grpo_core.py`, `E/dynamic_cycle_v2.py` | none | problem weight, rank factors, centring, admission of a group | ties, missing scores, groups of 8, 16 and 32 | `RewardShaping` |
| Adaptive trainer, `E/adaptive_trainer.py`, `E/grpo_adaptive_remote.py` | window scale, checkpoint directories | train step, save, resume, split cycles | a checkpoint of several files; replayed groups; state outside the trainer's own | `AdaptiveTrainer` |
| Verified dataset, `P/data/verified_builder.py` | result cache, role files | reconstruct, verify, select, write | a build repeated after a crash or an upgrade | `VerifiedDataset` |
| SFT pipeline, `P/sft_pipeline/*` | the training file it is bound to | attestation and projection checks, sharded epoch | rows lost or repeated between ranks | in `VerifiedDataset`, `DataPreparation` |
| Data preparation, `P/data/cli.py`, `preparation.py`, `training.py` | corpora, manifests | normalize, verify, divide, write for SFT, GRPO, unified | repeated identifiers; files of two builds; lexical scans | `DataPreparation`, `LeanScanner` |
| Corpus audit and manifests, `P/data/leandojo_v2_dataset/*`, `random_manifest.py`, `check_data_leakage.py` | none | de-duplicate, leakage levels, samples, overlap policy | copies under other names; quotas when groups are short | `CorpusAudit` |
| LeanDojo adapters, `P/data/adapters/leandojo.py`, `leandojo_v2_current.py` | none | join, quarantine, duplicate check, reservoir | broken and repeated traces | `TraceReconstruction` |
| Proof backends, `lean_prover/backends/*` | states of a search, one server | start, apply, release, close, `tactic_path` | state numbers repeat after a restart | `ProofSession` |
| GRPO pipeline package, runtime resources, context builders, scripts, containers, recorded results | | | | not modelled, section 11 |

The pool is the centre: the benchmark, the two-phase verifier, the dataset
builders, the GRPO reward function and the persistent service call `run_batch`
(or `submit` and `drain`) and assume that every task comes back exactly once or
that they are told otherwise. Around it runs one loop: data preparation writes
what is trained; the controller freezes a cycle; the two phases generate and
verify its screen; the trainer trains its schedule with rewards from the
service; the history of the cycle decides the next one.

## 2. Plan

In this order, and all written: the pool and what it promises; the hard-timeout
variant; the two phases with the promise `ReceiptLog`; the benchmark over the same
promise; the dynamic cycle; the adaptive trainer; the persistent service; the
verified dataset with the SFT epoch; data preparation with the verifier of one
worker; the pure algorithms (`RewardShaping`, `RolloutBanks`, `CorpusAudit`,
`TraceReconstruction`, `ProofSession`, `LeanScanner`, `ExpandedValidation`); then
the proofs, one module `...Proofs` for each component they are about. The planned
model of runtime resources was dropped: their one decision is to stop a run, which is
a crash in the models.

What is left: early stop of the benchmark, and the pool that fails to start there.

How modules are joined: `VerificationPool` extends `PoolWorker`, `HardTimeoutPool`
extends both; `DataPreparation` extends `PantographVerifier`; `VerificationPool`
and `HardTimeoutPool` implement `BatchVerification`, `TwoPhase` and `BenchmarkRun`
implement `ReceiptLog`. The pure modules are checked by the `ASSUME`s of the MC
module they belong to, which TLC evaluates over all inputs listed there before it
starts the run.

## 3. The verification pool

### 3.1 Modules

`PoolWorker` is `worker_process_loop` and what it shares with its coordinator:
the task queues, the result queue and the spool directory. A process moves
through `booting`, `idle`, `loaded` (dequeued, `started` not yet emitted),
`verifying`, `failing` (an exception is on its way to the `fatal` message),
`stopping` and `exited`; `hung` is a Lean call that never returns.

`VerificationPool` extends it with the coordinator, which is one thread. `pc`
says where that thread stands:

| `pc` | code |
|---|---|
| `down`, `returned` | before `start`, between two calls of `run_batch` |
| `start` | the loop of `start()` |
| `batch`, `put` | the `for task in tasks` loop of `run_batch`, the put loop of `submit` |
| `drain` | `drain()` reading messages; `caller` says from where it was called |
| `monitor` | `_monitor_workers`, at worker `scan` |
| `requeue` | `_restart_worker` inside its put; `site` says where it returns to |
| `accept` | `accept` over the results just drained |
| `wait` | the final loop of `run_batch` |
| `close`, `join`, `closed` | `close()` |

One action is one step that another process can observe: reading one message is
one action (`ReceiveWarmup`, `ReceiveStarted`, `ReceiveResult`, `ReceiveFatal`,
`ReceiveDone`, `ReceiveStale`), and everything the handler does in answer to it,
`_restart_worker` included, belongs to that action up to the put that may block.

`BatchVerification` is what a caller of `run_batch` may rely on: on_result at
most once for each task of the batch and for nothing else, and a call that
returns without fatal errors has delivered all of them. `DeliversOnce` says that
the pool implements it, through `submitted <- expected` and `delivered <-` the
tasks of `results`.

`HardTimeoutPool` extends `VerificationPool` with the actions in which
`pool_hard_timeout_e2.py` differs, and reuses the rest: serial warm-up
(`SerialWaits`, `SerialAdvances`), `_restart_worker` that spawns before it puts
back (`ReplaceWorker`, `PutBack`), the deadline (`DeadlinePassed`), and `drain`
that hands over `buffered_results` (`HandsOver`, `FullHandsOver`).

The invariants that the proofs need are definitions of the models themselves
(`TypeInv`, `StaleInv`, `AccountInv`, `CopyInv`, `SpoolInv`, `DeliveryInv`, `StrandInv`,
`LogInv` at the end of `VerificationPool`, `SpawnedInOrder` of `HardTimeoutPool`), so that TLC can check
them; the proofs about both pools are in `VerificationPoolProofs`.

### 3.2 Abstractions

- A task is the pair of its problem and attempt index; the JSON file that carries
  its content is its membership in `spool`. Results keep their status only.
- The feeder thread of a `multiprocessing.Queue` is merged with the put, and the
  lock the queue's ends share is not modelled: a process killed inside the queue
  is outside the model.
- Time is left out. A time-out that matters (stale heartbeat, start deadline, a
  slow task past its deadline) is an action that may happen when its other
  conditions hold; each use counts as one fault. Heartbeat messages are dropped.
- Killing a process always succeeds. A closed pool is not used again, and every
  caller closes a pool that raised.
- Keys are distinct within a batch, as the code checks. That they are distinct over
  the batches of one pool (`DisjointBatches`) is what the callers see to; the runs
  have such batches, and the theorems that need it say so (section 9.1).
- `MaxFaults` bounds crashes, exceptions, hangs and time-outs together. It is the
  only bound: everything else (restarts, retries, queues) is bounded by the code.

### 3.3 Runs

| Run | Instance | What it shows |
|---|---|---|
| `pool_faults` | 2 workers, queues of 2, two batches over three tasks, 2 faults, 1 restart, 1 retry | no deadlock; types; one live copy of every task; `in_flight` accounted for; spool files present whenever needed; no old message beside a task in flight; the promise of `run_batch` |
| `pool_healthy` | queues of 1, no faults | every batch returns (under fairness), none is stranded, cancellation follows a reported success |
| `hard_timeouts` | the hard-timeout pool, 2 workers, queues of 1, 2 faults, 1 restart, 1 retry | `in_flight` accounted for and the promise of `run_batch`, also for results drained inside `submit()`; a wedged worker is ended by the deadline; a dead one is replaced, unless the coordinator stalls while it puts a task back (`PutBackStalls`) |
| `hard_loses_results` | 1 worker, three attempts of one problem, no fault | the disagreement of section 10 |

Two workers are what it takes for shards, monitor passes and canceled problems to
interact; two attempts of one problem and a queue of one make a put meet a full
queue while its shard's worker is busy or dead; two messages in a result queue let
a "done" be read long after its worker died; two faults allow the failure of a
replacement, and with one restart and one retry the limits themselves are
reached. `pool_faults` never fills a task queue, so nothing can block there and it
is checked for deadlock. Full queues together with faults are met in
`hard_timeouts`, where the code can really stop (section 10): a second fault while
the task of a first worker is put back is what it takes. `WorkerReplaced` names
that state as its one exception and the liveness of everything else is checked, so
deadlock checking is off there. The blocking put of the base pool is in no run:
with queues of one and one fault `MCVerificationPool` ends in a deadlock, as the
code does.

Fairness: the coordinator is a loop that always takes its next step, and a
process that is not hung or dead continues (`WF`). Faults and time-outs are never
fair, except that in `HardTimeoutPool` the deadline of a wedged task is looked at
again and again while the clock advances, hence `SF` for `WedgedTimesOut`.

### 3.4 One task in a worker, and a search

`PantographVerifier` is what `verify` makes of one source: refused imports, the
check, the replacement of a server that is found dead and the second check. Lean's
answer is the parameter `Reaction`. `DataPreparation` (section 8) is composed with
it, so that one record's dead server meets the next record.

`ProofSession` is the proof backend of a search. Its operators are applied in
every sequence of five calls (`MCPersistentService`): paths and liveness of a
handle are right while one server lives. After `close` and a new `start` numbers
repeat, and a handle of the old server is taken for a new state
(`StaleIsMistaken`, section 10).

### 3.5 The persistent service

`PersistentService` stands between two programs that live differently long. A
training run (`Launch`, `Kill`) is killed as a whole and starts again from the
first row of its schedule; a service with the pool behind it goes on.

| Part of the model | code |
|---|---|
| `Snapshot`, `Started`, `RunBatch`, `Score` | one rank: `prewarm_pantograph_workers`, `__call__` of the reward function, `PersistentVerificationPool.run_batch` |
| `Boot`, `Accept`, `ReplySnapshot`, `Submit`, `ReplyBatch`, `Stop`, `Exit` | `serve` and the `run_batch` it calls |
| `Take`, `Check`, `Dies`, `Drain` | the worker process and its death, `drain` |
| `DeadReplaced`, `StaleHeartbeat` | `_monitor_workers` with `_restart_worker`, for a dead worker and for one judged stale, whatever of its messages is still unread |

The pool is the part of section 3 that outlives a batch: one worker, its task in
flight, generations, retries, queues and task files. Tasks get their key from a
counter that starts at zero in every process, as in the code: this is how a late
result of one run comes to carry the key of another. `TasksFor` is the part of a
batch that a rank sends to one service, and `Requests` the connections a service
holds: the one it serves and those that wait to be accepted. `pool[s].lost` is a
history variable: the keys that went with a worker whose `started` was not read,
which the coordinator cannot put back because it does not know of them. A service
that waits for one is `Stranded`.

| Run | Instance | What it shows |
|---|---|---|
| `service` | 1 service, 2 ranks, client mode `rank`, batches of one, one batch, two lives of the run, 2 faults, 1 retry, 1 restart | a completion is rewarded by its own verdict, except on a replaced worker (section 10); a rank that waits is connected, no reply lost or read twice; every batch is answered or its run ends, unless its service is `Stranded` (section 10) |

Two ranks on one service make a connection wait; two lives let a service answer
somebody who is gone, and two faults let a worker be replaced and the owner stop
the service in one behaviour. Fairness (`FairSpec`): each rank, each service and
its worker take their next step, and the monitor of a service that waits sees that
its worker is dead; runs are not started again for ever, nothing is killed in
fairness, and a heartbeat need not be judged stale. Deadlock checking is
off: a service that was stopped ends.

## 4. Two-phase generation and verification

`ReceiptLog` is what a reader of a rollout's output relies on: every candidate
gets one verdict, recorded verdicts are never lost or changed, and a summary
counts exactly them once they are complete.

`TwoPhase` is `grpo_two_phase_bf16.py`:

| Part of the model | code |
|---|---|
| `Generate`, `GenerateWindow`, `WriteChunk`, `CompleteShard` | one process per shard in `generate_shard`: list the missing problems, generate a window of them, write a chunk file each, write the report with the hashes |
| `AuditGenerations` | `audit_generations` |
| `StartVerifier`, `LoadReceipts`, `ReadRows` | the start of `verify_generations`: open, `_load_receipts` with the counters, `_generation_rows` |
| `Skip`, `RecordRejected`, `AddToBatch`, `WalkEnds` | one candidate of the walk over the generation rows |
| `OnResult`, `RunBatchReturns` | the results of one `run_batch`, in any order, each recorded as it arrives |
| `Summarize` | the checks after the walk and the reports |
| `KillGenerator`, `StopVerifier`, `CutReceipt` | a process killed anywhere, the last inside the write of a receipt |

Files written through `atomic_write_text` are there or not there. Only
`receipts.jsonl` is appended to, and `tail` says how its last line ends: `ended`;
`unended`, the object is there but not its newline; `cut`, an object that does
not parse; `joined`, two objects on one line. The content of a chunk is named by
the run that generated it, which is what its hash would tell apart. `rows` is the
snapshot the verifier works from while generators may be started again. The pool
is what `BatchVerification` promises; a batch that fails raises, which is the same
as being stopped.

| Run | Instance | What it shows |
|---|---|---|
| `two_phase_resume` | 3 problems on 2 shards, pass@2, one rejected candidate, every process started twice and stopped anywhere, one crash that cuts a receipt | reported shards are complete and stay so; the audit stands; receipts are unique and about the chunk on disk; the phases implement `ReceiptLog` |

Two shards of unequal size, batches of two that the walk does not fill evenly, a
rejected candidate between verified ones and a second run of every process are
what makes a resumed run meet each state a first one can leave. Deadlock checking
is off because the number of runs is bounded: everything may be stopped for good.
No liveness is claimed: nothing in the repository restarts a run.

## 5. The benchmark pipeline

`BenchmarkRun` is `run_pipeline` of `benchmark.py`, with the output directory of a
run and the runs with `--resume` that follow it. Its loop is `pc`: `generate` and
`submit` are one turn of the generation loop (`GenerateBatch`, `RejectGenerated`,
`SubmitTask`), `drain` is the drain after each batch, `wait` the final loop
(`DrainWaiting`, `Stall`, `WaitEnds`), `flush` the rows written at the end, `down`
everything between two runs. `record_result` is one action up to the attempt row
(`RecordResult`), then one for each further file (`WriteSuccess`,
`WriteProblem`), since a run may be killed between the writes. `StartRun` reads
back what survived: complete problem rows, attempt rows, the keys seen.

The pool is reduced to what `submit` and `drain` let their caller see: queued
tasks, results that can be drained, results that `submit` drained itself
(`buffered`), a result that comes twice, a task that is lost, a fatal error. Left
out: early stop (off by default), a pool that fails to start, a pool shared
between calls, the per-problem shards and their archive, the manifest (taken as
unchanged), and every derived number but the counts of successes and failures.

| Run | Instance | What it shows |
|---|---|---|
| `bench_resume` | 2 problems, pass@2, one rejected completion, three runs killed anywhere, one duplicate result | one row per attempt; problem rows say what the run reports; the pipeline implements `ReceiptLog` |
| `bench_interrupted` | 1 problem, pass@3, queue of 1, two runs, one cut line, one fault, one duplicate | every run ends; one that reports no fatal error reports `pass_k` attempts of every problem, or the row of an earlier run with a success among fewer (`EndedEarly`, section 10) |

Three runs let a run meet what a resumed run left; a queue of one makes the second
submission wait; two runs with a fault let the second find the partial row that
the first, having failed, flushed. `EndedEarly` is that case and no other: without
it TLC violates `ExactHistogram`. `bench_resume` has no fatal errors, because with
them problem rows need not be current (section 10); the theorems of section 9.3
name exactly what these properties need of the pool. Fairness: the run is one loop
that takes its next step (`WF` of `Progress`), and the workers of a pool that has
not failed verify what is queued (`WF`); faults are never fair. Deadlock checking
is off because the number of runs is bounded.

`ExpandedValidation` has the functions that compare two models. `MCBenchmarkRun`
checks them, with 2 statements in place of 500: rows are restored by a bijection
or not at all; pass@1, pass@2 and pass@4 rise; the paired differences of two
models agree with their rates and are the opposite with the models exchanged; the
exact McNemar test is symmetric, at most one and falls with the imbalance; every
batch has a seed of its own.

## 6. The dynamic cycle

`DynamicCycle` is one operator's directory tree under
`dynamic_cycle_controller.py`, driven as in `run_dynamic48_two_new_screens.sbatch`.

| Part of the model | code |
|---|---|
| `Freeze` (`freeze_cycle`) | `freeze_cycle` with `history_rank`: the pool that ranks best in the history of the last cycle |
| `Bind` (`bind_receipts`) | `bind_receipts` of a stage whose generation and verdicts are inputs, of any policy up to the present one |
| `Plan` (`plan_topup`) | `plan_topup` over any receipt files that exist |
| `Finalize`, `WriteReport`, `WriteHistory`, `RewriteReport` | `finalize_cycle`: checks, routes, buckets and layout, then its files one by one |
| `Crash`, `RemoveDir` | a job that dies in `finalize`, and the operator who removes a directory without report |
| `Train` | the training of a schedule that has its report; the policy moves on |

Commands other than `finalize` write one file that is read later and count as one
step. A problem is a model value; a receipt file is its cycle, stage and the
successes of each problem with the policy that generated them. Where the code
orders by a hash, the model takes any order; `Round` is Python's rounding half to
even, and `Layout` the loop that spreads a schedule over its steps.

| Run | Instance | What it shows |
|---|---|---|
| `cycle_crash` | 3 problems (symmetric), screens of 2, one slot, top-ups of 1, two cycles, two policies, one crash; 0, 1 or 5 successes of 8 | a schedule rests on receipts of its own cycle and policy; routes follow the evidence, mastered problems are never trained, fillers only when no active one is left; unseen problems are screened first and a cycle counts once |

Three problems and screens of two are the least for which the second pool must
repeat a problem, and one slot the least that makes a schedule choose; 0, 1 and 5
lie on both sides of each limit of the routes. Liveness is not claimed: every step
is a command somebody has to give. `MCDynamicCycle` also checks `Layout` for up to
4 steps of 3 problems: every step is full, and a bucket is spread as evenly as can
be.

`RolloutBanks` has the static rollouts that the cycle replaced, one operator for
each script; `MCDynamicCycle` runs whole rounds over 3 problems with every
combination of early, late and absent successes (`RoundIsSound`), and checks the
strata, the selection of unseen problems, the budget, the shards and that the
chances behind the priority add up. Priorities are compared by 16 decimals of the
exact fraction.

## 7. The adaptive trainer

`AdaptiveTrainer` trains cycles in segments; each is a process that resumes from
the checkpoint of the last one. `Microstep` is one micro-step, which generates a
group or replays one (`Generate` with `Observed` is `_generate_and_score_completions`
with `LaggedWindowScale`); `OptimizerStep` is the update with `on_step_end`;
`WriteFile` writes one file of a checkpoint in the order of `SaveOrder`, `EndSave`
ends it, `TailSave` is the save at the end that is skipped when the directory is
there; `Start` is the driver, which skips finished segments, and the checks of a
resume; `Crash` may come anywhere. The scale is named by the windows it was
committed from, a file by the save that wrote it. Gradients and the ranks'
collectives are left out.

| Run | Instance | What it shows |
|---|---|---|
| `adaptive_resume` | 2 problems per update, 2 iterations, 1 micro-step per problem, `save_steps` 2, segments (cycle 1 to step 2), (2 to 3), (2 to 4), 3 crashes | all groups of an update use the one scale committed before; a checkpoint that a resume accepts is of one step in all its parts |

The stop at step 3 is a boundary that `save_steps` skips, as 108 is in the driver;
two iterations make groups be replayed; three crashes can leave a directory half
written, half overwritten and then resumed. No liveness: nothing restarts a
trainer.

`RewardShaping` has the reward of one group in exact integers. `MCAdaptiveTrainer`
checks it over groups of 8, 16 and 32 with scores that tie, differ or are missing:
a group teaches something exactly when it is effective, then every success gains
and every failure loses, and the less likely success never gains less; weights
fall with the success rate across group sizes; a scaled step stays within a full
one; an admitted group is the eight attempts of one problem.

## 8. Data

### 8.1 The verified dataset and one epoch

`VerifiedDataset` is a build of `verified_builder.py`: `Begin` (reconstruct,
de-duplicate, subtract the results of this environment), `Persist` (one answer of
the pool, in any order), `PoolFails`, `Select` (attest, filter, balance, slice),
`WriteFile`, `EndBuild`, `Crash` (a line or a file cut at a row or inside one) and
`Change` (another toolchain or parquet between two builds, after which the output
directory is that of no finished build). `StartTraining` and
`TrainStep` are the checks of `sft_pipeline/trainer.py` and the epoch of
`FixedManifestSampler` over the ranks. The pool answers the truth (`Compiles`) or
a failure.

| Run | Instance | What it shows |
|---|---|---|
| `verified_training` | 9 tactic rows of 7 records (long, short, repeated, disproved, cut), two environments, at most one copy of a proof, 2 ranks, one crash, one change | every trained row compiles in the environment it names; every record of a finished build stands in `verified.jsonl` or in `quarantined.jsonl`, in one of them only, and every statement has one role; nothing is verified twice in one environment; an epoch takes every row once and leaves no rank idle |

The instance has one revision of the parquet. With two (`TwoRevisions` in
`MCVerifiedDataset`) `AttestedTraining` fails: results are found by record id, so
a proof that changed under its id is attested by the old result (section 10). What
the sources have to be for a property to hold is therefore a definition
(`IdsNameContents`, `ContentsKeepIds`, `DistinctIds`), evaluated for both instances
when the run starts, and the hypothesis of a theorem (section 9.6).

`CorpusAudit` and `TraceReconstruction` hold the algorithms that decide on rows:
de-duplication, leakage, samples and manifests; the join of traces with the
corpus, quarantine and reservoir. `MCVerifiedDataset` checks over corpora of
copies, renamed theorems and broken traces that a copy is never lost with its
proof, that a leak is removed under every name it has, that quotas are met and
subsets nest, that a clean record is a whole proof, and that the reservoir takes
every row for the same number of draws.

### 8.2 Preparation

`DataPreparation` is `data/cli.py` with what it calls: `Build` (normalize,
disambiguate ids, exclude overlaps), `Judge` (a worker takes a task,
`PantographVerifier`), `AllJudged`, `Divide`, `WriteFile`, `Crash`, and `Train`
(the projection check of the SFT trainer). Adapters are reduced to the shape of a
row, a proof to its words; `Completion` and `Assembled` are what
`normalize_sft_completion` and `compose_lean_theorem` make of them.

| Run | Instance | What it shows |
|---|---|---|
| `data_preparation` | 9 crawled rows, 4 prompts, two attested sources; six commands for SFT, unified and GRPO data; two builds, one crash, 2 workers; a source that kills its server and one that times out | what is trained was accepted by Lean here or at its source, and in the words it is trained in unless `normalize_sft_completion` reworded it; the roles of a finished build are disjoint and of the asked size, with repeated ids; nobody is refused for a server another record brought down |

Two builds let the second find the files of the first, one crash may leave them
mixed, and two workers let one be down while the other goes on. `Reworded` is the
exception in `TrainsOnVerified`: a proof that is not led by `by` is verified in one
form and trained in another. The instance has such a row, a bare `simp`, which
`LeanSays` accepts as it is verified and rejects as it is trained; without the
exception TLC violates the property (section 10).

`LeanScanner` is the scan that separates a statement from its proof and finds
placeholders, character by character. `MCDataPreparation` checks over all texts of
up to 4 characters of the alphabet of comments, strings, brackets and assignments
that a composed declaration is split where it was composed, and that a placeholder
is found after every text that ends outside comments and strings.

In both runs nothing is claimed to happen eventually, and deadlock checking is off
because the number of builds, crashes and changes is bounded.

## 9. Proofs

Every theorem is about all values of the constants: any number of workers, tasks,
problems, ranks, runs, crashes and faults. The assumptions are those named on the
constants in `PoolWorker`, `VerificationPool`, `TwoPhase`, `BenchmarkRun`,
`DynamicCycle`, `AdaptiveTrainer`, `VerifiedDataset`, `PersistentService` and
`DataPreparation`, which TLC evaluates in every run. Some theorems have a hypothesis more; the text
below says who sees to it. Each was found to be needed (TLC violates the property
without it), with one exception, which section 9.1 names.

### 9.1 The pool (`VerificationPoolProofs`)

| Theorem | Property | Inductive invariant, and why it is needed |
|---|---|---|
| `TypeCorrect` | `TypeOK` | `TypeInv`: that a process at work holds a task, and that `_restart_worker` knows where to return to |
| `StaleNeverMeetsSuccessor` | `StaleBeforeInFlight` | `StaleInv`: for each worker the result queue is sorted by generation, no message is from the future, and `in_flight` is popped before the generation advances, across the put in the middle of `_restart_worker` |
| `PoolDeliversOnce` | `DeliversOnce` | `DeliveryInv`: a batch is split into what was submitted and what is left to submit; `completed` are the tasks of `results`; the final loop has nothing left |
| `InFlightTrusted` | `InFlightAccounted` | `AccountInv`: what is said of a task in flight holds already of a task whose `started` is not read; a worker that was never spawned has sent nothing |
| `SingleCopyKept` | `SingleCopy` | `CopyInv`: everything about a task happens at its shard, a task still to be submitted has left no trace, and queue, process, messages and the coordinator's hands have no task in common |
| `SpoolBackedKept` | `SpoolBacked` | `SpoolInv`: a result answers the `started` before it, so that the file it removes is its own, and a task whose `started` is unread has its file |
| `NothingStrandedWithoutFaults` | `NoStrandedBatch`, while `faults = 0` | `StrandInv`: every result awaited is on its way (`NothingLost`: in `submit`'s hands, queued, at work, sent, drained or buffered); what is drained or buffered is handed on before the coordinator waits (`HandedOn`); nobody failed yet (`Calm`) |
| `CancelsFollowSuccess` | `CanceledAfterSuccess`, while `faults = 0` | `LogInv`: below |

`PoolDeliversOnce` is the refinement of `BatchVerification`: the abstract state is
`submitted <- expected`, `delivered <-` the tasks of `results`, and every step is a
delivery, a call, a return or a stutter.

`ReceiveResult` believes results of old processes and unlinks the file of whatever
is in flight at their worker; `StaleNeverMeetsSuccessor` is why that never hits the
successor's task, and `SpoolBackedKept` rests on it. The lemmas about
`_restart_worker` state once, as a relation between two states (`Restarts`,
`FatalRestarts`, `MonitorRestarts`), what a replacement does to a worker, its queue
and the coordinator's hands; the invariants are shown to survive the relation and
the actions are shown to satisfy it.

`SingleCopyKept` and `SpoolBackedKept` assume `DisjointBatches`. The reward function
numbers its tasks by `_next_problem_index`, which only counts up
(vendor/grpo_remote.py:585-587); the two-phase verifier and the benchmark hand every
candidate to a pool once. A service whose run was started again does see keys for
the second time: there the hypothesis fails and section 3.5 is the model.

The last two theorems are about a pool until its first fault; with `MaxFaults = 1` TLC
finds both violated: a worker is replaced before its `started` was read, and nobody
knows which task it held; a killed worker's failure is reported before the success of
its retry. `NothingStrandedWithoutFaults` has the hypothesis `DisjointBatches` because
its proof needs `SpoolInv`, which a dequeued task owes its file to; TLC finds the
property true of repeated batches as well.

`CancelsFollowSuccess` orders two reports of `run_batch` that come from one process
through the result queue, the list `drained`, and for those read while `submit` met a
full queue the list `buffered`. The proof takes the four places together as one log,
`results \o buffered \o drained \o` the answers still to be read: an answer that
moves from one to the next keeps its place in it, and a message that is no answer is
an entry that vanishes when it is read (`Keeps`). `LogInv` says of the log that it
has one entry for each task that is no longer with `submit` or a worker, that a
canceled entry has a success of its problem before it, and that a worker whose
`canceled_problem_ids` holds a problem of this batch has sent a success of it. Its
hypothesis `ProblemsApart` says that the attempts at a problem are handed over in one
batch. It is needed: `canceled_problem_ids` is never cleared (pool.py:565), so the next
batch of a pool inherits it, and TLC finds attempts canceled there whose success was
reported to an earlier caller. No caller of `run_batch` sets `cancel_on_success`; the
benchmark does (benchmark.py:1451), with `submit` and `drain` of its own.

### 9.2 The hard-timeout pool (`VerificationPoolProofs`)

`HardTypeCorrect`, `HardInFlightTrusted`, `HardStaleNeverMeetsSuccessor`,
`HardDeliversOnce`, `HardSingleCopy` and `HardSpoolBacked` are the first six results above
for `HardSpec`, the last two under `DisjointBatches` again. Every action that the
pool shares with `VerificationPool` is a step of the latter's `Next`, and its lemmas
are cited; the actions of its own (the deadline, the replacement that runs before
its task is put back, serial warm-up, the hand-over of buffered results) are shown
to keep the same invariants. One conjunct is new, `SpawnedInOrder`: `start()` spawns
the workers one by one and waits for each, so the worker that `SerialAdvances`
spawns next was never spawned and has nothing in the queue.

### 9.3 The benchmark (`BenchmarkProofs`)

- `NoSecondRow` (`AttemptsUnique`): a running process has seen every key on disk
  (`SeenOnDisk`), and a file whose last line is `unended` is not empty, so that the
  row a run loses by appending to it is that one.
- `BooksBounded` (`TypeOK`): `LedgerInv`, every key is left to generate, in the
  hands of the loop, with the pool or seen, in one of these only; the results
  counted and those still to come are at most those expected.
- `HistogramComplete` (`ExactHistogram`) and `RowsSayWhatIsReported`
  (`ProblemRowsCurrent`): nothing is lost, so the ledger is an equation (`ExactInv`);
  an attempt is either among the results of its problem or still on its way
  (`Covered`); rows are written for whole problems and stay current (`WrittenWhole`,
  `RowsCurrent`, `EndedWhole`).
- `PipelineIsReceiptLog` (`OneVerdictEach`): besides, the results in memory and both
  files say the same of every problem (`FilesInv`). Every step records one new
  verdict, publishes the summary, or stutters.

The last three are about the behaviours in which the pool keeps up:
`[]PoolKeptUp`, no task was lost, the pool has not failed and `submit` has drained
no results. `HistogramComplete` shows more of them than `ExactHistogram`: every
attempt of every problem is reported (`WholeHistogram`), and nothing is ended
early. A fatal error makes a run end with partial problem rows, and results that
`submit` drains are read by nobody; both are disagreements of section 10, and with
either TLC violates `WholeHistogram` and the two other properties. The hypothesis
is about what happened, not about sizes: a queue may be full, and faults may be
possible. `PipelineIsReceiptLog` needs `[]NothingLost`, that no line was cut off
either: a verdict whose line is cut is verified again, and may be another one.

### 9.4 Two phases (`TwoPhaseProofs`)

Three layers, each of which uses the one before:

- `GenInv`: types of phase A, a running generator's list is exactly what is
  missing on disk, and a reported shard has the chunks its report hashes. It gives
  `ReportedChunksStay`, and with it `AuditStands`.
- `RecInv`: the rows read are the chunks on disk (`RowsCurrent`), every receipt on
  disk has been seen with its hash (`ReceiptsSeen`) and is about the chunk that is
  there (`ReceiptsBound`). It gives `OneReceiptPerKey` and `ReceiptsFollowChunks`.
- `CountInv`: the counters of a run are those of the file, and it sums up only
  when all keys have been seen. With `RecInv` it gives `ImplementsReceiptLog`, the
  refinement: every step decides one new verdict, publishes, or stutters.

`FilesWellTyped` (`TypeOK`) adds the bounds: a window never exceeds
`generation_queue_depth`, and the position of the walk is explained by `RecInv`.

### 9.5 Cycle and trainer (`DynamicCycleProofs`, `AdaptiveTrainerProofs`)

- `SchedulesRestOnOwnReceipts` (`ScheduleLineage`): every receipt file names the
  policy its cycle froze (`OwnPolicy`), and a schedule directory has the files of
  its own cycle (`DirOK`).
- `UnseenAreScreenedFirst` (`UnseenFirst`): the pool of the current cycle ranks
  best in the history before it (`BestRanked`), and stays so because only the
  directory of the current cycle is ever written (`OneDirectory`). From this
  `AppendedOK` shows that the history with one more cycle is again one in which
  nothing was screened twice while something was never screened (`HistoryOK`): a
  pool that holds a problem seen before would have ranked behind the unseen one.
- `SchedulesFollowEvidence` (`RoutedOnEvidence`): what `Evidence` says of a cycle
  holds of every directory, and all receipts read stay finite and are counted by
  naturals (`EvidenceInv`). The sums over receipts are functions on finite sets that
  `SumsExist` constructs and `SuccessesAre` reads, by a least counterexample and not
  by an induction theorem. `FillsFirst`: `_select_active` leaves a slot free only
  when no active problem is left, because the two rounded quotas together are at most
  the number of slots (`Rounded`); `ActiveFirst` counts from this that a problem that
  is not active gets a slot only when every active one has one.
- `OneScalePerUpdate` (`LaggedScale`): the scale is a function of the optimizer
  step and the micro-step (`InSegment`: the committed windows are those of the
  groups generated so far), and the last group of a window is the last that
  commits to it.
- `CheckpointsWhole` (`ResumableInSync`): what a save has written is a prefix of
  `SaveOrder` (`InSave`), and `trainer_state`, which makes a checkpoint count, is
  the last file but one; the one that follows rewrites what is already there.
  Both rest on `TrainerTypes`.

### 9.6 The verified dataset (`VerifiedDatasetProofs`)

All on `BuildInv`, which says what a build has between its steps (`BuildOrdered`).

| Theorem | Property | Hypothesis on the sources | Invariant |
|---|---|---|---|
| `TrainedWasCompiled` | `AttestedTraining` | `IdsNameContents`: an id names one content in all revisions | `ResultsInv`, a result is about a candidate of some revision; `TruthInv`, an accepted result is true of the content and environment it names, and so is every row of an output, a file and an epoch |
| `NeverVerifiedAgain` | `VerifiesOnce` | `ContentsKeepIds`: a content keeps its id | `ResultsInv` |
| `EveryRecordOneFate` | `OneFate` | `DistinctIds`: the records of one revision have different ids | `FateInv`, the outputs are apart and together hold every record of the parquet (a candidate that did not succeed is quarantined, a record that is no candidate is too), and what is no longer left to write is in its file |
| `EpochTakesEveryRowOnce` | `EpochOnce` | none | `EpochInv`, step k takes the k-th share of the permutation, the shares are disjoint, and the loop ends when they are all taken |

The hypotheses are about the input files. Nothing in the code checks them: ids are
made from the row's own fields, and rows of one id that are not consecutive become
two records (section 10). They are stated of `Revisions`, the set of files that
builds may read, and hold of the sources of the run; `TwoRevisions` breaks the
first, and `AttestedTraining` with it.

### 9.7 The service (`PersistentServiceProofs`)

No hypotheses beyond the constants' own.

- `NoReplyLost` (`WaitsForAnswer`): `ConnInv`, a rank is at most once among the
  connections of a service, what a service works on is the request it accepted, and
  a rank waits only inside a call.
- `VerdictIsOwn` (`OwnVerdict`): `NameInv`, a key and a completion that meet
  anywhere carry the same index and come from a run and a rank that exist;
  `BatchInv`, a service expects exactly the keys that the rank waits for;
  `CleanInv`, while a pool has replaced no worker, everything queued, at work or
  answered belongs to the batch at hand, each task in one place (also one that a
  dead worker still holds, `Holds`), because the service
  reads every result of a batch before it accepts the next connection; `VerdictInv`,
  hence a rank collects verdicts on its own completions or some worker was replaced.

### 9.8 Data preparation (`DataPreparationProofs`)

No hypotheses beyond the constants' own: a source row has an id that is a sequence,
SFT and GRPO data come from one source, unified data from any number, and Lean
answers every declaration in one of its ways. All three on `PrepInv`.

- `TrainedOnVerified` (`TrainsOnVerified`): a row of a train file is `Taken`, that
  is, it is the completion of a source row whose proof Lean accepted here (`Judged`,
  the accepted positions are those whose verdict was asked for and good) or at its
  source, and for a proof led by `by` the completion is the text Lean was given
  (`LineIsTaken`); through `Divide` (`Divided`) and `WriteFile` (`Written`) into `TrainFile`,
  which a crash between two files or another build does not disturb.
- `Innocent` (`InnocentVerdict`): a worker that finds its server dead starts it
  again and gives the task back without a verdict, so only a source that kills or
  times out is refused for it.
- `DisjointRoles` (`RolesDisjoint`): the records of a build have different ids
  although sources repeat them, so the division by id is a partition of the size
  asked for; a GRPO build that excludes the SFT manifest keeps nothing of it
  (`Excluding`).

What a record is made of is decided by loops over rows: normalization with its limit
and its content keys, the joining of several sources, the suffixes that make ids
different, filters. They are recursive functions or the fold of `Keep`. What such a
loop returns is proved by contradiction with a least number of steps
(`LeastNumber`, from the well-foundedness of `<` in the library), which stands in
for the induction theorem that the installed provers cannot instantiate:
`KeepIs` says which rows a filter keeps and in what number, `TakenOK` what
normalization has taken after n rows, `Distinct` that no two have one id.

### 9.9 Model-checked only

- That `HardTimeoutPool` fails `NoStrandedBatch` without any fault, by the run
  `hard_loses_results` (section 10): there is nothing to prove.
- The liveness properties `BatchReturns`, `BatchAnswers`, `RunEnds`, `WedgedEnds`
  and `WorkerReplaced`: liveness under fairness and `ENABLED` are out of reach.
- What the pure modules compute: recursive operators (`ProofSession`) and folds.

## 10. Where the code and its documentation disagree

With a run that finds it:

- `hard_loses_results`: `self.buffered_results.extend(self.drain())`
  (pool_hard_timeout_e2.py:227) extends a list that `drain()` has just replaced;
  results are lost without any fault, and the batch waits for ever.

What follows was met while modelling. Where a property above would forbid it, the
property names the case as its exception, and without the exception TLC violates
it; otherwise no property is about it. The model element that allows it is named
where there is one.

Pool and service:

- A worker that dies between dequeue and the reading of `started` loses its task
  and `run_batch` waits for ever (pool.py:263, 429, 484, against README.md:136;
  `Dies`, `StaleHeartbeat`, and `Stranded`, the exception in `BatchAnswers`).
- The put of a retried task blocks for ever when the dead worker's queue was full
  (pool.py:442-445, `Requeue`); the put-back loop of the hard-timeout pool reads no
  results and can wait for a replacement that waits for it
  (pool_hard_timeout_e2.py:500, `PutBack`; `PutBackStalls`, the exception in
  `WorkerReplaced`).
- `start()` may return although a warm-up failed, because a failed report also
  counts its worker as ready (pool.py:250-261, `ReceiveWarmup`).
- A client killed while it is queued makes `accept()` raise, and the service ends
  (persistent_pantograph_service.py:218-224, against its docstring, `Accept`).
- Two processes that use the same key on a worker that was replaced may get each
  other's verdict (pool.py:251-255, the exception in `OwnVerdict`).
- State numbers of a proof backend repeat after `close`; a handle from before is
  taken for a new state. Its error "parent state was released"
  (pantograph_backend.py:221-224) cannot be reached, since the lineage is kept.

Two phases and benchmark:

- A receipt cut by a crash keeps every later run of the two-phase verifier from
  loading the file (`CutReceipt`, `LoadReceipts`); one that lost only its newline
  is accepted, and the next receipt is written to the same line (`joined`).
- A failed benchmark run writes partial problem rows; the next run takes one with
  a success for complete and reports fewer than `pass_k` attempts (benchmark.py:173
  against 1843-1844; `EndedEarly`, the exception in `ExactHistogram`), and a partial row is never followed by the row of a later
  run that failed too (`WaitEnds`, `FlushRow`).
- Results that `submit` drains are fetched by `run_batch` only; the benchmark never
  reads them and reports a stall (benchmark.py:1628, pool.py:239-241).

Cycle, rollouts, trainer:

- The tail save is skipped when its directory exists, also when a crash left it
  half written: the segment returns without a checkpoint that can be resumed
  (adaptive_trainer.py:273-278, `TailSave`, `Return`).
- A split cycle presents its schedule again from the first row, so rows of the
  first segment are trained twice (grpo_adaptive_remote.py:341, `FirstWindow`).
- The dynamic contract breaks ties of scores by position, the static one averages
  them (`OrderRanks2`, `TieRanks2`).
- `select_rollout_pool.py` writes rows without the fields that
  `build_topup_selection.py` reads; only rows of `build_round56_selection.py` work.
- `merge_history` ignores rows without a history, so the evidence of rounds 5 and 6
  is lost, and a run merged twice counts twice.
- `merge_capped_receipts` accepts top-ups of problems without pass@8 rows; their
  first eight attempts are then taken for the initial ones (`Merged`, `Route`).

Data:

- A torn line of verification_results.jsonl makes every later build raise
  (`Begin`); a crash between role files leaves those of two builds, and a train
  file cut at a row boundary is trained (`Crash`, `StartTraining`).
- Results are kept by record id: a changed proof is attested by the old result
  (verified_builder.py:575-582, contracts.py:36), and records of equal ids that are
  not consecutive share one.
- Statements are checked with `sorry`, whose warning `check_source` counts as an
  error (pantograph.py:115-120), so the default of the command line rejects every
  GRPO and benchmark row; scripts/verify_statement_datasets.py:110-122 works around
  it.
- `normalize_sft_completion` (training.py:470) writes `by exact <tactic>` for a
  body that was verified as `by <tactic>` (preparation.py:837-841), although
  README.md:59 requires a verified target proof (`Reworded`, the exception in
  `TrainsOnVerified`).
- `normalize_records` records a content key before it has checked the row, so a
  refused row hides a later good one, and the key ignores imports and context;
  `deduplicate_training_records` compares what is trained.
- The division goes by id: two proofs of one statement can be on both sides.
- A crash between the train and the validation file leaves files of two builds;
  the trainer binds each to its own manifest only (cli.py:330).
- A GRPO build that is not divided leaves the validation file of an earlier build,
  whose rows were never held against the SFT manifest of today (cli.py:457-486;
  `RolesDisjoint` speaks of the files that the build wrote).
- `train_rejected_output` is shared by SFT and GRPO, and `--train_output` with
  `--grpo_train_output` can never both succeed.
- `_context_closing_lines` does not close a `noncomputable section`
  (preparation.py:1320-1332, 1541).
- `audit_leakage` reviews a row before a later copy of its theorem condemns it
  (leakage.py:117-139), `check_data_leakage` believes a row's own hash
  (check_data_leakage.py:28-35), and `summarize_manifest` reports `evaluation_leaks: 0`
  as a constant.
- The check for duplicate statements of the LeanDojo adapter can only meet rows of
  one source, since a statement contains its record's own name (leandojo.py:505-518,
  735; `DuplicatesAreRepeats`); `quarantine_reason` accepts a last state that
  `_trace_validation` calls open (leandojo_v2_current.py:377-379,
  normalization.py:79-83).
- `grpo_pipeline/rewards.py:15` imports `evaluation/assembler.py`, which the
  repository does not have.

## 11. Not modelled

- The GRPO pipeline package cannot be imported (section 10); the trainer that runs
  is in `E`.
- Runtime resources count device and resident memory; what they read is the
  allocator's, and their one decision ends the run.
- Context builders and field checks are functions of one record over text.
- The inside of a Lean verification, models and gradients, the training libraries,
  how a proof state is printed, bootstrap intervals, the sqlite cache (one keyed
  read and write), command lines, container and cloud files, recorded results.

`PROJECT.json` gives the reason for each component, and under its hazards those that
no property covers, each with why.
