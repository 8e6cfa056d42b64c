--------------------------- MODULE AdaptiveTrainer ---------------------------
(***************************************************************************)
(* adaptive_trainer.py under grpo_adaptive_remote.py: a cycle is trained   *)
(* in one or more segments, each a process of its own that resumes from    *)
(* the checkpoint of the last one and stops at its own step.  A checkpoint *)
(* is a directory written file by file; the process may die anywhere.      *)
(* The driver starts the segments in order and skips those whose last      *)
(* checkpoint has a trainer_state.json.                                    *)
(*                                                                         *)
(* The advantage scale is named by the windows it was committed from.      *)
(***************************************************************************)
EXTENDS Integers, Sequences, FiniteSets

CONSTANTS
    ProblemsPerUpdate, NumIterations,
    MicrostepsPerProblem,  \* num_generations / (world size * batch)
    SaveSteps,             \* save_steps
    Segments,              \* [cycle, stop]: --adaptive_cycle_stop_global_step
    MaxCrashes             \* bound

ASSUME TrainerAssumption ==
    /\ {ProblemsPerUpdate, NumIterations, MicrostepsPerProblem, SaveSteps}
          \subseteq Nat \ {0}
    /\ Segments \in Seq([cycle : Nat, stop : Nat \ {0}]) /\ Len(Segments) > 0
    /\ \A i, j \in DOMAIN Segments : i < j => Segments[i].stop < Segments[j].stop
    /\ MaxCrashes \in Nat

\* make_memory_safe_layout
GradientAccumulation == MicrostepsPerProblem * ProblemsPerUpdate * NumIterations
\* TRL generates once for the micro-steps that replay it
GenerationEvery == MicrostepsPerProblem * NumIterations

Stop(k) == Segments[k].stop
Steps == 1 .. Stop(Len(Segments))

VARIABLES
    ckpt,     \* ckpt[s]: file name -> the save that wrote it; see Absent
    adaptive, \* adaptive[s]: adaptive_grpo_state.json of checkpoint s
    trained,  \* trained[s]: the rows its adapter was trained on
    saves,    \* saves begun so far
    pc,       \* "down", "train", "save", "returned"
    segment, step, micro,
    scale,    \* LaggedWindowScale: [windows, pending]; and groups_seen
    used,     \* scales used by the groups of the current update
    rows,     \* rows the policy was trained on: <<cycle, window>>
    window,   \* the next window of the dataloader
    files,    \* files the current save has still to write
    crashes
vars == <<ckpt, adaptive, trained, saves, pc, segment, step, micro, scale,
          used, rows, window, files, crashes>>
disk == <<ckpt, adaptive, trained>>

Absent == [f \in {} |-> 0]
NoState == [windows |-> -1, pending |-> 0, seen |-> 0]
FreshScale == [windows |-> 0, pending |-> 0, seen |-> 0]
Dirs == {s \in Steps : ckpt[s] # Absent}

\* what validate_initial_or_resume_adapter asks of a checkpoint
Required == {"adapter", "optimizer", "trainer_state"}
\* Mutant of SaveOrder: the adaptive state is written only at the end.
SaveStateLast == <<"adapter", "optimizer", "trainer_state", "adaptive">>

\* _save_checkpoint: super() saves the model through save_model, which writes
\* the adaptive state; the state is written again at the end.
SaveOrder == <<"adapter", "adaptive", "optimizer", "trainer_state", "adaptive">>

------------------------------------------------------------------------------
(* Start and resume                                                        *)

Finished(k) == "trainer_state" \in DOMAIN ckpt[Stop(k)]
Resumable(s) == Required \subseteq DOMAIN ckpt[s]

\* Every cycle presents a new schedule: ignore_data_skip.
FirstWindow(s) == 0

Start(k) ==
    /\ pc \in {"down", "returned"}
    /\ \A j \in 1 .. k - 1 : Finished(j)
    /\ ~ Finished(k)
    /\ pc' = "train" /\ segment' = k
    /\ micro' = 0 /\ used' = {} /\ files' = <<>>
    /\ IF k = 1
         THEN step' = 0 /\ scale' = FreshScale /\ rows' = <<>> /\ window' = 0
         ELSE LET from == Stop(k - 1) IN
              /\ Resumable(from) /\ adaptive[from] # NoState  \* _load_adaptive_state
              /\ step' = from /\ scale' = adaptive[from]
              /\ rows' = trained[from] /\ window' = FirstWindow(from)
    /\ UNCHANGED <<disk, saves, crashes>>

------------------------------------------------------------------------------
(* Training                                                                *)

\* Mutant of Observed: a window commits one group late.
ObservedLate(a) ==
    IF a.pending < ProblemsPerUpdate
      THEN [a EXCEPT !.pending = @ + 1, !.seen = @ + 1]
      ELSE [windows |-> a.windows + 1, pending |-> 0, seen |-> a.seen + 1]

\* LaggedWindowScale.observe_group, and _adaptive_groups_seen
Observed(a) ==
    IF a.pending + 1 < ProblemsPerUpdate
      THEN [a EXCEPT !.pending = @ + 1, !.seen = @ + 1]
      ELSE [windows |-> a.windows + 1, pending |-> 0, seen |-> a.seen + 1]

\* _generate_and_score_completions: the group is normalized before the scale
\* takes it in
Generate ==
    IF micro % GenerationEvery = 0
      THEN used' = used \cup {scale.windows} /\ scale' = Observed(scale)
      ELSE UNCHANGED <<used, scale>>

Microstep ==
    /\ pc = "train" /\ micro < GradientAccumulation
    /\ Generate
    /\ micro' = micro + 1
    /\ UNCHANGED <<disk, saves, pc, segment, step, rows, window, files, crashes>>

BeginSave == saves' = saves + 1 /\ files' = SaveOrder /\ pc' = "save"

\* the optimizer step, then on_step_end: save_steps and the frozen boundary
OptimizerStep ==
    /\ pc = "train" /\ micro = GradientAccumulation
    /\ step' = step + 1 /\ micro' = 0 /\ used' = {}
    /\ rows' = Append(rows, <<Segments[segment].cycle, window>>)
    /\ window' = window + 1
    /\ IF step' % SaveSteps = 0 THEN BeginSave ELSE UNCHANGED <<saves, files, pc>>
    /\ UNCHANGED <<disk, segment, scale, crashes>>

AtStop == step >= Stop(segment) /\ micro = 0

WriteFile ==
    /\ pc = "save" /\ files # <<>>
    /\ files' = Tail(files)
    /\ IF Head(files) = "adaptive"
         THEN adaptive' = [adaptive EXCEPT ![step] = scale] /\ UNCHANGED <<ckpt, trained>>
         ELSE /\ ckpt' = [ckpt EXCEPT ![step] =
                    [f \in DOMAIN @ \cup {Head(files)} |->
                        IF f = Head(files) THEN saves ELSE @[f]]]
              /\ trained' = IF Head(files) = "adapter"
                              THEN [trained EXCEPT ![step] = rows] ELSE trained
              /\ UNCHANGED adaptive
    /\ UNCHANGED <<saves, pc, segment, step, micro, scale, used, rows, window, crashes>>

EndSave ==
    /\ pc = "save" /\ files = <<>>
    /\ pc' = "train"
    /\ UNCHANGED <<disk, saves, segment, step, micro, scale, used, rows, window,
                   files, crashes>>

\* the end of train(): a last step that save_steps skipped is saved, unless
\* its directory exists
TailSave ==
    /\ pc = "train" /\ AtStop /\ step \notin Dirs
    /\ BeginSave
    /\ UNCHANGED <<disk, segment, step, micro, scale, used, rows, window, crashes>>

Return ==
    /\ pc = "train" /\ AtStop /\ step \in Dirs
    /\ pc' = "returned"
    /\ UNCHANGED <<disk, saves, segment, step, micro, scale, used, rows, window,
                   files, crashes>>

Crash ==
    /\ pc \in {"train", "save"} /\ crashes < MaxCrashes
    /\ pc' = "down" /\ crashes' = crashes + 1
    /\ UNCHANGED <<disk, saves, segment, step, micro, scale, used, rows, window, files>>

------------------------------------------------------------------------------
Init ==
    /\ ckpt = [s \in Steps |-> Absent] /\ adaptive = [s \in Steps |-> NoState]
    /\ trained = [s \in Steps |-> <<>>] /\ saves = 0
    /\ pc = "down" /\ segment = 1 /\ step = 0 /\ micro = 0
    /\ scale = FreshScale /\ used = {} /\ rows = <<>> /\ window = 0
    /\ files = <<>> /\ crashes = 0

Next ==
    \/ \E k \in DOMAIN Segments : Start(k)
    \/ (~ AtStop /\ Microstep) \/ OptimizerStep
    \/ WriteFile \/ EndSave \/ TailSave \/ Return \/ Crash

Spec == Init /\ [][Next]_vars

------------------------------------------------------------------------------
(* Properties                                                              *)

\* All groups of an optimizer update, replays and restarts included, are
\* normalized with the one scale that the earlier windows committed: no
\* look-ahead, no state lost or counted twice (LaggedWindowScale, train).
LaggedScale ==
    pc = "train" => used \subseteq {step} /\ scale.windows + scale.pending
                                              \in step .. step + ProblemsPerUpdate

\* A checkpoint that a resume accepts is one save's work: weights, optimizer,
\* trainer state and adaptive state are of the same step of the same run,
\* whatever crashes left in its directory before (_save_checkpoint).
ResumableInSync ==
    \A k \in DOMAIN Segments :
      LET s == Stop(k) IN
      Finished(k) =>
        /\ Resumable(s)
        /\ \A f, g \in Required : ckpt[s][f] = ckpt[s][g]
        /\ adaptive[s] = [windows |-> s, pending |-> 0, seen |-> s * ProblemsPerUpdate]
        /\ Len(trained[s]) = s
=============================================================================
