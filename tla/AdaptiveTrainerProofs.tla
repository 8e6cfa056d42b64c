------------------------ MODULE AdaptiveTrainerProofs ------------------------
(***************************************************************************)
(* Proofs about AdaptiveTrainer for every schedule of segments, every size *)
(* of an update and every number of crashes.                               *)
(***************************************************************************)
EXTENDS AdaptiveTrainer, TLAPS

Files == {"adapter", "adaptive", "optimizer", "trainer_state"}
Checkpoints == UNION {[F -> Nat] : F \in SUBSET Files}
Scales == [windows : Nat, pending : Nat, seen : Nat]
\* What a save has left when n of its files are still to be written.
Left(n) ==
    CASE n = 5 -> SaveOrder
      [] n = 4 -> <<"adaptive", "optimizer", "trainer_state", "adaptive">>
      [] n = 3 -> <<"optimizer", "trainer_state", "adaptive">>
      [] n = 2 -> <<"trainer_state", "adaptive">>
      [] n = 1 -> <<"adaptive">>
      [] n = 0 -> <<>>

\* The types of the variables.
TrainerTypeOK ==
    /\ ckpt \in [Steps -> Checkpoints]
    /\ adaptive \in [Steps -> Scales \cup {NoState}]
    /\ trained \in [Steps -> Seq(Nat \X Nat)]
    /\ saves \in Nat /\ pc \in {"down", "train", "save", "returned"}
    /\ segment \in DOMAIN Segments /\ step \in Nat /\ micro \in Nat
    /\ scale \in Scales /\ used \subseteq Nat
    /\ rows \in Seq(Nat \X Nat) /\ window \in Nat
    /\ files \in {Left(n) : n \in 0 .. 5} /\ crashes \in Nat

\* The step a segment begins after.
Before(k) == IF k = 1 THEN 0 ELSE Stop(k - 1)
\* The scale after G groups of the update that follows step s.
After(s, G) ==
    IF G < ProblemsPerUpdate
      THEN [windows |-> s, pending |-> G, seen |-> s * ProblemsPerUpdate + G]
      ELSE [windows |-> s + 1, pending |-> 0, seen |-> s * ProblemsPerUpdate + G]
\* m micro-steps have generated G groups.
Generated(m, G) == GenerationEvery * (G - 1) < m /\ m <= GenerationEvery * G

\* A process that trains: where it is in its segment, and what the scale has
\* taken in so far.
InSegment ==
    /\ \A j \in 1 .. segment - 1 : Finished(j)
    /\ Before(segment) <= step /\ step <= Stop(segment)
    /\ step = Stop(segment) => micro = 0
    /\ step < Stop(segment) => ~ Finished(segment)
    /\ Len(rows) = step
    /\ used \subseteq {step}
    /\ \E G \in 0 .. ProblemsPerUpdate : Generated(micro, G) /\ scale = After(step, G)

Holds(f) == f \in DOMAIN ckpt[step] /\ ckpt[step][f] = saves
\* What the directory of a save has of it when n files are left: the state that
\* makes it resumable is the last but one.
Written(n) ==
    /\ n <= 4 => Holds("adapter") /\ trained[step] = rows
    /\ n <= 3 => adaptive[step] = scale
    /\ n <= 2 => Holds("optimizer")
    /\ n <= 1 => Holds("trainer_state")
    /\ n >= 2 /\ step = Stop(segment) => ~ Finished(segment)
InSave ==
    /\ micro = 0 /\ Before(segment) < step
    /\ \E n \in 0 .. 5 : files = Left(n) /\ Written(n)

TrainerInv ==
    /\ TrainerTypeOK /\ ResumableInSync
    /\ pc \in {"train", "save"} => InSegment
    /\ pc = "save" => InSave

------------------------------------------------------------------------------
(* Arithmetic                                                              *)

LEMMA Cancel ==
    ASSUME NEW d \in Nat \ {0}, NEW x \in Int, NEW y \in Int, d * x < d * y
    PROVE  x < y
  <1>1. SUFFICES ASSUME ~ (x < y) PROVE FALSE
    OBVIOUS
  <1>2. PICK k \in Nat : x = y + k
    <2>1. x - y \in Nat /\ x = y + (x - y)
      BY <1>1
    <2>2. QED
      BY <2>1
  <1>3. d * x = d * y + d * k /\ d * k \in Nat
    BY <1>2
  <1>4. QED
    BY <1>3

LEMMA Multiple ==
    ASSUME NEW d \in Nat \ {0}, NEW x \in Int
    PROVE  (d * x) % d = 0
  OBVIOUS

LEMMA Divisible ==
    ASSUME NEW d \in Nat \ {0}, NEW a \in Int, a % d = 0
    PROVE  a \div d \in Int /\ a = d * (a \div d)
  <1>1. a = (d * (a \div d)) + (a % d) /\ a \div d \in Int
    OBVIOUS
  <1>2. QED
    BY <1>1

\* The sizes that make_memory_safe_layout chooses.
LEMMA Layout ==
    /\ GenerationEvery \in Nat \ {0} /\ ProblemsPerUpdate \in Nat \ {0}
    /\ GradientAccumulation = GenerationEvery * ProblemsPerUpdate
  <1>1. /\ MicrostepsPerProblem \in Nat \ {0} /\ NumIterations \in Nat \ {0}
        /\ ProblemsPerUpdate \in Nat \ {0}
    BY TrainerAssumption
  <1>2. QED
    BY <1>1 DEF GenerationEvery, GradientAccumulation

\* One more micro-step of an update generates a group when the last one has
\* been replayed, and not otherwise.
LEMMA OneMoreMicrostep ==
    ASSUME NEW m \in Nat, NEW G \in 0 .. ProblemsPerUpdate, Generated(m, G)
    PROVE  /\ m % GenerationEvery = 0 => Generated(m + 1, G + 1) /\ m = GenerationEvery * G
           /\ m % GenerationEvery # 0 => Generated(m + 1, G)
  <1>0. GenerationEvery \in Nat \ {0} /\ G \in Int
    BY Layout
  <1> DEFINE d == GenerationEvery
  <1> HIDE DEF d
  <1>1. d \in Nat \ {0} /\ d * (G - 1) < m /\ m <= d * G
    BY <1>0 DEF Generated, d
  <1>2. d * (G + 1) = d * G + d /\ d * G \in Int
    BY <1>0, <1>1
  <1>3. ASSUME m % d = 0 PROVE m = d * G
    <2> DEFINE q == m \div d
    <2>1. q \in Int /\ m = d * q
      BY <1>1, <1>3, Divisible
    <2> HIDE DEF q
    <2>2. d * (G - 1) < d * q /\ d * q < d * (G + 1)
      BY <1>1, <1>2, <2>1
    <2>3. G - 1 < q /\ q < G + 1
      BY <1>0, <1>1, <2>1, <2>2, Cancel
    <2>4. QED
      BY <1>0, <2>1, <2>3
  <1>4. ASSUME m % d # 0 PROVE m < d * G
    <2>1. (d * G) % d = 0
      BY <1>0, <1>1, Multiple
    <2>2. QED
      BY <1>1, <1>2, <1>4, <2>1
  <1>5. m % d = 0 => d * ((G + 1) - 1) < m + 1 /\ m + 1 <= d * (G + 1)
    BY <1>0, <1>1, <1>2, <1>3
  <1>6. m % d # 0 => d * (G - 1) < m + 1 /\ m + 1 <= d * G
    <2>1. d * (G - 1) \in Int
      BY <1>0, <1>1
    <2>2. QED
      BY <1>1, <1>2, <1>4, <2>1
  <1>7. QED
    BY <1>3, <1>5, <1>6 DEF Generated, d

\* All micro-steps of an update have generated all its groups.
LEMMA AllGenerated ==
    ASSUME NEW G \in 0 .. ProblemsPerUpdate, Generated(GradientAccumulation, G)
    PROVE  G = ProblemsPerUpdate
  <1>1. /\ GenerationEvery * ProblemsPerUpdate <= GenerationEvery * G
        /\ GenerationEvery * (G + 1) = GenerationEvery * G + GenerationEvery
        /\ GenerationEvery * G \in Int
    BY Layout DEF Generated
  <1>2. GenerationEvery * ProblemsPerUpdate < GenerationEvery * (G + 1)
    BY <1>1, Layout
  <1>3. ProblemsPerUpdate < G + 1
    BY <1>2, Layout, Cancel
  <1>4. QED
    BY <1>3, Layout

------------------------------------------------------------------------------
(* The schedule of segments                                                *)

LEMMA SegmentOrder ==
    /\ DOMAIN Segments = 1 .. Len(Segments) /\ Len(Segments) \in DOMAIN Segments
    /\ 1 \in DOMAIN Segments
    /\ \A k \in DOMAIN Segments : Stop(k) \in Nat \ {0} /\ Segments[k].cycle \in Nat
    /\ \A j, k \in DOMAIN Segments : j < k => Stop(j) < Stop(k)
  <1>1. Segments \in Seq([cycle : Nat, stop : Nat \ {0}]) /\ Len(Segments) > 0
    BY TrainerAssumption
  <1>2. \A k \in DOMAIN Segments : Segments[k] \in [cycle : Nat, stop : Nat \ {0}]
    <2> DEFINE R == [cycle : Nat, stop : Nat \ {0}]
    <2>1. Segments \in Seq(R)
      BY <1>1
    <2> HIDE DEF R
    <2>2. \A k \in DOMAIN Segments : Segments[k] \in R
      BY <2>1
    <2>3. QED
      BY <2>2 DEF R
  <1>3. DOMAIN Segments = 1 .. Len(Segments) /\ Len(Segments) \in Nat \ {0}
    BY <1>1
  <1>4. \A k \in DOMAIN Segments : Stop(k) \in Nat \ {0} /\ Segments[k].cycle \in Nat
    BY <1>2 DEF Stop
  <1>5. \A j, k \in DOMAIN Segments : j < k => Stop(j) < Stop(k)
    BY TrainerAssumption DEF Stop
  <1>6. Len(Segments) \in DOMAIN Segments /\ 1 \in DOMAIN Segments
    BY <1>3
  <1>7. QED
    BY <1>3, <1>4, <1>5, <1>6

\* A segment stops at a step of the schedule, after the one it begins after;
\* no other segment stops in between.
LEMMA SegmentSteps ==
    ASSUME NEW k \in DOMAIN Segments
    PROVE  /\ k \in Nat /\ Stop(k) \in Steps /\ Stop(k) \in Nat \ {0}
           /\ Before(k) \in Nat /\ Before(k) < Stop(k)
           /\ \A s \in Nat : Before(k) < s /\ s <= Stop(k) =>
                 s \in Steps /\ \A j \in DOMAIN Segments : s = Stop(j) => j = k
           /\ k # 1 => k - 1 \in DOMAIN Segments /\ Before(k) = Stop(k - 1)
  <1>1. k \in Nat \ {0} /\ (k # 1 => k - 1 \in DOMAIN Segments)
    BY SegmentOrder
  <1>2. Before(k) \in Nat /\ Before(k) < Stop(k)
    BY <1>1, SegmentOrder DEF Before
  <1>3. Stop(k) <= Stop(Len(Segments))
    <2>1. k <= Len(Segments) /\ Len(Segments) \in Nat
      BY SegmentOrder
    <2>2. CASE k = Len(Segments)
      BY <2>2, SegmentOrder
    <2>3. CASE k # Len(Segments)
      BY <1>1, <2>1, <2>3, SegmentOrder
    <2>4. QED
      BY <2>2, <2>3
  <1>4. ASSUME NEW s \in Nat, Before(k) < s, s <= Stop(k)
        PROVE  s \in Steps /\ \A j \in DOMAIN Segments : s = Stop(j) => j = k
    <2>1. s \in Steps
      BY <1>2, <1>3, <1>4, SegmentOrder DEF Steps
    <2>2. ASSUME NEW j \in DOMAIN Segments, s = Stop(j) PROVE j = k
      <3>1. ~ (k < j)
        BY <1>4, <2>2, SegmentOrder
      <3>2. j < k => Stop(j) <= Before(k)
        <4>1. SUFFICES ASSUME j < k PROVE Stop(j) <= Stop(k - 1) /\ k # 1
          BY DEF Before
        <4>2. k # 1 /\ j <= k - 1 /\ k - 1 \in DOMAIN Segments
          BY <1>1, <4>1, SegmentOrder
        <4>3. CASE j = k - 1
          BY <4>2, <4>3, SegmentOrder
        <4>4. CASE j < k - 1
          BY <4>2, <4>4, SegmentOrder
        <4>5. QED
          BY <1>1, <4>2, <4>3, <4>4, SegmentOrder
      <3>3. QED
        BY <1>1, <1>2, <1>4, <2>2, <3>1, <3>2, SegmentOrder
    <2>3. QED
      BY <2>1, <2>2
  <1>5. Stop(k) \in Steps
    BY <1>2, <1>4, SegmentOrder
  <1>6. QED
    BY <1>1, <1>2, <1>4, <1>5, SegmentOrder DEF Before

------------------------------------------------------------------------------
(* The invariant                                                           *)

LEMMA SameDisk ==
    ASSUME UNCHANGED disk
    PROVE  /\ ResumableInSync' = ResumableInSync
           /\ \A k : Finished(k)' = Finished(k)
  BY DEF disk, ResumableInSync, Finished, Resumable

LEMMA InitInv == Init => TrainerInv
  <1>1. SUFFICES ASSUME Init PROVE TrainerInv
    OBVIOUS
  <1>2. Absent \in Checkpoints
    BY DEF Absent, Checkpoints
  <1>3. TrainerTypeOK
    BY <1>1, <1>2, SegmentOrder DEF Init, TrainerTypeOK, FreshScale, Scales, Left, NoState
  <1>4. ResumableInSync
    <2>1. ASSUME NEW k \in DOMAIN Segments PROVE ~ Finished(k)
      BY <1>1, SegmentSteps DEF Init, Finished, Absent
    <2>2. QED
      BY <2>1 DEF ResumableInSync
  <1>5. QED
    BY <1>1, <1>3, <1>4 DEF Init, TrainerInv

LEMMA StartKeeps ==
    ASSUME TrainerInv, NEW k \in DOMAIN Segments, Start(k)
    PROVE  TrainerInv'
  <1>0. TrainerTypeOK /\ ResumableInSync
    BY DEF TrainerInv
  <1>1. /\ pc' = "train" /\ segment' = k /\ micro' = 0 /\ used' = {} /\ files' = <<>>
        /\ \A j \in 1 .. k - 1 : Finished(j)
        /\ ~ Finished(k)
        /\ UNCHANGED disk /\ UNCHANGED <<saves, crashes>>
    BY DEF Start
  <1>2. /\ step' = Before(k) /\ scale' = After(Before(k), 0) /\ Len(rows') = Before(k)
        /\ rows' \in Seq(Nat \X Nat) /\ window' \in Nat
    <2>1. CASE k = 1
      <3>1. step' = 0 /\ scale' = FreshScale /\ rows' = <<>> /\ window' = 0
        BY <2>1 DEF Start
      <3>2. FreshScale = After(0, 0)
        BY Layout DEF FreshScale, After
      <3>3. QED
        BY <2>1, <3>1, <3>2 DEF Before
    <2>2. CASE k # 1
      <3> DEFINE from == Stop(k - 1)
      <3>1. k - 1 \in DOMAIN Segments /\ Before(k) = from /\ k - 1 \in 1 .. k - 1
        BY <2>2, SegmentSteps
      <3>2. /\ step' = from /\ scale' = adaptive[from]
            /\ rows' = trained[from] /\ window' = 0
        BY <2>2 DEF Start, FirstWindow
      <3>3. from \in Steps /\ from \in Nat
        BY <3>1, SegmentSteps
      <3>4. /\ adaptive[from] = [windows |-> from, pending |-> 0, seen |-> from * ProblemsPerUpdate]
            /\ Len(trained[from]) = from
        BY <1>0, <1>1, <3>1 DEF ResumableInSync
      <3>5. trained[from] \in Seq(Nat \X Nat)
        BY <1>0, <3>3 DEF TrainerTypeOK
      <3>6. adaptive[from] = After(from, 0)
        <4>1. from * ProblemsPerUpdate \in Nat /\ 0 < ProblemsPerUpdate
          BY <3>3, Layout
        <4>2. QED
          BY <3>4, <4>1 DEF After
      <3>7. QED
        BY <3>1, <3>2, <3>4, <3>5, <3>6
    <2>3. QED
      BY <2>1, <2>2
  <1>3. Before(k) \in Nat /\ Before(k) < Stop(k) /\ Stop(k) \in Nat
    BY SegmentSteps
  <1>4. After(Before(k), 0) \in Scales
    BY <1>3, Layout DEF After, Scales
  <1>5. TrainerTypeOK'
    BY <1>0, <1>1, <1>2, <1>3, <1>4 DEF TrainerTypeOK, disk, Left
  <1>6. ResumableInSync'
    BY <1>0, <1>1, SameDisk
  <1>7. InSegment'
    <2>1. Generated(0, 0)
      BY Layout DEF Generated
    <2>2. \A j : Finished(j)' = Finished(j)
      BY <1>1, SameDisk
    <2>3. Before(segment)' = Before(k) /\ Stop(segment)' = Stop(k)
      BY <1>1 DEF Before, Stop
    <2>4. \E G \in 0 .. ProblemsPerUpdate : Generated(micro', G) /\ scale' = After(step', G)
      BY <1>1, <1>2, <2>1, Layout
    <2>5. QED
      BY <1>1, <1>2, <1>3, <2>2, <2>3, <2>4 DEF InSegment
  <1>8. QED
    BY <1>1, <1>5, <1>6, <1>7 DEF TrainerInv

\* A micro-step that generates observes one group of the update: its scale is
\* still the one committed before the update.
LEMMA MicrostepKeeps ==
    ASSUME TrainerInv, ~ AtStop, Microstep
    PROVE  TrainerInv'
  <1>0. TrainerTypeOK /\ ResumableInSync /\ InSegment
    BY DEF TrainerInv, Microstep
  <1>1. /\ pc = "train" /\ micro < GradientAccumulation /\ micro' = micro + 1 /\ Generate
        /\ UNCHANGED disk
        /\ UNCHANGED <<saves, pc, segment, step, rows, window, files, crashes>>
    BY DEF Microstep
  <1>2. step \in Nat /\ micro \in Nat /\ segment \in DOMAIN Segments /\ used \subseteq {step}
    BY <1>0 DEF TrainerTypeOK, InSegment
  <1>3. step < Stop(segment)
    BY <1>0, <1>2, SegmentSteps DEF AtStop, InSegment
  <1>4. PICK G \in 0 .. ProblemsPerUpdate : Generated(micro, G) /\ scale = After(step, G)
    BY <1>0 DEF InSegment
  <1>5. \E H \in 0 .. ProblemsPerUpdate :
           Generated(micro', H) /\ scale' = After(step, H) /\ scale' \in Scales /\ used' \subseteq {step}
    <2>1. CASE micro % GenerationEvery = 0
      <3>1. Generated(micro + 1, G + 1) /\ micro = GenerationEvery * G
        BY <1>2, <1>4, <2>1, OneMoreMicrostep
      <3>2. G < ProblemsPerUpdate
        <4>1. GenerationEvery * G < GenerationEvery * ProblemsPerUpdate
          BY <1>1, <3>1, Layout
        <4>2. QED
          BY <4>1, Layout, Cancel
      <3>3. used' = used \cup {scale.windows} /\ scale' = Observed(scale)
        BY <1>1, <2>1 DEF Generate
      <3> DEFINE seen == step * ProblemsPerUpdate + G
      <3>4. scale = [windows |-> step, pending |-> G, seen |-> seen]
        BY <1>4, <3>2 DEF After
      <3>5. seen \in Nat /\ seen + 1 = step * ProblemsPerUpdate + (G + 1)
            /\ G + 1 \in 0 .. ProblemsPerUpdate
        BY <1>2, <3>2, Layout
      <3> HIDE DEF seen
      <3>6. scale' = After(step, G + 1) /\ scale' \in Scales
        <4>1. CASE G + 1 < ProblemsPerUpdate
          <5>1. scale' = [windows |-> step, pending |-> G + 1, seen |-> seen + 1]
            BY <3>3, <3>4, <4>1 DEF Observed
          <5>2. QED
            BY <1>2, <3>5, <4>1, <5>1 DEF After, Scales
        <4>2. CASE ~ (G + 1 < ProblemsPerUpdate)
          <5>1. scale' = [windows |-> step + 1, pending |-> 0, seen |-> seen + 1]
            BY <3>3, <3>4, <4>2 DEF Observed
          <5>2. QED
            BY <1>2, <3>5, <4>2, <5>1 DEF After, Scales
        <4>3. QED
          BY <4>1, <4>2
      <3>7. QED
        BY <1>1, <1>2, <3>1, <3>3, <3>4, <3>5, <3>6
    <2>2. CASE micro % GenerationEvery # 0
      <3>1. Generated(micro + 1, G)
        BY <1>2, <1>4, <2>2, OneMoreMicrostep
      <3>2. UNCHANGED <<used, scale>>
        BY <1>1, <2>2 DEF Generate
      <3>3. QED
        BY <1>0, <1>1, <1>2, <1>4, <3>1, <3>2 DEF TrainerTypeOK
    <2>3. QED
      BY <2>1, <2>2
  <1>6. TrainerTypeOK'
    BY <1>0, <1>1, <1>2, <1>5 DEF TrainerTypeOK, disk
  <1>7. ResumableInSync'
    BY <1>0, <1>1, SameDisk
  <1>8. InSegment'
    <2>1. \A j : Finished(j)' = Finished(j)
      BY <1>1, SameDisk
    <2>2. Before(segment)' = Before(segment) /\ Stop(segment)' = Stop(segment)
      BY <1>1 DEF Before, Stop
    <2>3. Stop(segment) \in Nat
      BY <1>2, SegmentSteps
    <2>4. QED
      BY <1>0, <1>1, <1>2, <1>3, <1>5, <2>1, <2>2, <2>3 DEF InSegment
  <1>9. QED
    BY <1>1, <1>6, <1>7, <1>8 DEF TrainerInv

\* Between two updates the scale has committed one window for each of them.
LEMMA ScaleAtBoundary ==
    ASSUME TrainerTypeOK, InSegment, micro = 0
    PROVE  scale = [windows |-> step, pending |-> 0, seen |-> step * ProblemsPerUpdate]
  <1>1. PICK G \in 0 .. ProblemsPerUpdate : Generated(0, G) /\ scale = After(step, G)
    BY DEF InSegment
  <1>2. GenerationEvery * (G - 1) < GenerationEvery * 0
    BY <1>1, Layout DEF Generated
  <1>3. G - 1 < 0
    BY <1>1, <1>2, Layout, Cancel
  <1>4. G = 0 /\ step * ProblemsPerUpdate \in Nat /\ 0 < ProblemsPerUpdate
    BY <1>1, <1>3, Layout DEF TrainerTypeOK
  <1>5. QED
    BY <1>1, <1>4 DEF After

LEMMA OptimizerStepKeeps ==
    ASSUME TrainerInv, OptimizerStep
    PROVE  TrainerInv'
  <1>0. TrainerTypeOK /\ ResumableInSync /\ InSegment
    BY DEF TrainerInv, OptimizerStep
  <1>1. /\ pc = "train" /\ micro = GradientAccumulation
        /\ step' = step + 1 /\ micro' = 0 /\ used' = {}
        /\ rows' = Append(rows, <<Segments[segment].cycle, window>>) /\ window' = window + 1
        /\ UNCHANGED disk /\ UNCHANGED <<segment, scale, crashes>>
        /\ \/ BeginSave
           \/ UNCHANGED <<saves, files, pc>>
    BY DEF OptimizerStep
  <1>2. /\ step \in Nat /\ segment \in DOMAIN Segments /\ window \in Nat
        /\ rows \in Seq(Nat \X Nat) /\ saves \in Nat /\ Len(rows) = step
    BY <1>0 DEF TrainerTypeOK, InSegment
  <1>3. step < Stop(segment) /\ ~ Finished(segment)
    <2>1. micro # 0
      BY <1>1, Layout
    <2>2. QED
      BY <1>0, <1>2, <2>1, SegmentSteps DEF InSegment
  <1>4. scale = After(step + 1, 0)
    <2>1. PICK G \in 0 .. ProblemsPerUpdate : Generated(micro, G) /\ scale = After(step, G)
      BY <1>0 DEF InSegment
    <2>2. G = ProblemsPerUpdate
      BY <1>1, <2>1, AllGenerated
    <2>3. (step + 1) * ProblemsPerUpdate + 0 = step * ProblemsPerUpdate + ProblemsPerUpdate
      BY <1>2, Layout
    <2>4. QED
      BY <2>1, <2>2, <2>3, Layout DEF After
  <1>5. rows' \in Seq(Nat \X Nat) /\ Len(rows') = step + 1
    <2> DEFINE R == Nat \X Nat  r == <<Segments[segment].cycle, window>>
    <2>1. r \in R /\ rows \in Seq(R)
      BY <1>2, SegmentOrder
    <2>2. rows' = Append(rows, r)
      BY <1>1
    <2> HIDE DEF R, r
    <2>3. rows' \in Seq(R) /\ Len(rows') = Len(rows) + 1
      BY <2>1, <2>2
    <2>4. QED
      BY <1>2, <2>3 DEF R
  <1>6. TrainerTypeOK'
    BY <1>0, <1>1, <1>2, <1>5 DEF TrainerTypeOK, disk, BeginSave, Left
  <1>7. ResumableInSync'
    BY <1>0, <1>1, SameDisk
  <1>8. \A j : Finished(j)' = Finished(j)
    BY <1>1, SameDisk
  <1>9. Before(segment)' = Before(segment) /\ Stop(segment)' = Stop(segment)
    BY <1>1 DEF Before, Stop
  <1>10. Before(segment) \in Nat /\ Stop(segment) \in Nat
    BY <1>2, SegmentSteps
  <1>11. InSegment'
    <2>1. Generated(micro', 0)
      BY <1>1, Layout DEF Generated
    <2>2. \E G \in 0 .. ProblemsPerUpdate : Generated(micro', G) /\ scale' = After(step', G)
      BY <1>1, <1>4, <2>1, Layout
    <2>3. QED
      BY <1>0, <1>1, <1>2, <1>3, <1>5, <1>8, <1>9, <1>10, <2>2 DEF InSegment
  <1>12. pc' = "save" => InSave'
    <2>1. SUFFICES ASSUME BeginSave PROVE InSave'
      BY <1>1
    <2>2. files' = Left(5) /\ 5 \in 0 .. 5
      BY <2>1 DEF BeginSave, Left
    <2>3. Before(segment) < step'
      BY <1>0, <1>1, <1>2, <1>10 DEF InSegment
    <2>4. Written(5)'
      BY <1>1, <1>3, <1>8, <1>9 DEF Written
    <2>5. QED
      BY <1>1, <1>9, <2>2, <2>3, <2>4 DEF InSave
  <1>13. QED
    BY <1>1, <1>6, <1>7, <1>11, <1>12 DEF TrainerInv

\* The directories C when the file f of the save n is written to that of step s.
WithFile(C, s, file, n) ==
    [C EXCEPT ![s] = [f \in DOMAIN @ \cup {file} |-> IF f = file THEN n ELSE @[f]]]

\* One file more in the directory of a step leaves every other file alone.
LEMMA OneFileMore ==
    ASSUME NEW C \in [Steps -> Checkpoints], NEW s \in Steps, NEW f \in Files, NEW n \in Nat,
           NEW D, D = WithFile(C, s, f, n)
    PROVE  /\ D \in [Steps -> Checkpoints]
           /\ DOMAIN D[s] = DOMAIN C[s] \cup {f} /\ D[s][f] = n
           /\ \A g \in DOMAIN C[s] : g # f => D[s][g] = C[s][g]
           /\ \A t \in Steps \ {s} : D[t] = C[t]
  <1>1. PICK F \in SUBSET Files : C[s] \in [F -> Nat]
    BY DEF Checkpoints
  <1> DEFINE new == [g \in F \cup {f} |-> IF g = f THEN n ELSE C[s][g]]
  <1>2. D = [C EXCEPT ![s] = new] /\ DOMAIN C[s] = F
    BY <1>1 DEF WithFile
  <1>3. new \in [F \cup {f} -> Nat] /\ F \cup {f} \in SUBSET Files
    BY <1>1
  <1>4. new \in Checkpoints
    BY <1>3 DEF Checkpoints
  <1>5. DOMAIN new = F \cup {f} /\ new[f] = n /\ \A g \in F : g # f => new[g] = C[s][g]
    OBVIOUS
  <1> HIDE DEF new
  <1>6. D \in [Steps -> Checkpoints] /\ D[s] = new /\ \A t \in Steps \ {s} : D[t] = C[t]
    BY <1>2, <1>4
  <1>7. QED
    BY <1>2, <1>5, <1>6

\* What is written next, and what is left then.
LEMMA NextFile ==
    ASSUME NEW n \in 0 .. 5, files = Left(n), files # <<>>
    PROVE  /\ n - 1 \in 0 .. 4 /\ Tail(files) = Left(n - 1)
           /\ \/ n = 5 /\ Head(files) = "adapter"
              \/ n = 4 /\ Head(files) = "adaptive"
              \/ n = 3 /\ Head(files) = "optimizer"
              \/ n = 2 /\ Head(files) = "trainer_state"
              \/ n = 1 /\ Head(files) = "adaptive"
  <1>1. \A a, b, c, d, e : Tail(<<a, b, c, d, e>>) = <<b, c, d, e>> /\ Head(<<a, b, c, d, e>>) = a
    OBVIOUS
  <1>2. \A b, c, d, e : Tail(<<b, c, d, e>>) = <<c, d, e>> /\ Head(<<b, c, d, e>>) = b
    OBVIOUS
  <1>3. \A c, d, e : Tail(<<c, d, e>>) = <<d, e>> /\ Head(<<c, d, e>>) = c
    OBVIOUS
  <1>4. \A d, e : Tail(<<d, e>>) = <<e>> /\ Head(<<d, e>>) = d
    OBVIOUS
  <1>5. \A e : Tail(<<e>>) = <<>> /\ Head(<<e>>) = e
    OBVIOUS
  <1>6. CASE n = 5
    BY <1>1, <1>6 DEF Left, SaveOrder
  <1>7. CASE n = 4
    BY <1>2, <1>7 DEF Left
  <1>8. CASE n = 3
    BY <1>3, <1>8 DEF Left
  <1>9. CASE n = 2
    BY <1>4, <1>9 DEF Left
  <1>10. CASE n = 1
    BY <1>5, <1>10 DEF Left
  <1>11. n # 0
    BY DEF Left
  <1>12. QED
    BY <1>6, <1>7, <1>8, <1>9, <1>10, <1>11

\* The directory being written is that of the running segment's stop, or of no
\* segment's.
LEMMA WriteKeepsOthers ==
    ASSUME TrainerTypeOK, InSegment, Before(segment) < step
    PROVE  /\ step \in Steps /\ step \in Nat /\ segment \in DOMAIN Segments
           /\ \A k \in DOMAIN Segments : Stop(k) \in Steps /\ (Stop(k) = step => k = segment)
  BY SegmentSteps DEF TrainerTypeOK, InSegment

LEMMA WriteStateKeeps ==
    ASSUME TrainerInv, WriteFile, Head(files) = "adaptive"
    PROVE  TrainerInv'
  <1>0. TrainerTypeOK /\ ResumableInSync /\ InSegment /\ InSave
    BY DEF TrainerInv, WriteFile
  <1>1. /\ pc = "save" /\ files # <<>> /\ files' = Tail(files)
        /\ adaptive' = [adaptive EXCEPT ![step] = scale] /\ UNCHANGED <<ckpt, trained>>
        /\ UNCHANGED <<saves, pc, segment, step, micro, scale, used, rows, window, crashes>>
    BY DEF WriteFile
  <1>2. /\ step \in Steps /\ step \in Nat /\ segment \in DOMAIN Segments
        /\ \A k \in DOMAIN Segments : Stop(k) \in Steps /\ (Stop(k) = step => k = segment)
    BY <1>0, WriteKeepsOthers DEF InSave
  <1>3. PICK n \in 0 .. 5 : files = Left(n) /\ Written(n)
    BY <1>0 DEF InSave
  <1>4. n \in {1, 4} /\ n - 1 \in 0 .. 4 /\ files' = Left(n - 1)
    BY <1>1, <1>3, NextFile
  <1>5. scale = [windows |-> step, pending |-> 0, seen |-> step * ProblemsPerUpdate]
    BY <1>0, ScaleAtBoundary DEF InSave
  <1>6. /\ adaptive' \in [Steps -> Scales \cup {NoState}] /\ adaptive'[step] = scale
        /\ \A t \in Steps \ {step} : adaptive'[t] = adaptive[t]
    BY <1>0, <1>1, <1>2 DEF TrainerTypeOK
  <1>7. \A j : Finished(j)' = Finished(j)
    BY <1>1 DEF Finished, Stop
  <1>8. TrainerTypeOK'
    BY <1>0, <1>1, <1>4, <1>6 DEF TrainerTypeOK
  <1>9. ResumableInSync'
    <2>1. ASSUME NEW k \in DOMAIN Segments, Finished(k)
          PROVE  /\ Resumable(Stop(k)) /\ \A f, g \in Required : ckpt[Stop(k)][f] = ckpt[Stop(k)][g]
                 /\ adaptive'[Stop(k)] =
                      [windows |-> Stop(k), pending |-> 0, seen |-> Stop(k) * ProblemsPerUpdate]
                 /\ Len(trained[Stop(k)]) = Stop(k)
      <3>1. CASE Stop(k) = step
        BY <1>0, <1>5, <1>6, <2>1, <3>1 DEF ResumableInSync
      <3>2. CASE Stop(k) # step
        BY <1>0, <1>2, <1>6, <2>1, <3>2 DEF ResumableInSync
      <3>3. QED
        BY <3>1, <3>2
    <2>2. QED
      BY <1>1, <1>7, <2>1 DEF ResumableInSync, Resumable, Stop
  <1>10. InSegment'
    BY <1>0, <1>1, <1>7 DEF InSegment, Before, Stop
  <1>11. InSave'
    <2>1. \A f : Holds(f)' = Holds(f)
      BY <1>1 DEF Holds
    <2>2. Before(segment)' = Before(segment) /\ Stop(segment)' = Stop(segment)
      BY <1>1 DEF Before, Stop
    <2>3. Written(n - 1)'
      BY <1>1, <1>3, <1>6, <1>7, <1>4, <2>1, <2>2 DEF Written
    <2>4. QED
      BY <1>0, <1>1, <1>4, <2>2, <2>3 DEF InSave
  <1>12. QED
    BY <1>8, <1>9, <1>10, <1>11 DEF TrainerInv

\* trainer_state, which makes a checkpoint resumable, is written when all the
\* others of this save are there.
LEMMA WriteCheckpointKeeps ==
    ASSUME TrainerInv, WriteFile, Head(files) # "adaptive"
    PROVE  TrainerInv'
  <1>0. TrainerTypeOK /\ ResumableInSync /\ InSegment /\ InSave
    BY DEF TrainerInv, WriteFile
  <1>1. PICK file : file = Head(files)
    OBVIOUS
  <1>2. /\ pc = "save" /\ files # <<>> /\ files' = Tail(files)
        /\ ckpt' = WithFile(ckpt, step, file, saves)
        /\ trained' = IF file = "adapter" THEN [trained EXCEPT ![step] = rows] ELSE trained
        /\ UNCHANGED <<adaptive, saves, pc, segment, step, micro, scale, used, rows, window, crashes>>
    BY <1>1 DEF WriteFile, WithFile
  <1>3. /\ step \in Steps /\ step \in Nat /\ segment \in DOMAIN Segments
        /\ \A k \in DOMAIN Segments : Stop(k) \in Steps /\ (Stop(k) = step => k = segment)
    BY <1>0, WriteKeepsOthers DEF InSave
  <1>4. PICK n \in 0 .. 5 : files = Left(n) /\ Written(n)
    BY <1>0 DEF InSave
  <1>5. /\ file \in Files /\ n - 1 \in 0 .. 4 /\ files' = Left(n - 1)
        /\ \/ n = 5 /\ file = "adapter"
           \/ n = 3 /\ file = "optimizer"
           \/ n = 2 /\ file = "trainer_state"
    BY <1>1, <1>2, <1>4, NextFile DEF Files
  <1>6. /\ ckpt' \in [Steps -> Checkpoints]
        /\ DOMAIN ckpt'[step] = DOMAIN ckpt[step] \cup {file} /\ ckpt'[step][file] = saves
        /\ \A g \in DOMAIN ckpt[step] : g # file => ckpt'[step][g] = ckpt[step][g]
        /\ \A t \in Steps \ {step} : ckpt'[t] = ckpt[t]
    <2>1. ckpt \in [Steps -> Checkpoints] /\ saves \in Nat
      BY <1>0 DEF TrainerTypeOK
    <2>2. QED
      BY <1>2, <1>3, <1>5, <2>1, OneFileMore
  <1>7. /\ trained' \in [Steps -> Seq(Nat \X Nat)]
        /\ file = "adapter" => trained'[step] = rows
        /\ file # "adapter" => trained' = trained
        /\ \A t \in Steps \ {step} : trained'[t] = trained[t]
    BY <1>0, <1>2, <1>3 DEF TrainerTypeOK
  <1>8. \A k \in DOMAIN Segments :
           Finished(k)' <=> Finished(k) \/ (Stop(k) = step /\ file = "trainer_state")
    <2>1. ASSUME NEW k \in DOMAIN Segments
          PROVE  "trainer_state" \in DOMAIN ckpt'[Stop(k)] <=>
                   Finished(k) \/ (Stop(k) = step /\ file = "trainer_state")
      <3>1. CASE Stop(k) = step
        BY <1>6, <3>1 DEF Finished
      <3>2. CASE Stop(k) # step
        <4>1. ckpt'[Stop(k)] = ckpt[Stop(k)]
          BY <1>3, <1>6, <3>2
        <4>2. QED
          BY <3>2, <4>1 DEF Finished
      <3>3. QED
        BY <3>1, <3>2
    <2>2. QED
      BY <2>1 DEF Finished
  <1>9. TrainerTypeOK'
    BY <1>0, <1>2, <1>5, <1>6, <1>7 DEF TrainerTypeOK
  <1>10. InSave'
    <2>1. Before(segment)' = Before(segment) /\ Stop(segment)' = Stop(segment)
      BY <1>2 DEF Before, Stop
    <2>2. \A f \in Files : f # file /\ Holds(f) => Holds(f)'
      BY <1>2, <1>6 DEF Holds
    <2>3. Holds(file)'
      BY <1>2, <1>6 DEF Holds
    <2>4. Written(n - 1)'
      <3>1. trained'[step] = rows /\ Holds("adapter")'
        BY <1>4, <1>7, <1>5, <2>2, <2>3 DEF Written, Files
      <3>2. n - 1 <= 3 => adaptive[step] = scale
        BY <1>4, <1>5 DEF Written
      <3>3. n - 1 <= 2 => Holds("optimizer")'
        BY <1>4, <1>5, <2>2, <2>3 DEF Written, Files
      <3>4. n - 1 <= 1 => Holds("trainer_state")'
        BY <1>5, <2>3
      <3>5. n - 1 >= 2 /\ step = Stop(segment) => ~ Finished(segment)'
        BY <1>2, <1>3, <1>4, <1>8, <1>5 DEF Written
      <3>6. QED
        BY <1>2, <2>1, <3>1, <3>2, <3>3, <3>4, <3>5 DEF Written
    <2>5. QED
      BY <1>0, <1>2, <1>5, <2>1, <2>4 DEF InSave
  <1>11. ResumableInSync'
    <2>1. ASSUME NEW k \in DOMAIN Segments, Finished(k)'
          PROVE  /\ Required \subseteq DOMAIN ckpt'[Stop(k)]
                 /\ \A f, g \in Required : ckpt'[Stop(k)][f] = ckpt'[Stop(k)][g]
                 /\ adaptive'[Stop(k)] =
                      [windows |-> Stop(k), pending |-> 0, seen |-> Stop(k) * ProblemsPerUpdate]
                 /\ Len(trained'[Stop(k)]) = Stop(k)
      <3>1. CASE Stop(k) # step
        <4>1. /\ ckpt'[Stop(k)] = ckpt[Stop(k)] /\ trained'[Stop(k)] = trained[Stop(k)]
              /\ adaptive' = adaptive
          BY <1>2, <1>3, <1>6, <1>7, <3>1
        <4>2. Finished(k)
          BY <1>8, <2>1, <3>1
        <4>3. QED
          BY <1>0, <4>1, <4>2 DEF ResumableInSync, Resumable
      <3>2. CASE Stop(k) = step
        <4>1. k = segment /\ step = Stop(segment)
          BY <1>3, <3>2
        <4>2. ~ Finished(segment)
          BY <1>4, <1>5, <4>1 DEF Written
        <4>3. file = "trainer_state" /\ n = 2
          BY <1>8, <1>5, <2>1, <4>1, <4>2
        <4>4. Holds("adapter") /\ Holds("optimizer") /\ trained[step] = rows /\ adaptive[step] = scale
          BY <1>4, <4>3 DEF Written
        <4>5. /\ \A f \in Required : f \in DOMAIN ckpt'[step] /\ ckpt'[step][f] = saves
              /\ trained'[step] = rows
          BY <1>6, <1>7, <4>3, <4>4 DEF Holds, Required
        <4>7. scale = [windows |-> step, pending |-> 0, seen |-> step * ProblemsPerUpdate]
          BY <1>0, ScaleAtBoundary DEF InSave
        <4>8. Len(rows) = step
          BY <1>0 DEF InSegment
        <4>9. QED
          BY <1>2, <3>2, <4>4, <4>5, <4>7, <4>8
      <3>3. QED
        BY <3>1, <3>2
    <2>2. QED
      BY <2>1 DEF ResumableInSync, Resumable, Stop
  <1>12. InSegment'
    <2>1. step < Stop(segment) => ~ Finished(segment)'
      <3>1. step < Stop(segment) => ~ Finished(segment)
        BY <1>0 DEF InSegment
      <3>2. step \in Nat /\ Stop(segment) \in Nat
        BY <1>3, SegmentSteps
      <3>3. QED
        BY <1>2, <1>3, <1>8, <3>1, <3>2
    <2>2. \A j \in 1 .. segment - 1 : Finished(j)'
      <3>1. \A j \in 1 .. segment - 1 : Finished(j) /\ j \in DOMAIN Segments
        BY <1>0, <1>3, SegmentOrder DEF InSegment
      <3>2. QED
        BY <1>8, <3>1
    <2>3. QED
      BY <1>0, <1>2, <2>1, <2>2 DEF InSegment, Before, Stop
  <1>13. QED
    BY <1>9, <1>10, <1>11, <1>12 DEF TrainerInv

LEMMA SaveBeginsAtStop ==
    ASSUME TrainerInv, TailSave
    PROVE  TrainerInv'
  <1>0. TrainerTypeOK /\ ResumableInSync /\ InSegment
    BY DEF TrainerInv, TailSave
  <1>1. /\ pc = "train" /\ step >= Stop(segment) /\ micro = 0 /\ step \notin Dirs
        /\ saves' = saves + 1 /\ files' = SaveOrder /\ pc' = "save" /\ UNCHANGED disk
        /\ UNCHANGED <<segment, step, micro, scale, used, rows, window, crashes>>
    BY DEF TailSave, AtStop, BeginSave
  <1>2. step \in Nat /\ segment \in DOMAIN Segments /\ Stop(segment) \in Nat /\ step = Stop(segment)
        /\ Before(segment) < step /\ step \in Steps
    BY <1>0, <1>1, SegmentSteps DEF TrainerTypeOK, InSegment
  <1>3. ~ Finished(segment)
    <2>1. ckpt[step] = Absent
      BY <1>1, <1>2 DEF Dirs
    <2>2. QED
      BY <1>2, <2>1 DEF Finished, Absent
  <1>4. TrainerTypeOK'
    BY <1>0, <1>1 DEF TrainerTypeOK, disk, Left
  <1>5. ResumableInSync' /\ \A j : Finished(j)' = Finished(j)
    BY <1>0, <1>1, SameDisk
  <1>6. InSegment'
    BY <1>0, <1>1, <1>5 DEF InSegment, Before, Stop
  <1>7. InSave'
    <2>1. files' = Left(5) /\ 5 \in 0 .. 5
      BY <1>1 DEF Left
    <2>2. Written(5)'
      BY <1>1, <1>3, <1>5 DEF Written, Stop
    <2>3. QED
      BY <1>1, <1>2, <2>1, <2>2 DEF InSave, Before, Stop
  <1>8. QED
    BY <1>1, <1>4, <1>5, <1>6, <1>7 DEF TrainerInv

LEMMA PausesKeep ==
    ASSUME TrainerInv, EndSave \/ Return \/ Crash \/ UNCHANGED vars
    PROVE  TrainerInv'
  <1>0. TrainerTypeOK /\ ResumableInSync
    BY DEF TrainerInv
  <1>1. /\ UNCHANGED disk
        /\ UNCHANGED <<saves, segment, step, micro, scale, used, rows, window, files>>
        /\ pc' \in {"down", "train", "save", "returned"} /\ crashes' \in Nat
        /\ pc' \in {"train", "save"} => pc \in {"train", "save"}
        /\ pc' = "save" => pc = "save"
    BY <1>0 DEF EndSave, Return, Crash, vars, disk, TrainerTypeOK
  <1>2. TrainerTypeOK'
    BY <1>0, <1>1 DEF TrainerTypeOK, disk
  <1>3. ResumableInSync' /\ \A j : Finished(j)' = Finished(j)
    BY <1>0, <1>1, SameDisk
  <1>4. ASSUME pc' \in {"train", "save"} PROVE InSegment'
    <2>1. InSegment
      BY <1>1, <1>4 DEF TrainerInv
    <2>2. QED
      BY <1>1, <1>3, <2>1 DEF InSegment, Before, Stop
  <1>5. ASSUME pc' = "save" PROVE InSave'
    <2>1. InSave
      BY <1>1, <1>5 DEF TrainerInv
    <2>2. QED
      BY <1>1, <1>3, <2>1 DEF InSave, Written, Holds, Before, Stop, disk
  <1>6. QED
    BY <1>2, <1>3, <1>4, <1>5 DEF TrainerInv

LEMMA InvariantKept == TrainerInv /\ [Next]_vars => TrainerInv'
  <1>1. SUFFICES ASSUME TrainerInv, [Next]_vars PROVE TrainerInv'
    OBVIOUS
  <1>2. CASE \E k \in DOMAIN Segments : Start(k)
    BY <1>1, <1>2, StartKeeps
  <1>3. CASE ~ AtStop /\ Microstep
    BY <1>1, <1>3, MicrostepKeeps
  <1>4. CASE OptimizerStep
    BY <1>1, <1>4, OptimizerStepKeeps
  <1>5. CASE WriteFile
    BY <1>1, <1>5, WriteStateKeeps, WriteCheckpointKeeps
  <1>6. CASE TailSave
    BY <1>1, <1>6, SaveBeginsAtStop
  <1>7. CASE EndSave \/ Return \/ Crash \/ UNCHANGED vars
    BY <1>1, <1>7, PausesKeep
  <1>8. QED
    BY <1>1, <1>2, <1>3, <1>4, <1>5, <1>6, <1>7 DEF Next

LEMMA TrainerInvariant == Spec => []TrainerInv
  <1>1. QED
    BY InitInv, InvariantKept, PTL DEF Spec

------------------------------------------------------------------------------
(* Theorems                                                                *)

\* Every reachable state of the trainer is well typed: the segment it works on
\* is one of the schedule and what a save has left is a rest of its order.
THEOREM TrainerTypes == Spec => []TrainerTypeOK
  <1>1. TrainerInv => TrainerTypeOK
    BY DEF TrainerInv
  <1>2. QED
    BY <1>1, TrainerInvariant, PTL

\* However a cycle is cut into segments and wherever its processes die, all
\* groups of an update are normalized with the scale that exactly the earlier
\* windows committed.
THEOREM OneScalePerUpdate == Spec => []LaggedScale
  <1>1. TrainerInv => LaggedScale
    <2>1. SUFFICES ASSUME TrainerInv, pc = "train"
                   PROVE  /\ used \subseteq {step}
                          /\ scale.windows + scale.pending \in step .. step + ProblemsPerUpdate
      BY DEF LaggedScale
    <2>2. InSegment /\ step \in Nat
      BY <2>1 DEF TrainerInv, TrainerTypeOK
    <2>3. PICK G \in 0 .. ProblemsPerUpdate : scale = After(step, G)
      BY <2>2 DEF InSegment
    <2>4. CASE G < ProblemsPerUpdate
      BY <2>2, <2>3, <2>4, Layout DEF After, InSegment
    <2>5. CASE ~ (G < ProblemsPerUpdate)
      BY <2>2, <2>3, <2>5, Layout DEF After, InSegment
    <2>6. QED
      BY <2>4, <2>5
  <1>2. QED
    BY <1>1, TrainerInvariant, PTL

\* A checkpoint that a resume accepts is one save's work and of one step,
\* whatever crashes left in its directory before.
THEOREM CheckpointsWhole == Spec => []ResumableInSync
  <1>1. TrainerInv => ResumableInSync
    BY DEF TrainerInv
  <1>2. QED
    BY <1>1, TrainerInvariant, PTL
==============================================================================
