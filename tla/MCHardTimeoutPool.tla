-------------------------- MODULE MCHardTimeoutPool --------------------------
(* Small batches for HardTimeoutPool.                                       *)
EXTENDS HardTimeoutPool

\* Two attempts of problem 0 at worker 0, one of problem 1 at worker 1.
TwoShards == {<<0, 0>>, <<0, 1>>, <<1, 0>>}
ProblemBatches == <<{<<0, 0>>, <<0, 1>>}, {<<1, 0>>}>>

\* Three attempts of one problem: more than a queue of one holds.
OneShard == {<<0, 0>>, <<0, 1>>, <<0, 2>>}
OneShardBatches == <<OneShard>>
===============================================================================
