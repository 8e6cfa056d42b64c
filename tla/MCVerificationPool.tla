-------------------------- MODULE MCVerificationPool --------------------------
(* Small batches for VerificationPool.                                      *)
EXTENDS VerificationPool

\* Two attempts of problem 0 at worker 0, one of problem 1 at worker 1, in one
\* batch or one batch per problem.
TwoShards == {<<0, 0>>, <<0, 1>>, <<1, 0>>}
ProblemBatches == <<{<<0, 0>>, <<0, 1>>}, {<<1, 0>>}>>

\* One attempt per worker, then the rest of problem 0.
CrossedBatches == <<{<<0, 0>>, <<1, 0>>}, {<<0, 1>>}>>
===============================================================================
