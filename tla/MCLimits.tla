------------------------------ MODULE MCLimits ------------------------------
(* Callers of one tool, for TLC. *)
EXTENDS Limits, TLC

\* Neither callers nor arguments differ but in name.
Symmetric == Permutations(Callers) \cup Permutations(Inputs)

\* In threads every statement interleaves, and fewer ticks and calls do.
LoopOrThreads(loop, threads) == [p \in BOOLEAN |-> IF p THEN threads ELSE loop]
MCMaxClock == LoopOrThreads(6, 1)
MCMaxAdmitted == LoopOrThreads(5, 5)
=============================================================================
