---------------------------- MODULE BenchmarkMC ----------------------------
(* Two runs of the benchmark side by side. *)
EXTENDS Benchmark, TLC

RunSymmetry == Permutations(Runs)
=============================================================================
