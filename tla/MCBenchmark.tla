---------------------------- MODULE MCBenchmark -----------------------------
(***************************************************************************)
(* Benchmark on a small instance: one backend, one model whose configured  *)
(* limit is below one request per second, and requests that are            *)
(* interchangeable.                                                        *)
(***************************************************************************)
EXTENDS MCGateway, Benchmark

OneBackend == <<"heavy">>
ZeroRPS == [m \in Models |-> 0]
Symmetry == Permutations(Sent)
=============================================================================
