----------------------------- MODULE MCWorkerPool -----------------------------
EXTENDS WorkerPool, TLC
Symmetry == Permutations(Pids) \cup Permutations(Reqs) \cup Permutations(Users)
===============================================================================
