---------------------------- MODULE MCWorkQueue -----------------------------
(* Small instances of the work queue for TLC: the jobs of one run, plus    *)
(* standalone work; which of them a run checks is chosen in its cfg.       *)
EXTENDS WorkQueue, TLC

CONSTANTS w1, w2, r1, a, b

MCJobOf == [t \in Task |-> CHOOSE j \in Job : TRUE]
MCRunOf == [j \in Job |-> r1]
AloneRunOf == [j \in Job |-> NoRun]
WorkerSymmetry == Permutations(Worker)
FullSymmetry == Permutations(Worker) \cup Permutations(Task)

=============================================================================
