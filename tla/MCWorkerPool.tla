----------------------------- MODULE MCWorkerPool -----------------------------
(* Instance of WorkerPool for TLC: one worker with more jobs than it takes  *)
(* at a time, so that it is replaced and goes on; and two workers with one  *)
(* job, so that one is idle, late or dead while the other has it, in one run *)
(* with a line too many and in two without.                                  *)
EXTENDS WorkerPool

CONSTANTS w1, w2, j1, j2

MCPools == {[workers |-> {w1}, jobs |-> {j1, j2}, runs |-> 2, extra |-> 1],
            [workers |-> {w1, w2}, jobs |-> {j1}, runs |-> 1, extra |-> 1],
            [workers |-> {w1, w2}, jobs |-> {j1}, runs |-> 2, extra |-> 0]}

================================================================================
