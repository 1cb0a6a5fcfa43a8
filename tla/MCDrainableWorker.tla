-------------------------- MODULE MCDrainableWorker --------------------------
(* A small instance of DrainableWorker: k1 and k2 are two revisions of one     *)
(* key, n1 is the notification of b1's key by b1's own processing, c1 is a       *)
(* control and big is larger than the whole worker.                              *)
EXTENDS DrainableWorker

CONSTANTS k1, k2, b1, n1, c1, big, ka, kb

MCKeyOf == [r \in Request |-> CASE r \in {k1, k2} -> ka [] r \in {b1, n1} -> kb [] OTHER -> NoKey]
MCRevisionOf == [r \in Request |-> IF r = k2 THEN 2 ELSE 1]
MCSizeOf == [r \in Request |-> CASE r = big -> MaxBytes + 1 [] r = k1 -> 2 [] OTHER -> 1]
==============================================================================
