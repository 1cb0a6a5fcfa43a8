-------------------------- MODULE MCCommandAdmission --------------------------
(* A small instance of CommandAdmission: three ordinary envelopes of two sizes *)
(* and two controls.  Both limits of the ordinary lane are reachable.          *)
EXTENDS CommandAdmission, FiniteSetsExt

CONSTANTS o1, o2, o3, c1, c2

MCItem    == {o1, o2, o3, c1, c2}
MCControl == {c1, c2}
MCBytes(S) == MapThenSumSet(LAMBDA i : IF i = o3 THEN 2 ELSE 1, S)
=============================================================================
