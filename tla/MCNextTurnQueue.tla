--------------------------- MODULE MCNextTurnQueue ---------------------------
(* A small instance of NextTurnQueue: a is sent by the user; b is a steer, the *)
(* continuation of a turn, or the run of a scheduled task.                     *)
EXTENDS NextTurnQueue

CONSTANTS a, b

Intents == [i \in Item |-> IF i = a THEN {"auto"} ELSE {"steer", "continuation", "scheduled"}]
==============================================================================
