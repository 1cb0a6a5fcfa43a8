------------------------ MODULE MCOrchestrationEngine ------------------------
(* Small instances of OrchestrationEngine.  Names of calls: the first letter is *)
(* the kind (s start, e steer, x stop, a answer to an approval, n notice).      *)
EXTENDS OrchestrationEngine

CONSTANTS s1, e1, e2, x1, x2, a1, nx1, nx2, na1,   \* calls
          cs, cx, ca, cnx1, cnx2, cna1,            \* command ids
          t1, t2

\* e2 is the retry of the steer e1, s1 the start made of them when they come back; x1
\* and x2 are a stop and its duplicate.
MCCommandOf == [r \in Request |->
  CASE r \in {s1, e1, e2} -> cs [] r \in {x1, x2} -> cx [] r = a1 -> ca
    [] r = nx1 -> cnx1 [] r = nx2 -> cnx2 [] r = na1 -> cna1]
MCKindOf == [r \in Request |->
  CASE r = s1 -> "start" [] r \in {e1, e2} -> "steer" [] r \in {x1, x2} -> "stop"
    [] r = a1 -> "respond" [] r \in {nx1, nx2, na1} -> "notice"]
MCNoticeOf == [r \in Control |-> CASE r = x1 -> nx1 [] r = x2 -> nx2 [] r = a1 -> na1]

OneThread == [r \in Request |-> t1]
\* The second call reuses the command id for another thread.
TwoThreads == [r \in Request |-> IF r \in {e2, x2, nx2} THEN t2 ELSE t1]
==============================================================================
