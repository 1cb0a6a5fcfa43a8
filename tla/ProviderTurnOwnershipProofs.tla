--------------------- MODULE ProviderTurnOwnershipProofs ---------------------
(***************************************************************************)
(* Who owns a thread: starts of one thread never run side by side, never   *)
(* overtake one another, and never get past a stop that was carried out.   *)
(* The invariant of ProviderTurnDeliveryProofs ties a row to its own       *)
(* operation; here the rows of one thread, the session generation and the  *)
(* stop fence are tied together.                                           *)
(***************************************************************************)
EXTENDS ProviderTurnDeliveryProofs

Fencing == {"fencing", "intent", "ready"}

\* An operation remembers a generation its session had; a session it still matches
\* was not stopped since.
Generations ==
  \A d \in Delivery : op[d].pc \in Fencing =>
    /\ op[d].generation <= generation[ThreadOf[d]]
    /\ d \in Starts /\ op[d].generation = generation[ThreadOf[d]] => ~sessionStopped[ThreadOf[d]]

\* A stopped session has no turns.
StoppedIsEmpty == \A d \in Starts : sessionStopped[ThreadOf[d]] => ~AtProvider(d)

\* Event sequences differ, and the fence covers every stop that was carried out.
Clock ==
  /\ \A d \in Delivery : seq[d] <= lastSeq /\ (row[d].state # "none" => seq[d] > 0)
  /\ \A t \in Thread : halted[t] <= stoppedSequences[t] /\ stoppedSequences[t] <= lastSeq
  /\ \A c \in controls : 0 < c[2] /\ c[2] <= stoppedSequences[c[1]]
  /\ \A d \in Delivery : seq[d] > 0 =>
       seq[d] # halted[ThreadOf[d]] /\ \A c \in controls : seq[d] # c[2]

\* Past the fence, an operation of the current generation is younger than every such stop.
Fenced ==
  \A d \in Delivery : op[d].pc \in {"intent", "ready"} /\ op[d].generation = generation[ThreadOf[d]]
    => seq[d] > halted[ThreadOf[d]]

\* No start requested before waits while a later one is on its way.
InOrder ==
  \A d, e \in Starts : op[d].pc \in Unsent /\ SameThread(d, e) /\ RequestedBefore(e, d)
       => row[e].state # "pending" \/ retries[e] > 0

\* Without a retry, only an unresolved attempt has a turn at the provider.
TurnInv ==
  \A d \in Delivery :
    /\ row[d].released => row[d].state = "accepted"
    /\ AtProvider(d) /\ retries[d] = 0 /\ row[d].state # "abandoned" =>
         \/ row[d].state = "sending" /\ lastSent[d] = row[d].attemptId
         \/ row[d].state = "ambiguous"
         \/ row[d].state = "accepted" /\ ~row[d].released

ThreadInv == Generations /\ StoppedIsEmpty /\ OneOwner /\ Clock /\ Fenced
OwnInv == IInv /\ ThreadInv /\ InOrder /\ TurnInv

-----------------------------------------------------------------------------
(* Steps that leave the clock, the sessions and the fence alone. *)

Calm ==
  /\ UNCHANGED <<seq, lastSeq, stoppedSequences, generation, sessionStopped, halted>>
  /\ controls' \subseteq controls
  /\ \A d \in Delivery : row'[d].state # "none" => row[d].state # "none"
  /\ \A d \in Delivery : AtProvider(d)' => AtProvider(d)
  /\ \A d \in Starts : Unresolved(d)' => Unresolved(d)
  /\ \A d \in Delivery : op'[d].pc \in Fencing =>
       op[d].pc \in Fencing /\ op'[d].generation = op[d].generation
  /\ \A d \in Delivery : op'[d].pc \in {"intent", "ready"} =>
       op[d].pc \in {"intent", "ready"} \/ seq[d] > halted[ThreadOf[d]]

LEMMA CalmStep ==
  ASSUME ThreadInv, Calm PROVE ThreadInv'
<1>1. Generations'
  BY DEF ThreadInv, Generations, Calm
<1>2. StoppedIsEmpty'
  BY DEF ThreadInv, StoppedIsEmpty, Calm, Starts
<1>3. OneOwner'
  BY DEF ThreadInv, OneOwner, Calm, SameThread
<1>4. Clock'
  BY DEF ThreadInv, Clock, Calm
<1>5. Fenced'
  BY DEF ThreadInv, Fenced, Calm, Fencing
<1>6. QED
  BY <1>1, <1>2, <1>3, <1>4, <1>5 DEF ThreadInv

\* No start joins the pending ones of its thread and no operation its unsent ones.
Orderly ==
  /\ seq' = seq
  /\ \A d \in Delivery : op'[d].pc \in Unsent => op[d].pc \in Unsent
  /\ \A d \in Delivery : retries[d] > 0 => retries'[d] > 0
  /\ \A d \in Delivery : row'[d].state = "pending" => row[d].state = "pending" \/ retries'[d] > 0

LEMMA OrderlyStep ==
  ASSUME InOrder, Orderly PROVE InOrder'
  BY DEF InOrder, Orderly, Starts, SameThread, RequestedBefore

\* The columns TurnInv looks at, for one delivery.
SameTurn(d) ==
  /\ row'[d].state = row[d].state /\ row'[d].released = row[d].released
  /\ row'[d].attemptId = row[d].attemptId /\ lastSent'[d] = lastSent[d]
  /\ AtProvider(d)' => AtProvider(d)
  /\ retries'[d] = retries[d]

LEMMA SameTurnStep ==
  ASSUME TurnInv, \A d \in Delivery : SameTurn(d) PROVE TurnInv'
  BY DEF TurnInv, SameTurn

\* A step that changes nothing but operations and columns nobody here looks at.
LEMMA QuietStep ==
  ASSUME OwnInv, IInv',
         UNCHANGED <<seq, lastSeq, stoppedSequences, session, retries, lastSent, halted>>,
         controls' \subseteq controls,
         \A d \in Delivery : /\ row'[d].state = row[d].state /\ row'[d].released = row[d].released
                             /\ row'[d].attemptId = row[d].attemptId,
         \A d \in Delivery : op'[d].pc \in Fencing =>
           op[d].pc \in Fencing /\ op'[d].generation = op[d].generation,
         \A d \in Delivery : op'[d].pc \in {"intent", "ready"} =>
           op[d].pc \in {"intent", "ready"} \/ seq[d] > halted[ThreadOf[d]],
         \A d \in Delivery : op'[d].pc \in Unsent => op[d].pc \in Unsent
  PROVE  OwnInv'
<1>1. \A d \in Delivery : (AtProvider(d)' <=> AtProvider(d)) /\ (Unresolved(d)' <=> Unresolved(d))
  BY DEF AtProvider, Unresolved, session
<1>2. Calm
  BY <1>1 DEF Calm, Starts, session
<1>3. Orderly
  BY DEF Orderly
<1>4. \A d \in Delivery : SameTurn(d)
  BY <1>1 DEF SameTurn
<1>5. QED
  BY <1>2, <1>3, <1>4, CalmStep, OrderlyStep, SameTurnStep DEF OwnInv

\* The operation on d leaves, or does not enter, the part before the provider call.
LEMMA LeaveStep ==
  ASSUME OwnInv, IInv', NEW d \in Delivery, row' = row,
         \A e \in Delivery \ {d} : op'[e] = op[e], op'[d].pc \notin Unsent,
         UNCHANGED <<seq, lastSeq, stoppedSequences, session, retries, lastSent, halted>>,
         controls' \subseteq controls
  PROVE  OwnInv'
<1>1. Fencing \subseteq Unsent /\ {"intent", "ready"} \subseteq Unsent
  BY DEF Fencing, Unsent, Owning
<1>2. \A e \in Delivery : op'[e].pc \in Unsent => op'[e] = op[e]
  OBVIOUS
<1>3. QED
  BY <1>1, <1>2, QuietStep

LEMMA FailsLeaves ==
  ASSUME OwnInv, IInv', NEW d \in Delivery, NEW exit \in Exit, Fails(d, exit),
         UNCHANGED <<durable, phase, stoppedSequences, controls, session, history>>
  PROVE  OwnInv'
<1>1. op'[d].pc = "settling" /\ \A e \in Delivery \ {d} : op'[e] = op[e]
  BY Parts, FailsType, OpUpdate DEF OwnInv
<1>2. QED
  BY <1>1, LeaveStep DEF Unsent, Owning, durable, history

LEMMA TakeSlotOwn ==
  ASSUME OwnInv, IInv', NEW d \in Delivery, TakeSlot(d) PROVE OwnInv'
<1>1. UNCHANGED <<durable, phase, stoppedSequences, controls, session, history>> /\ op[d].pc = "claimed"
  BY DEF TakeSlot
<1>2. CASE Fails(d, "retryable")
  BY <1>1, <1>2, FailsLeaves DEF Exit
<1>3. CASE op' = [op EXCEPT ![d].pc = "preparing"]
  <2>1. op'[d].pc = "preparing" /\ \A e \in Delivery \ {d} : op'[e] = op[e]
    BY <1>3, Parts DEF OwnInv, Operation
  <2>2. QED
    BY <1>1, <2>1, QuietStep DEF Fencing, Unsent, Owning, durable, history
<1>4. QED
  BY <1>2, <1>3 DEF TakeSlot

LEMMA HandoffOwn ==
  ASSUME OwnInv, IInv', NEW d \in Delivery, Handoff(d) PROVE OwnInv'
<1>1. UNCHANGED <<durable, phase, stoppedSequences, controls, session, history>> /\ op[d].pc = "intent"
  BY DEF Handoff
<1>2. CASE Fails(d, "retryable") \/ Fails(d, "final")
  BY <1>1, <1>2, FailsLeaves DEF Exit
<1>3. CASE op' = [op EXCEPT ![d].pc = "ready"]
  <2>1. /\ op'[d].pc = "ready" /\ op'[d].generation = op[d].generation
        /\ \A e \in Delivery \ {d} : op'[e] = op[e]
    BY <1>3, Parts DEF OwnInv, Operation
  <2>2. QED
    BY <1>1, <2>1, QuietStep DEF Fencing, Unsent, Owning, durable, history
<1>4. QED
  BY <1>2, <1>3 DEF Handoff

\* The fence: not superseded means younger than every stop that was carried out.
LEMMA FenceOwn ==
  ASSUME OwnInv, IInv', NEW d \in Delivery, Fence(d) PROVE OwnInv'
<1>1. UNCHANGED <<durable, phase, stoppedSequences, controls, session, history>> /\ op[d].pc = "fencing"
  BY DEF Fence
<1>2. CASE Fails(d, "retryable") \/ Fails(d, "final")
  BY <1>1, <1>2, FailsLeaves DEF Exit
<1>3. CASE op' = [op EXCEPT ![d].pc = "intent"] /\ ~Superseded(d) /\ row[d].state = "sending"
  <2>1. /\ op'[d].pc = "intent" /\ op'[d].generation = op[d].generation
        /\ \A e \in Delivery \ {d} : op'[e] = op[e]
    BY <1>3, Parts DEF OwnInv, Operation
  <2>2. ThreadOf[d] \in Thread
    BY DeliveryAssumption
  <2>3. seq[d] \in Nat /\ halted[ThreadOf[d]] \in Nat /\ stoppedSequences[ThreadOf[d]] \in Nat
    BY <2>2 DEF OwnInv, IInv, TypeOK
  <2>4. seq[d] > 0 /\ seq[d] # halted[ThreadOf[d]] /\ halted[ThreadOf[d]] <= stoppedSequences[ThreadOf[d]]
    BY <1>3, <2>2 DEF OwnInv, ThreadInv, Clock
  <2>5. seq[d] > halted[ThreadOf[d]]
    BY <1>3, <2>3, <2>4 DEF Superseded
  <2>6. QED
    BY <1>1, <2>1, <2>5, QuietStep DEF Fencing, Unsent, Owning, durable, history
<1>4. QED
  BY <1>2, <1>3 DEF Fence

LEMMA BeginOwn ==
  ASSUME OwnInv, IInv', NEW d \in Delivery, Begin(d) PROVE OwnInv'
<1>1. op'[d].pc = "reading" /\ \A e \in Delivery \ {d} : op'[e] = op[e]
  BY Parts DEF OwnInv, Begin, Idle
<1>2. QED
  BY <1>1, LeaveStep DEF Begin, Unsent, Owning, durable, history

LEMMA OperationDiesOwn ==
  ASSUME OwnInv, IInv', NEW d \in Delivery, OperationDies(d) PROVE OwnInv'
<1>1. op'[d].pc = "idle" /\ \A e \in Delivery \ {d} : op'[e] = op[e]
  BY Parts DEF OwnInv, OperationDies, Idle
<1>2. QED
  BY <1>1, LeaveStep DEF OperationDies, DatabaseFails, Unsent, Owning, durable

LEMMA StopExpiresOwn ==
  ASSUME OwnInv, IInv', NEW c \in controls, StopExpires(c[1], c[2]) PROVE OwnInv'
<1>1. \A d \in Delivery : op'[d].pc \in Unsent => op'[d] = op[d]
  BY Parts DEF StopExpires, Idle, Unsent, Owning, OwnInv, Operation
<1>2. controls' \subseteq controls
  BY DEF StopExpires
<1>3. QED
  BY <1>1, <1>2, QuietStep DEF StopExpires, Fencing, Unsent, Owning, durable, history

LEMMA PhaseOwn ==
  ASSUME OwnInv, IInv', BeginShutdown \/ StartWorker PROVE OwnInv'
<1>1. UNCHANGED <<row, op, controls, seq, lastSeq, stoppedSequences, session, retries, lastSent, halted>>
  BY DEF BeginShutdown, StartWorker, DatabaseFails, durable, history
<1>2. QED
  BY <1>1, QuietStep

\* Steps on columns the ownership does not depend on.
LEMMA ColumnOwn ==
  ASSUME OwnInv, IInv', NEW d \in Delivery, BackoffElapses(d) \/ ProjectOutcome(d) \/ Recheck(d)
  PROVE  OwnInv'
<1>1. \A e \in Delivery : /\ row'[e].state = row[e].state /\ row'[e].released = row[e].released
                          /\ row'[e].attemptId = row[e].attemptId
  BY Parts, NotProven DEF OwnInv, BackoffElapses, ProjectOutcome, Recheck, Row
<1>2. UNCHANGED <<op, controls, seq, lastSeq, stoppedSequences, session, retries, lastSent, halted>>
  BY DEF BackoffElapses, ProjectOutcome, Recheck, process, history
<1>3. QED
  BY <1>1, <1>2, QuietStep

-----------------------------------------------------------------------------
(* Steps of the engine and of the provider. *)

LEMMA RequestTurnOwn ==
  ASSUME OwnInv, IInv', NEW d \in Delivery, RequestTurn(d) PROVE OwnInv'
<1>1. /\ row[d].state = "none" /\ row'[d].state = "pending" /\ row'[d].released = row[d].released
      /\ row'[d].attemptId = row[d].attemptId /\ \A e \in Delivery \ {d} : row'[e] = row[e]
  BY Parts DEF OwnInv, RequestTurn, Row
<1>2. /\ lastSeq \in Nat /\ seq \in [Delivery -> Nat] /\ lastSeq' = lastSeq + 1
      /\ seq'[d] = lastSeq + 1 /\ \A e \in Delivery \ {d} : seq'[e] = seq[e]
  BY DEF OwnInv, IInv, TypeOK, RequestTurn
<1>3. UNCHANGED <<op, controls, stoppedSequences, session, retries, lastSent, halted>>
  BY DEF RequestTurn, process, history
<1>4. \A e \in Delivery : (AtProvider(e)' <=> AtProvider(e)) /\ (Unresolved(e)' <=> Unresolved(e))
  BY <1>1, <1>3 DEF AtProvider, Unresolved, session
<1>5. Generations' /\ StoppedIsEmpty' /\ OneOwner'
  BY <1>3, <1>4 DEF OwnInv, ThreadInv, Generations, StoppedIsEmpty, OneOwner, session, Starts, SameThread
<1>6. \A t \in Thread : halted[t] \in Nat /\ stoppedSequences[t] \in Nat
  BY DEF OwnInv, IInv, TypeOK
<1>7. \A c \in controls : c[1] \in Thread /\ c[2] \in Nat
  BY DEF OwnInv, IInv, TypeOK
<1>8. \A e \in Delivery : ThreadOf[e] \in Thread
  BY DeliveryAssumption
<1>9. \A t \in Thread : halted[t] <= lastSeq /\ stoppedSequences[t] <= lastSeq
  BY <1>2, <1>6 DEF OwnInv, ThreadInv, Clock
<1>10. \A c \in controls : c[2] <= lastSeq
  BY <1>2, <1>6, <1>7, <1>9 DEF OwnInv, ThreadInv, Clock
<1>11. Clock'
  BY <1>1, <1>2, <1>3, <1>6, <1>7, <1>8, <1>9, <1>10 DEF OwnInv, ThreadInv, Clock
<1>12. op[d].pc \notin Owning
  BY <1>1, Parts DEF OwnInv, Sound
<1>13. Fenced'
  BY <1>2, <1>3, <1>12 DEF OwnInv, ThreadInv, Fenced, session, Owning
<1>14. InOrder'
  <2>1. \A e \in Starts : seq[e] <= lastSeq /\ seq[e] \in Nat
    BY <1>2 DEF OwnInv, ThreadInv, Clock, Starts
  <2>2. QED
    BY <1>1, <1>2, <1>3, <1>12, <2>1 DEF OwnInv, InOrder, Starts, SameThread, Unsent, RequestedBefore
<1>15. TurnInv'
  BY <1>1, <1>3, <1>4 DEF OwnInv, TurnInv
<1>16. QED
  BY <1>5, <1>11, <1>13, <1>14, <1>15 DEF OwnInv, ThreadInv

LEMMA StopCommitsOwn ==
  ASSUME OwnInv, IInv', NEW t \in Thread, StopCommits(t) PROVE OwnInv'
<1>1. \A d \in Delivery :
        /\ row'[d].released = row[d].released /\ row'[d].attemptId = row[d].attemptId
        /\ \/ row'[d].state = row[d].state
           \/ row[d].state = "pending" /\ row'[d].state = "rejected"
  BY Parts DEF OwnInv, StopCommits, Row
<1>2. UNCHANGED <<seq, op, session, retries, lastSent, halted>>
  BY DEF StopCommits
<1>3. \A d \in Delivery : (AtProvider(d)' <=> AtProvider(d)) /\ (Unresolved(d)' <=> Unresolved(d))
  BY <1>1, <1>2 DEF AtProvider, Unresolved, session
<1>4. Generations' /\ StoppedIsEmpty' /\ OneOwner' /\ Fenced'
  BY <1>2, <1>3
  DEF OwnInv, ThreadInv, Generations, StoppedIsEmpty, OneOwner, Fenced, session, Starts, SameThread
<1>5. /\ lastSeq \in Nat /\ lastSeq' = lastSeq + 1
      /\ stoppedSequences'[t] = lastSeq + 1
      /\ \A u \in Thread : /\ stoppedSequences[u] \in Nat /\ halted[u] \in Nat
                           /\ stoppedSequences[u] <= stoppedSequences'[u]
                           /\ stoppedSequences'[u] <= lastSeq + 1
  BY DEF OwnInv, IInv, TypeOK, ThreadInv, Clock, StopCommits
<1>6. \A c \in controls' : c \in controls \/ (c[1] = t /\ c[2] = lastSeq + 1)
  BY DEF StopCommits
<1>7. \A c \in controls : c[1] \in Thread /\ c[2] \in Nat
  BY DEF OwnInv, IInv, TypeOK
<1>8. \A c \in controls' : 0 < c[2] /\ c[2] <= stoppedSequences'[c[1]]
  <2>1. \A u \in Thread : stoppedSequences'[u] \in Nat
    BY DEF IInv, TypeOK
  <2>2. QED
    BY <1>5, <1>6, <1>7, <2>1 DEF OwnInv, ThreadInv, Clock
<1>9. \A u \in Thread : halted'[u] <= stoppedSequences'[u] /\ stoppedSequences'[u] <= lastSeq'
  <2>1. \A u \in Thread : stoppedSequences'[u] \in Nat
    BY DEF IInv, TypeOK
  <2>2. QED
    BY <1>2, <1>5, <2>1 DEF OwnInv, ThreadInv, Clock
<1>10. \A d \in Delivery : /\ seq[d] \in Nat /\ seq[d] <= lastSeq
                           /\ row'[d].state # "none" => seq[d] > 0
  BY <1>1 DEF OwnInv, IInv, TypeOK, ThreadInv, Clock
<1>11. \A d \in Delivery : seq[d] > 0 => seq[d] # halted[ThreadOf[d]] /\ \A c \in controls' : seq[d] # c[2]
  BY <1>5, <1>6, <1>10 DEF OwnInv, ThreadInv, Clock
<1>12. Clock'
  BY <1>2, <1>5, <1>8, <1>9, <1>10, <1>11 DEF Clock
<1>13. InOrder' /\ TurnInv'
  BY <1>1, <1>2, <1>3 DEF OwnInv, InOrder, TurnInv, Starts, SameThread, RequestedBefore
<1>14. QED
  BY <1>4, <1>12, <1>13 DEF OwnInv, ThreadInv

LEMMA StopProcessedOwn ==
  ASSUME OwnInv, IInv', NEW c \in controls, StopProcessed(c[1], c[2]) PROVE OwnInv'
<1> DEFINE t == c[1]
           s == c[2]
<1>1. t \in Thread /\ s \in Nat
  BY DEF OwnInv, IInv, TypeOK
<1>2. StopProcessed(t, s) /\ 0 < s /\ s <= stoppedSequences[t]
      /\ \A d \in Delivery : seq[d] > 0 => seq[d] # s
  BY DEF OwnInv, ThreadInv, Clock
<1> HIDE DEF t, s
<1>3. \A d \in Delivery : /\ row'[d].state = row[d].state /\ row'[d].attemptId = row[d].attemptId
                          /\ row[d].released => row'[d].released
                          /\ row'[d].released => row[d].released \/ (ThreadOf[d] = t /\ row[d].state = "accepted")
  BY <1>2, Parts DEF OwnInv, StopProcessed, Row
<1>4. \A d \in Delivery : op'[d].pc = op[d].pc /\ op'[d].generation = op[d].generation
  BY <1>2, Parts DEF OwnInv, StopProcessed, Operation
<1>5. \A d \in Delivery : turn'[d] = IF ThreadOf[d] = t THEN Ended(turn[d]) ELSE turn[d]
  BY <1>2 DEF StopProcessed
<1>6. \A d \in Delivery : AtProvider(d)' <=> AtProvider(d) /\ ThreadOf[d] # t
  BY <1>5 DEF AtProvider, Ended
<1>7. \A d \in Delivery : ThreadOf[d] \in Thread /\ op[d].generation \in Nat
  BY Parts, DeliveryAssumption DEF OwnInv, Operation
<1>8. /\ \A u \in Thread : generation[u] \in Nat
      /\ generation'[t] = generation[t] + 1 /\ \A u \in Thread \ {t} : generation'[u] = generation[u]
      /\ sessionStopped'[t] = TRUE /\ \A u \in Thread \ {t} : sessionStopped'[u] = sessionStopped[u]
      /\ halted'[t] = s /\ \A u \in Thread \ {t} : halted'[u] = halted[u]
  <2>1. /\ generation' = [generation EXCEPT ![t] = @ + 1]
        /\ sessionStopped' = [sessionStopped EXCEPT ![t] = TRUE]
        /\ halted' = [halted EXCEPT ![t] = s]
    BY <1>2 DEF StopProcessed
  <2>2. /\ generation \in [Thread -> Nat] /\ sessionStopped \in [Thread -> BOOLEAN]
        /\ halted \in [Thread -> Nat]
    BY DEF OwnInv, IInv, TypeOK
  <2>3. QED
    BY <1>1, <2>1, <2>2
<1>9. UNCHANGED <<seq, lastSeq, stoppedSequences, retries, lastSent>> /\ controls' \subseteq controls
  BY <1>2 DEF StopProcessed
<1>10. Generations'
  BY <1>4, <1>7, <1>8 DEF OwnInv, ThreadInv, Generations
<1>11. StoppedIsEmpty'
  BY <1>6, <1>7, <1>8 DEF OwnInv, ThreadInv, StoppedIsEmpty, Starts
<1>12. \A d \in Delivery : Unresolved(d)' => Unresolved(d)
  BY <1>3, <1>6 DEF Unresolved
<1>13. OneOwner'
  BY <1>12 DEF OwnInv, ThreadInv, OneOwner, Starts, SameThread
<1>14. Clock'
  <2>1. \A d \in Delivery : seq'[d] <= lastSeq' /\ (row'[d].state # "none" => seq'[d] > 0)
    BY <1>3, <1>9 DEF OwnInv, ThreadInv, Clock
  <2>2. \A u \in Thread : halted'[u] <= stoppedSequences'[u] /\ stoppedSequences'[u] <= lastSeq'
    BY <1>2, <1>8, <1>9 DEF OwnInv, ThreadInv, Clock
  <2>3. \A e \in controls' : 0 < e[2] /\ e[2] <= stoppedSequences'[e[1]]
    BY <1>9 DEF OwnInv, ThreadInv, Clock
  <2>4. \A d \in Delivery : seq'[d] > 0 =>
          seq'[d] # halted'[ThreadOf[d]] /\ \A e \in controls' : seq'[d] # e[2]
    BY <1>2, <1>7, <1>8, <1>9 DEF OwnInv, ThreadInv, Clock
  <2>5. QED
    BY <2>1, <2>2, <2>3, <2>4 DEF Clock
<1>15. Fenced'
  <2> SUFFICES ASSUME NEW d \in Delivery, op'[d].pc \in {"intent", "ready"},
                      op'[d].generation = generation'[ThreadOf[d]]
               PROVE  seq'[d] > halted'[ThreadOf[d]]
    BY DEF Fenced
  <2>1. op[d].generation <= generation[ThreadOf[d]]
    BY <1>4 DEF OwnInv, ThreadInv, Generations, Fencing
  <2>2. ThreadOf[d] # t
    BY <1>4, <1>7, <1>8, <2>1
  <2>3. QED
    BY <1>4, <1>7, <1>8, <1>9, <2>2 DEF OwnInv, ThreadInv, Fenced
<1>16. InOrder'
  BY <1>3, <1>4, <1>9 DEF OwnInv, InOrder, Starts, SameThread, RequestedBefore
<1>17. TurnInv'
  BY <1>3, <1>6, <1>9 DEF OwnInv, TurnInv
<1>18. QED
  BY <1>10, <1>11, <1>13, <1>14, <1>15, <1>16, <1>17 DEF OwnInv, ThreadInv

LEMMA TurnStartsOwn ==
  ASSUME OwnInv, IInv', NEW d \in Delivery, TurnStarts(d) PROVE OwnInv'
<1>1. \A e \in Delivery : AtProvider(e)' <=> AtProvider(e)
  BY DEF TurnStarts, AtProvider, OwnInv, IInv, TypeOK
<1>2. UNCHANGED <<row, op, seq, lastSeq, stoppedSequences, controls, generation, sessionStopped, halted,
                  retries, lastSent>>
  BY DEF TurnStarts, durable, process, history
<1>3. \A e \in Delivery : Unresolved(e)' <=> Unresolved(e)
  BY <1>1, <1>2 DEF Unresolved
<1>4. Calm /\ Orderly /\ \A e \in Delivery : SameTurn(e)
  BY <1>1, <1>2, <1>3 DEF Calm, Orderly, SameTurn, Starts
<1>5. QED
  BY <1>4, CalmStep, OrderlyStep, SameTurnStep DEF OwnInv

LEMMA TurnCompletesOwn ==
  ASSUME OwnInv, IInv', NEW d \in Delivery, TurnCompletes(d) PROVE OwnInv'
<1>1. \A e \in Delivery : AtProvider(e)' <=> AtProvider(e) /\ e # d
  BY DEF TurnCompletes, AtProvider, OwnInv, IInv, TypeOK
<1>2. UNCHANGED <<op, seq, lastSeq, stoppedSequences, controls, generation, sessionStopped, halted,
                  retries, lastSent>>
  BY DEF TurnCompletes, process, history
<1>3. \A e \in Delivery : /\ row'[e].state = row[e].state /\ row'[e].attemptId = row[e].attemptId
                          /\ e # d => row'[e] = row[e]
                          /\ row'[e].released => row[e].released \/ row[e].state = "accepted"
  BY Parts DEF OwnInv, TurnCompletes, Row
<1>4. \A e \in Delivery : Unresolved(e)' => Unresolved(e)
  BY <1>1, <1>3 DEF Unresolved
<1>5. Calm /\ Orderly
  BY <1>1, <1>2, <1>3, <1>4 DEF Calm, Orderly, Starts
<1>6. TurnInv'
  BY <1>1, <1>2, <1>3 DEF OwnInv, TurnInv
<1>7. QED
  BY <1>5, <1>6, CalmStep, OrderlyStep DEF OwnInv

-----------------------------------------------------------------------------
(* Steps of the worker, of the user and of the process. *)

\* An unresolved start keeps others from claiming: its session was not stopped.
LEMMA UnresolvedBlocks ==
  ASSUME OwnInv, NEW d \in Starts, NEW e \in Starts, e # d, SameThread(d, e), Unresolved(e)
  PROVE  ~OwnershipAvailable(d)
<1>1. AtProvider(e) => turn[e] # "done" /\ ~sessionStopped[ThreadOf[e]]
  BY DEF AtProvider, OwnInv, ThreadInv, StoppedIsEmpty
<1>2. row[e].state \in {"sending", "ambiguous"} \/ HoldsReservation(e)
  BY <1>1 DEF Unresolved, HoldsReservation
<1>3. QED
  BY <1>2 DEF OwnershipAvailable, Starts

LEMMA ClaimOwn ==
  ASSUME OwnInv, IInv', NEW d \in Delivery, Claim(d) PROVE OwnInv'
<1>1. UNCHANGED <<seq, lastSeq, stoppedSequences, controls, session, retries, lastSent, halted>>
  BY DEF Claim, history
<1>2. CASE row' = row /\ op' = [op EXCEPT ![d] = Idle]
  <2>1. op'[d].pc = "idle" /\ \A e \in Delivery \ {d} : op'[e] = op[e]
    BY <1>2, Parts, IdleType, OpUpdate DEF OwnInv
  <2>2. QED
    BY <1>1, <1>2, <2>1, LeaveStep DEF Unsent, Owning
<1>3. CASE /\ row[d].state = "pending" /\ OwnershipAvailable(d) /\ FifoAvailable(d)
           /\ row' = [row EXCEPT ![d] = Claimed(row[d])]
           /\ op' = [op EXCEPT ![d].pc = "claimed", ![d].attemptId = row[d].attemptId + 1]
  <2>1. op'[d].pc = "claimed" /\ \A e \in Delivery \ {d} : op'[e] = op[e]
    BY <1>3, Parts DEF OwnInv, Operation
  <2>2. row'[d] = Claimed(row[d]) /\ \A e \in Delivery \ {d} : row'[e] = row[e]
    BY <1>3, Parts, ClaimedRow, RowUpdate DEF OwnInv
  <2>3. row'[d].state = "sending" /\ row'[d].released = FALSE
    <3>1. row[d] \in Row
      BY Parts DEF OwnInv
    <3>2. Claimed(row[d]).released = FALSE
      BY <3>1 DEF Claimed, Row
    <3>3. QED
      BY <2>2, <3>1, <3>2, ClaimedRow
  <2>4. \A e \in Delivery : AtProvider(e)' <=> AtProvider(e)
    BY <1>1 DEF AtProvider, session
  <2>5. \A e \in Delivery \ {d} : Unresolved(e)' <=> Unresolved(e)
    BY <2>2, <2>4 DEF Unresolved
  <2>6. OneOwner'
    <3>1. \A e \in Starts : d \in Starts /\ e # d /\ SameThread(d, e) => ~Unresolved(e)
      BY <1>3, UnresolvedBlocks
    <3>2. \A e \in Starts : SameThread(e, d) => SameThread(d, e)
      BY DEF SameThread
    <3>3. QED
      BY <2>5, <3>1, <3>2 DEF OwnInv, ThreadInv, OneOwner, Starts, SameThread
  <2>7. Generations' /\ StoppedIsEmpty' /\ Clock' /\ Fenced'
    BY <1>1, <1>3, <2>1, <2>2, <2>3, <2>4
    DEF OwnInv, ThreadInv, Generations, StoppedIsEmpty, Clock, Fenced, session, Fencing, Starts
  <2>8. InOrder'
    <3>1. \A e \in Starts : d \in Starts /\ SameThread(d, e) /\ RequestedBefore(e, d) => row[e].state # "pending"
      <4>1. \A e \in Delivery : CreatedAt[e] \in Nat
        BY DeliveryAssumption
      <4>2. \A e \in Delivery : RequestedBefore(e, d) => Precedes(e, d)
        BY <4>1 DEF RequestedBefore, Precedes
      <4>3. QED
        BY <1>3, <4>2 DEF FifoAvailable, Starts
    <3>2. QED
      BY <1>1, <2>1, <2>2, <2>3, <3>1 DEF OwnInv, InOrder, Starts, SameThread, RequestedBefore
  <2>9. TurnInv'
    BY <1>1, <1>3, <2>2, <2>3, <2>4 DEF OwnInv, TurnInv
  <2>10. QED
    BY <2>6, <2>7, <2>8, <2>9 DEF OwnInv, ThreadInv
<1>4. QED
  BY <1>2, <1>3 DEF Claim

LEMMA PreparedOwn ==
  ASSUME OwnInv, IInv', NEW d \in Delivery, Prepared(d) PROVE OwnInv'
<1>1. UNCHANGED <<row, seq, lastSeq, stoppedSequences, controls, generation, turn, retries, lastSent, halted>>
  BY DEF Prepared, durable, history
<1>2. /\ op[d].pc = "preparing" /\ op'[d].pc = "fencing" /\ op'[d].generation = generation[ThreadOf[d]]
      /\ \A e \in Delivery \ {d} : op'[e] = op[e]
  BY Parts DEF OwnInv, Prepared, Operation
<1>3. \A e \in Delivery : ThreadOf[e] \in Thread
  BY DeliveryAssumption
<1>4. /\ \A t \in Thread : sessionStopped'[t] => sessionStopped[t]
      /\ d \in Starts => ~sessionStopped'[ThreadOf[d]]
  BY <1>3 DEF OwnInv, IInv, TypeOK, Prepared, Starts
<1>5. \A e \in Delivery : (AtProvider(e)' <=> AtProvider(e)) /\ (Unresolved(e)' <=> Unresolved(e))
  BY <1>1 DEF AtProvider, Unresolved
<1>6. generation[ThreadOf[d]] \in Nat
  BY <1>3 DEF OwnInv, IInv, TypeOK
<1>7. Generations'
  BY <1>1, <1>2, <1>3, <1>4, <1>6 DEF OwnInv, ThreadInv, Generations
<1>8. StoppedIsEmpty' /\ OneOwner' /\ Clock' /\ Fenced'
  BY <1>1, <1>2, <1>3, <1>4, <1>5
  DEF OwnInv, ThreadInv, StoppedIsEmpty, OneOwner, Clock, Fenced, Starts, SameThread
<1>9. InOrder' /\ TurnInv'
  BY <1>1, <1>2, <1>5 DEF OwnInv, InOrder, TurnInv, Unsent, Owning, Starts, SameThread, RequestedBefore
<1>10. QED
  BY <1>7, <1>8, <1>9 DEF OwnInv, ThreadInv

LEMMA SendOwn ==
  ASSUME OwnInv, IInv', NEW d \in Delivery, NEW reached \in BOOLEAN, Send(d, reached) PROVE OwnInv'
<1>1. UNCHANGED <<row, seq, lastSeq, stoppedSequences, controls, generation, sessionStopped, retries, halted>>
  BY DEF Send, durable
<1>2. op[d].pc = "ready" /\ op'[d].pc = "calling" /\ \A e \in Delivery \ {d} : op'[e] = op[e]
  BY Parts DEF OwnInv, Send, Operation
<1>3. CASE ~reached
  BY <1>1, <1>2, <1>3, LeaveStep DEF Send, session, Unsent, Owning
<1>4. CASE reached
  <2>1. /\ row[d].state = "sending" /\ row[d].attemptId = op[d].attemptId
        /\ op[d].generation = generation[ThreadOf[d]]
    BY <1>2, <1>4, Parts DEF OwnInv, Send, Sound, Owning
  <2>2. /\ lastSent'[d] = op[d].attemptId
        /\ \A e \in Delivery \ {d} : lastSent'[e] = lastSent[e] /\ turn'[e] = turn[e]
    BY <1>4 DEF OwnInv, IInv, TypeOK, Send
  <2>3. \A e \in Delivery \ {d} : AtProvider(e)' <=> AtProvider(e)
    BY <2>2 DEF AtProvider
  <2>4. d \in Starts => ~sessionStopped[ThreadOf[d]]
    BY <1>2, <2>1 DEF OwnInv, ThreadInv, Generations, Fencing
  <2>5. StoppedIsEmpty'
    BY <1>1, <2>3, <2>4 DEF OwnInv, ThreadInv, StoppedIsEmpty, Starts
  <2>6. \A e \in Delivery : Unresolved(e)' => Unresolved(e)
    BY <1>1, <2>1, <2>3 DEF Unresolved
  <2>7. OneOwner'
    BY <2>6 DEF OwnInv, ThreadInv, OneOwner, Starts, SameThread
  <2>8. Generations' /\ Clock' /\ Fenced'
    BY <1>1, <1>2 DEF OwnInv, ThreadInv, Generations, Clock, Fenced, Fencing
  <2>9. InOrder'
    BY <1>1, <1>2 DEF OwnInv, InOrder, Unsent, Owning, Starts, SameThread, RequestedBefore
  <2>10. TurnInv'
    BY <1>1, <2>1, <2>2, <2>3 DEF OwnInv, TurnInv
  <2>11. QED
    BY <2>5, <2>7, <2>8, <2>9, <2>10 DEF OwnInv, ThreadInv
<1>5. QED
  BY <1>3, <1>4

LEMMA ProviderAcceptsOwn ==
  ASSUME OwnInv, IInv', NEW d \in Delivery, NEW exit \in Exit, ProviderAccepts(d, exit) PROVE OwnInv'
<1> DEFINE b == turn[d] = "done"
           q == MarkAccepted(row[d], op[d].attemptId, b)
<1>1. UNCHANGED <<seq, lastSeq, stoppedSequences, controls, session, retries, lastSent, halted>>
  BY DEF ProviderAccepts, history
<1>2. /\ op[d].pc = "calling" /\ lastSent[d] = op[d].attemptId
      /\ row[d].attemptId = op[d].attemptId /\ row[d].state = "sending"
  BY Parts DEF OwnInv, ProviderAccepts, Sound, Owning
<1>3. row' = [row EXCEPT ![d] = q]
  BY <1>2 DEF ProviderAccepts
<1>4. /\ q \in Row /\ q.state = "accepted" /\ q.attemptId = row[d].attemptId
      /\ q.released = (row[d].released \/ b)
  <2>1. q \in Row /\ q.state = "accepted" /\ q.attemptId = row[d].attemptId
    BY Parts, AcceptedRow DEF OwnInv, Operation
  <2>2. row[d] \in Row
    BY Parts DEF OwnInv
  <2>3. q.released = (row[d].released \/ b)
    BY <2>2 DEF MarkAccepted, Row
  <2>4. QED
    BY <2>1, <2>3
<1>5. ~row[d].released
  BY <1>2 DEF OwnInv, TurnInv
<1>6. row'[d] = q /\ \A e \in Delivery \ {d} : row'[e] = row[e]
  BY <1>3, <1>4, Parts, RowUpdate DEF OwnInv
<1>7. op'[d].pc = "settling" /\ \A e \in Delivery \ {d} : op'[e] = op[e]
  BY Parts, FailsType, OpUpdate DEF OwnInv, ProviderAccepts
<1>8. \A e \in Delivery : AtProvider(e)' <=> AtProvider(e)
  BY <1>1 DEF AtProvider, session
<1>9. AtProvider(d) => ~b
  BY DEF AtProvider
<1> HIDE DEF q, b
<1>10. \A e \in Delivery : Unresolved(e)' => Unresolved(e)
  BY <1>2, <1>6, <1>8 DEF Unresolved
<1>11. Calm /\ Orderly
  BY <1>1, <1>2, <1>4, <1>6, <1>7, <1>8, <1>10
  DEF Calm, Orderly, session, Starts, Fencing, Unsent, Owning
<1>12. TurnInv'
  BY <1>1, <1>4, <1>5, <1>6, <1>8, <1>9 DEF OwnInv, TurnInv
<1>13. QED
  BY <1>11, <1>12, CalmStep, OrderlyStep DEF OwnInv

\* A row moves from sending, or out of an unresolved outcome, and no operation advances.
LEMMA ResolveStep ==
  ASSUME OwnInv, IInv', NEW d \in Delivery,
         \A e \in Delivery \ {d} : row'[e] = row[e] /\ op'[e] = op[e],
         op'[d].pc \notin Unsent \/ op'[d] = op[d],
         row[d].state \in {"sending", "ambiguous", "rejected"}, row'[d].released = row[d].released,
         row'[d].state \in {"pending", "rejected", "ambiguous", "abandoned"},
         row'[d].state = "ambiguous" => row[d].state = "sending",
         UNCHANGED <<seq, lastSeq, stoppedSequences, controls, session, halted>>
  PROVE  ThreadInv' /\ ~row'[d].released
<1>1. ~row[d].released
  BY DEF OwnInv, TurnInv
<1>2. \A e \in Delivery : AtProvider(e)' <=> AtProvider(e)
  BY DEF AtProvider, session
<1>3. \A e \in Delivery : Unresolved(e)' => Unresolved(e)
  BY <1>2 DEF Unresolved
<1>4. Fencing \subseteq Unsent /\ {"intent", "ready"} \subseteq Unsent
  BY DEF Fencing, Unsent, Owning
<1>5. \A e \in Delivery : op'[e].pc \in Unsent => op'[e] = op[e]
  OBVIOUS
<1>6. Calm
  BY <1>2, <1>3, <1>4, <1>5 DEF Calm, session, Starts
<1>7. QED
  BY <1>1, <1>6, CalmStep DEF OwnInv

LEMMA SettleOwn ==
  ASSUME OwnInv, IInv', NEW d \in Delivery, Settle(d) PROVE OwnInv'
<1>1. UNCHANGED <<seq, lastSeq, stoppedSequences, controls, session, retries, lastSent, halted>>
      /\ op[d].pc = "settling" /\ op' = [op EXCEPT ![d] = Idle]
  BY DEF Settle, history
<1>2. op'[d].pc = "idle" /\ \A e \in Delivery \ {d} : op'[e] = op[e]
  BY <1>1, Parts, IdleType, OpUpdate DEF OwnInv
<1>3. CASE row' = row
  BY <1>1, <1>2, <1>3, LeaveStep DEF Unsent, Owning
<1>4. CASE row[d].attemptId = op[d].attemptId /\ row[d].state = "sending"
  <2>1. row[d] \in Row
    BY Parts DEF OwnInv
  <2>2. PICK q : /\ row' = [row EXCEPT ![d] = q]
                 /\ \/ q = Requeued(row[d]) /\ op[d].exit = "retryable"
                    \/ q = MarkRejected(row[d], op[d].exit = "unknown")
    BY <1>4 DEF Settle
  <2>3. /\ q \in Row /\ q.attemptId = row[d].attemptId /\ q.released = row[d].released
        /\ IF op[d].exit = "unknown" THEN q.state = "ambiguous" ELSE q.state \in {"pending", "rejected"}
    <3>1. CASE q = Requeued(row[d]) /\ op[d].exit = "retryable"
      <4>1. q.released = row[d].released
        BY <2>1, <3>1 DEF Requeued, Row
      <4>2. QED
        BY <2>1, <3>1, <4>1, RequeuedRow
    <3>2. CASE q = MarkRejected(row[d], TRUE) /\ op[d].exit = "unknown"
      <4>1. q.released = row[d].released
        BY <2>1, <3>2 DEF MarkRejected, Row
      <4>2. QED
        BY <2>1, <3>2, <4>1, RejectedRow
    <3>3. CASE q = MarkRejected(row[d], FALSE) /\ op[d].exit # "unknown"
      <4>1. q.released = row[d].released
        BY <2>1, <3>3 DEF MarkRejected, Row
      <4>2. QED
        BY <2>1, <3>3, <4>1, RejectedRow
    <3>4. QED
      BY <2>2, <3>1, <3>2, <3>3
  <2>4. row'[d] = q /\ \A e \in Delivery \ {d} : row'[e] = row[e]
    BY <2>2, <2>3, Parts, RowUpdate DEF OwnInv
  <2>5. ThreadInv' /\ ~row'[d].released
    BY <1>1, <1>2, <1>4, <2>3, <2>4, ResolveStep DEF Unsent, Owning
  <2>6. \A e \in Starts : op[e].pc \in Unsent /\ d \in Starts /\ SameThread(e, d) => e = d
    <3>1. \A e \in Delivery : op[e].pc \in Unsent => row[e].state = "sending"
      BY Parts DEF OwnInv, Sound, Unsent
    <3>2. QED
      BY <1>4, <3>1 DEF OwnInv, ThreadInv, OneOwner, Unresolved, Starts
  <2>7. InOrder'
    BY <1>1, <1>2, <2>4, <2>6 DEF OwnInv, InOrder, Unsent, Owning, Starts, SameThread, RequestedBefore
  <2>8. op[d].exit # "unknown" => lastSent[d] # row[d].attemptId
    BY <1>1, <1>4, Parts DEF OwnInv, Sound
  <2>9. \A e \in Delivery : AtProvider(e)' <=> AtProvider(e)
    BY <1>1 DEF AtProvider, session
  <2>10. TurnInv'
    BY <1>1, <1>4, <2>3, <2>4, <2>5, <2>8, <2>9 DEF OwnInv, TurnInv
  <2>11. QED
    BY <2>5, <2>7, <2>10 DEF OwnInv
<1>5. QED
  BY <1>3, <1>4 DEF Settle

LEMMA RetryOwn ==
  ASSUME OwnInv, IInv', NEW d \in Delivery, NEW allow \in BOOLEAN, Retry(d, allow) PROVE OwnInv'
<1>1. /\ row[d].state \in {"rejected", "ambiguous"} /\ row'[d].state = "pending"
      /\ row'[d].released = row[d].released /\ \A e \in Delivery \ {d} : row'[e] = row[e]
  BY Parts DEF OwnInv, Retry, Row
<1>2. UNCHANGED <<op, seq, lastSeq, stoppedSequences, controls, session, lastSent, halted>>
  BY DEF Retry, process
<1>3. /\ retries'[d] > 0 /\ \A e \in Delivery : retries[e] \in Nat
      /\ \A e \in Delivery \ {d} : retries'[e] = retries[e]
  BY DEF OwnInv, IInv, TypeOK, Retry
<1>4. ThreadInv' /\ ~row'[d].released
  BY <1>1, <1>2, ResolveStep
<1>5. Orderly
  BY <1>1, <1>2, <1>3 DEF Orderly
<1>6. \A e \in Delivery : AtProvider(e)' <=> AtProvider(e)
  BY <1>2 DEF AtProvider, session
<1>7. TurnInv'
  BY <1>1, <1>2, <1>3, <1>4, <1>6 DEF OwnInv, TurnInv
<1>8. QED
  BY <1>4, <1>5, <1>7, OrderlyStep DEF OwnInv

LEMMA DiscardOwn ==
  ASSUME OwnInv, IInv', NEW d \in Delivery, Discard(d) PROVE OwnInv'
<1>1. /\ row[d].state \in {"rejected", "ambiguous"} /\ row'[d].state = "abandoned"
      /\ row'[d].released = row[d].released /\ \A e \in Delivery \ {d} : row'[e] = row[e]
  BY Parts DEF OwnInv, Discard, Row
<1>2. UNCHANGED <<op, seq, lastSeq, stoppedSequences, controls, session, lastSent, halted, retries>>
  BY DEF Discard, process, history
<1>3. ThreadInv' /\ ~row'[d].released
  BY <1>1, <1>2, ResolveStep
<1>4. Orderly
  BY <1>1, <1>2 DEF Orderly
<1>5. \A e \in Delivery : AtProvider(e)' <=> AtProvider(e)
  BY <1>2 DEF AtProvider, session
<1>6. TurnInv'
  BY <1>1, <1>2, <1>3, <1>5 DEF OwnInv, TurnInv
<1>7. QED
  BY <1>3, <1>4, <1>6, OrderlyStep DEF OwnInv

LEMMA ReconcileSendingOwn ==
  ASSUME OwnInv, IInv', NEW d \in Delivery, ReconcileSending(d) PROVE OwnInv'
<1> DEFINE q == MarkRejected(row[d], TRUE)
<1>1. row' = [row EXCEPT ![d] = q] /\ row[d].state = "sending"
  BY NotProven DEF OwnInv, ReconcileSending
<1>2. row[d] \in Row
  BY Parts DEF OwnInv
<1>3. q \in Row /\ q.state = "ambiguous" /\ q.attemptId = row[d].attemptId
  BY <1>2, RejectedRow
<1>4. q.released = row[d].released
  BY <1>2 DEF MarkRejected, Row
<1>5. row'[d] = q /\ \A e \in Delivery \ {d} : row'[e] = row[e]
  BY <1>1, <1>3, Parts, RowUpdate DEF OwnInv
<1> HIDE DEF q
<1>6. UNCHANGED <<op, seq, lastSeq, stoppedSequences, controls, session, lastSent, halted, retries>>
  BY DEF ReconcileSending, process, history
<1>7. ThreadInv' /\ ~row'[d].released
  BY <1>1, <1>3, <1>4, <1>5, <1>6, ResolveStep
<1>8. Orderly
  BY <1>3, <1>5, <1>6 DEF Orderly
<1>9. \A e \in Delivery : AtProvider(e)' <=> AtProvider(e)
  BY <1>6 DEF AtProvider, session
<1>10. TurnInv'
  BY <1>3, <1>5, <1>6, <1>7, <1>9 DEF OwnInv, TurnInv
<1>11. QED
  BY <1>7, <1>8, <1>10, OrderlyStep DEF OwnInv

LEMMA RestartOwn ==
  ASSUME OwnInv, IInv', Restart PROVE OwnInv'
<1>1. UNCHANGED <<row, seq, lastSeq, generation, sessionStopped, retries, lastSent>>
  BY DEF Restart, durable
<1>2. \A d \in Delivery : op'[d].pc = "idle"
  BY IdleType DEF Restart
<1>3. \A d \in Delivery : AtProvider(d)' => AtProvider(d)
  BY DEF Restart, AtProvider
<1>4. \A d \in Delivery : Unresolved(d)' => Unresolved(d)
  BY <1>1, <1>3 DEF Unresolved
<1>5. Generations' /\ Fenced' /\ InOrder'
  BY <1>2 DEF Generations, Fenced, InOrder, Fencing, Unsent, Owning, Starts
<1>6. StoppedIsEmpty' /\ OneOwner'
  BY <1>1, <1>3, <1>4 DEF OwnInv, ThreadInv, StoppedIsEmpty, OneOwner, Starts, SameThread
<1>7. Clock'
  <2>1. controls' = {} /\ \A t \in Thread : halted'[t] = 0 /\ stoppedSequences'[t] = 0
    BY DEF Restart
  <2>2. lastSeq \in Nat /\ \A d \in Delivery : seq[d] \in Nat /\ ThreadOf[d] \in Thread
    BY DeliveryAssumption DEF OwnInv, IInv, TypeOK
  <2>3. QED
    BY <1>1, <2>1, <2>2 DEF OwnInv, ThreadInv, Clock
<1>8. TurnInv'
  BY <1>1, <1>3 DEF OwnInv, TurnInv
<1>9. QED
  BY <1>5, <1>6, <1>7, <1>8 DEF OwnInv, ThreadInv

-----------------------------------------------------------------------------

LEMMA InitOwn == Init => OwnInv
<1> SUFFICES ASSUME Init PROVE OwnInv
  OBVIOUS
<1>1. IInv
  BY InitInv
<1>2. \A d \in Delivery : /\ row[d].state = "none" /\ ~row[d].released /\ op[d].pc = "idle"
                          /\ turn[d] = "none" /\ seq[d] = 0 /\ ThreadOf[d] \in Thread
  BY DeliveryAssumption DEF Init, Idle
<1>3. lastSeq = 0 /\ controls = {} /\ \A t \in Thread : halted[t] = 0 /\ stoppedSequences[t] = 0
  BY DEF Init
<1>4. Generations /\ StoppedIsEmpty /\ OneOwner /\ Clock /\ Fenced
  BY <1>2, <1>3
  DEF Generations, StoppedIsEmpty, OneOwner, Clock, Fenced, Fencing, AtProvider, Unresolved, Starts
<1>5. InOrder /\ TurnInv
  BY <1>2 DEF InOrder, TurnInv, AtProvider, Unsent, Owning, Starts
<1>6. QED
  BY <1>1, <1>4, <1>5 DEF OwnInv, ThreadInv

LEMMA StutterOwn ==
  ASSUME OwnInv, UNCHANGED vars PROVE OwnInv'
<1>1. IInv'
  BY StutterInv DEF OwnInv
<1>2. UNCHANGED <<row, op, controls, seq, lastSeq, stoppedSequences, session, retries, lastSent, halted>>
  BY DEF vars, durable, process, history
<1>3. QED
  BY <1>1, <1>2, QuietStep

LEMMA OperateOwn ==
  ASSUME OwnInv, IInv', NEW d \in Delivery, Operate(d) PROVE OwnInv'
<1>1. CASE \E exit \in Exit : PreparationFails(d, exit) \/ ProviderFails(d, exit)
  BY <1>1, FailsLeaves DEF PreparationFails, ProviderFails
<1>2. CASE \/ Claim(d) \/ TakeSlot(d) \/ Prepared(d) \/ Fence(d) \/ Handoff(d) \/ Settle(d)
           \/ \E reached \in BOOLEAN : Send(d, reached)
           \/ \E exit \in Exit : ProviderAccepts(d, exit)
  BY <1>2, ClaimOwn, TakeSlotOwn, PreparedOwn, FenceOwn, HandoffOwn, SettleOwn, SendOwn,
     ProviderAcceptsOwn
<1>3. QED
  BY <1>1, <1>2 DEF Operate

LEMMA NextOwn == OwnInv /\ [Next]_vars => OwnInv'
<1> SUFFICES ASSUME OwnInv, Next PROVE OwnInv'
  BY StutterOwn
<1>1. IInv'
  BY NextInv DEF OwnInv
<1>2. CASE \E d \in Delivery :
             \/ RequestTurn(d) \/ TurnStarts(d) \/ TurnCompletes(d) \/ BackoffElapses(d)
             \/ Wake(d) \/ Sweep(d) \/ Operate(d) \/ OperationDies(d)
             \/ ProjectOutcome(d) \/ ReconcileSending(d) \/ Discard(d) \/ Recheck(d)
             \/ \E allow \in BOOLEAN : Retry(d, allow)
  BY <1>1, <1>2, RequestTurnOwn, TurnStartsOwn, TurnCompletesOwn, ColumnOwn, BeginOwn, OperateOwn,
     OperationDiesOwn, ReconcileSendingOwn, DiscardOwn, RetryOwn
  DEF Wake, Sweep
<1>3. CASE \/ \E t \in Thread : StopCommits(t)
           \/ \E c \in controls : StopProcessed(c[1], c[2]) \/ StopExpires(c[1], c[2])
           \/ BeginShutdown \/ Restart \/ StartWorker
  BY <1>1, <1>3, StopCommitsOwn, StopProcessedOwn, StopExpiresOwn, PhaseOwn, RestartOwn
<1>4. QED
  BY <1>2, <1>3 DEF Next

\* Rows, operations, sessions and the fence of a thread fit together in every
\* reachable state.
THEOREM OwnershipInvariance == Spec => []OwnInv
  BY InitOwn, NextOwn, PTL DEF Spec

\* The claim's ownership test is enough: of two starts of a thread at most one is
\* being sent, unknown, or accepted with its turn going on.
THEOREM ThreadHasOneOwner == Spec => []OneOwner
<1>1. OwnInv => OneOwner
  BY DEF OwnInv, ThreadInv
<1>2. QED
  BY <1>1, OwnershipInvariance, PTL

\* Without an answer of the user, the turns of a thread do not overlap at the provider.
THEOREM TurnsDoNotOverlap == Spec => []OneTurnAtATime
<1>1. OwnInv => OneTurnAtATime
  <2> SUFFICES ASSUME OwnInv, NEW d \in Starts, NEW e \in Starts, SameThread(d, e), d # e,
                      AtProvider(d), AtProvider(e)
               PROVE  \E x \in {d, e} : retries[x] > 0 \/ row[x].state = "abandoned"
    BY DEF OneTurnAtATime
  <2>1. \A x \in {d, e} : x \in Delivery /\ retries[x] \in Nat
    BY DEF OwnInv, IInv, TypeOK, Starts
  <2>2. \A x \in {d, e} : retries[x] = 0 /\ row[x].state # "abandoned" => Unresolved(x)
    BY <2>1 DEF OwnInv, TurnInv, Unresolved
  <2>3. ~(Unresolved(d) /\ Unresolved(e))
    BY DEF OwnInv, ThreadInv, OneOwner
  <2>4. QED
    BY <2>1, <2>2, <2>3
<1>2. QED
  BY <1>1, OwnershipInvariance, PTL

\* A prompt only reaches the provider in the step Send(d, TRUE).
LEMMA ReachIsSend ==
  ASSUME IInv, [Next]_vars, NEW d \in Delivery, Reaches(d)
  PROVE  op[d].pc = "ready" /\ op[d].generation = generation[ThreadOf[d]]
<1>1. sends' # sends
  BY DEF Reaches, IInv, TypeOK
<1>2. ASSUME NEW e \in Delivery, Operate(e)
      PROVE  \E reached \in BOOLEAN : Send(e, reached)
  <2>1. ~(Claim(e) \/ TakeSlot(e) \/ Prepared(e))
    BY <1>1 DEF Claim, TakeSlot, Prepared, history
  <2>2. ~(Fence(e) \/ Handoff(e) \/ Settle(e))
    BY <1>1 DEF Fence, Handoff, Settle, history
  <2>3. \A exit \in Exit : ~PreparationFails(e, exit)
    BY <1>1 DEF PreparationFails, history
  <2>4. \A exit \in Exit : ~ProviderAccepts(e, exit)
    BY <1>1 DEF ProviderAccepts, history
  <2>5. \A exit \in Exit : ~ProviderFails(e, exit)
    BY <1>1 DEF ProviderFails, history
  <2>6. QED
    BY <1>2, <2>1, <2>2, <2>3, <2>4, <2>5 DEF Operate
<1>3. ASSUME NEW e \in Delivery
      PROVE  ~(\/ RequestTurn(e) \/ TurnStarts(e) \/ TurnCompletes(e) \/ BackoffElapses(e)
               \/ Wake(e) \/ Sweep(e) \/ OperationDies(e))
  BY <1>1 DEF RequestTurn, TurnStarts, TurnCompletes, BackoffElapses, Wake, Sweep, Begin,
    OperationDies, DatabaseFails, history
<1>4. ASSUME NEW e \in Delivery
      PROVE  ~(\/ ProjectOutcome(e) \/ ReconcileSending(e) \/ Discard(e) \/ Recheck(e)
               \/ \E allow \in BOOLEAN : Retry(e, allow))
  BY <1>1 DEF ProjectOutcome, ReconcileSending, Discard, Recheck, Retry, history
<1>5. ~(\/ \E t \in Thread : StopCommits(t)
        \/ \E c \in controls : StopProcessed(c[1], c[2]) \/ StopExpires(c[1], c[2]))
  BY <1>1 DEF StopCommits, StopProcessed, StopExpires, history
<1>6. ~(BeginShutdown \/ Restart \/ StartWorker)
  BY <1>1 DEF BeginShutdown, Restart, StartWorker, DatabaseFails, history
<1>7. PICK e \in Delivery, reached \in BOOLEAN : Send(e, reached)
  <2>1. Next
    BY <1>1 DEF vars, history
  <2>2. PICK e \in Delivery : Operate(e)
    BY <2>1, <1>3, <1>4, <1>5, <1>6, Zenon DEF Next
  <2>3. QED
    BY <2>2, <1>2
<1>8. reached /\ e = d
  <2>1. sends \in [Delivery -> Nat]
    BY DEF IInv, TypeOK
  <2>2. QED
    BY <1>7, <2>1 DEF Send, Reaches
<1>9. QED
  BY <1>7, <1>8 DEF Send

\* As long as the process lives, no prompt older than a stop that was carried out
\* reaches the provider: the fence and the generation check together suffice.
THEOREM StopsAreFinal == Spec => StopFence
<1>1. OwnInv /\ [Next]_vars => [\A d \in Delivery : Reaches(d) => seq[d] > halted[ThreadOf[d]]]_vars
  BY ReachIsSend DEF OwnInv, ThreadInv, Fenced
<1>2. QED
  BY <1>1, OwnershipInvariance, PTL DEF Spec, StopFence

\* A start overtakes none that was requested before it and carries no later time, up to
\* the user's own retries.
THEOREM StartsKeepTheirOrder == Spec => NoOvertaking
<1>1. OwnInv /\ [Next]_vars =>
        [\A d, e \in Starts : Reaches(d) /\ SameThread(d, e) /\ RequestedBefore(e, d)
           => row[e].state # "pending" \/ retries[e] > 0]_vars
  <2>1. "ready" \in Unsent
    BY DEF Unsent, Owning
  <2>2. QED
    BY <2>1, ReachIsSend DEF OwnInv, InOrder, Starts
<1>2. QED
  BY <1>1, OwnershipInvariance, PTL DEF Spec, NoOvertaking

==============================================================================
