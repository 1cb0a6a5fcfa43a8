------------------------ MODULE ProviderTurnDelivery ------------------------
(***************************************************************************)
(* The durable outbox of provider turns: the rows of                       *)
(* provider_turn_deliveries (ProviderTurnDeliveryRepository), the worker   *)
(* that sends them (ProviderTurnDeliveryWorker), the stop fence of the     *)
(* orchestration engine, and crashes and restarts of the server.           *)
(*                                                                         *)
(* A committed turn start or steer inserts a pending row.  A worker        *)
(* operation claims the row (sending, a fresh attempt id), prepares the    *)
(* session, waits for outstanding controls of the thread, checks the stop  *)
(* fence, records its intent, hands its slot back, and calls the provider. *)
(* The row ends accepted, rejected (certainly not sent) or ambiguous; a    *)
(* failure that proves nothing was sent may be requeued.  Only the user    *)
(* retries or discards an ambiguous row.                                   *)
(*                                                                         *)
(* The row is durable; `op`, `phase`, `stoppedSequences` and the control   *)
(* reservations live in the server process and die with it.  `sends`,      *)
(* `lastSent`, `consents`, `halted` and `stoppedWork` are history          *)
(* variables, and `stops`, `restarts`, `retries` and `faults` counters for *)
(* the bounds; `lastSent` also tells the adapter's answer what was sent.   *)
(***************************************************************************)
EXTENDS Integers, FiniteSets

CONSTANTS
  Delivery,      \* delivery ids (one per turn-start or steer command)
  Thread,
  ThreadOf,      \* the thread of a delivery
  Steer,         \* deliveries of thread.turn-steer-requested events
  CreatedAt,     \* created_at of a delivery: the time its command carries, which a client
                 \* or the queue stamped, and which need not follow the event log
  MaxAttempts,   \* automatic attempts per (re)try, 3 in the code
  StartSlots,    \* concurrent preparations of turn starts, 8 in the code
  SteerSlots,    \* concurrent preparations of steers, 2 in the code
  MaxStops,      \* bound: stop commands in a behaviour
  MaxRestarts,   \* bound: crashes and shutdowns in a behaviour
  MaxRetries,    \* bound: explicit retries per delivery
  MaxFaults      \* bound: database errors in a behaviour

ASSUME DeliveryAssumption ==
  /\ ThreadOf \in [Delivery -> Thread] /\ Steer \subseteq Delivery
  /\ CreatedAt \in [Delivery -> Nat]

ASSUME BoundAssumption ==
  /\ MaxAttempts \in Nat /\ StartSlots \in Nat /\ SteerSlots \in Nat
  /\ MaxStops \in Nat /\ MaxRestarts \in Nat /\ MaxRetries \in Nat
  /\ MaxFaults \in Nat

VARIABLES
  row,               \* provider_turn_deliveries
  seq,               \* event sequence of the request, 0 before it
  lastSeq,           \* last sequence of the event log
  phase,             \* "booting", "running" or "stopping"
  op,                \* the worker operation of a delivery
  stoppedSequences,  \* the engine's stop fence, per thread
  controls,          \* stop controls whose reservation is not finished: <<thread, sequence>>
  generation,        \* session generation of a thread's provider binding
  turn,              \* the provider turn the last send of a delivery opened, as projected
  sessionStopped,    \* the projected session status of a thread is "stopped"
  stops, restarts, retries, faults,     \* counters for the bounds
  sends, lastSent, consents,            \* what reached the provider, and with whose consent
  halted, stoppedWork                   \* what a processed stop covers

durable == <<row, seq, lastSeq>>
process == <<phase, op, stoppedSequences, controls>>
session == <<generation, turn, sessionStopped>>
history == <<stops, restarts, retries, faults, sends, lastSent, consents, halted, stoppedWork>>
vars    == <<durable, process, session, history>>

States   == {"none", "pending", "sending", "accepted", "rejected", "ambiguous", "abandoned"}
Terminal == {"accepted", "rejected", "ambiguous"}
PC       == {"idle", "reading", "claimed", "preparing", "fencing", "intent", "ready",
             "calling", "settling"}
\* A turn is unseen until its start was projected; lost if that can no longer happen.
Turn     == {"none", "unseen", "running", "done", "lost"}
Exit     == {"none", "turn", "retryable", "final", "unknown"}

Starts == Delivery \ Steer
SameThread(d, e) == ThreadOf[d] = ThreadOf[e]
SameKey(d, e) == SameThread(d, e) /\ (d \in Steer <=> e \in Steer)

Row == [state : States, attempt : Nat, attemptId : Nat, receipt : Nat,
        released : BOOLEAN, due : BOOLEAN, projected : BOOLEAN]
Operation == [pc : PC, attemptId : Nat, waits : SUBSET Nat, generation : Nat, exit : Exit]

Idle == [pc |-> "idle", attemptId |-> 0, waits |-> {}, generation |-> 0, exit |-> "none"]

TypeOK ==
  /\ row \in [Delivery -> Row]
  /\ seq \in [Delivery -> Nat] /\ lastSeq \in Nat
  /\ phase \in {"booting", "running", "stopping"}
  /\ op \in [Delivery -> Operation]
  /\ stoppedSequences \in [Thread -> Nat]
  /\ controls \subseteq Thread \X Nat
  /\ generation \in [Thread -> Nat]
  /\ turn \in [Delivery -> Turn] /\ sessionStopped \in [Thread -> BOOLEAN]
  /\ stops \in Nat /\ restarts \in Nat /\ faults \in Nat /\ retries \in [Delivery -> Nat]
  /\ sends \in [Delivery -> Nat] /\ lastSent \in [Delivery -> Nat]
  /\ consents \in [Delivery -> Nat]
  /\ halted \in [Thread -> Nat] /\ stoppedWork \subseteq Delivery

Init ==
  /\ row = [d \in Delivery |-> [state |-> "none", attempt |-> 0, attemptId |-> 0, receipt |-> 0,
                                released |-> FALSE, due |-> TRUE, projected |-> FALSE]]
  /\ seq = [d \in Delivery |-> 0] /\ lastSeq = 0
  /\ phase = "booting"
  /\ op = [d \in Delivery |-> Idle]
  /\ stoppedSequences = [t \in Thread |-> 0]
  /\ controls = {}
  /\ generation = [t \in Thread |-> 0]
  /\ turn = [d \in Delivery |-> "none"] /\ sessionStopped = [t \in Thread |-> FALSE]
  /\ stops = 0 /\ restarts = 0 /\ faults = 0 /\ retries = [d \in Delivery |-> 0]
  /\ sends = [d \in Delivery |-> 0] /\ lastSent = [d \in Delivery |-> 0]
  /\ consents = [d \in Delivery |-> 0]
  /\ halted = [t \in Thread |-> 0] /\ stoppedWork = {}

-----------------------------------------------------------------------------
(* The engine: events that touch the outbox, inside their commit transaction. *)

\* thread.turn-start-requested or thread.turn-steer-requested: INSERT OR IGNORE.
RequestTurn(d) ==
  /\ phase # "stopping"
  /\ row[d].state = "none"
  /\ row' = [row EXCEPT ![d].state = "pending"]
  /\ seq' = [seq EXCEPT ![d] = lastSeq + 1] /\ lastSeq' = lastSeq + 1
  /\ UNCHANGED <<process, session, history>>

\* thread.session-stop-requested commits: unsent rows of the thread are rejected, the
\* fence moves, and the control waits for the reactor.  (An archive and a thread-wide
\* interrupt have the same effect on the rows and the fence.)
StopCommits(t) ==
  /\ phase # "stopping"
  /\ stops < MaxStops
  /\ stops' = stops + 1
  /\ lastSeq' = lastSeq + 1
  /\ row' = [d \in Delivery |->
               IF ThreadOf[d] = t /\ row[d].state = "pending"
               THEN [row[d] EXCEPT !.state = "rejected"] ELSE row[d]]
  /\ stoppedSequences' = [stoppedSequences EXCEPT ![t] = lastSeq + 1]
  /\ controls' = controls \cup {<<t, lastSeq + 1>>}
  /\ UNCHANGED <<seq, phase, op, session, restarts, retries, faults, sends, lastSent,
                 consents, halted, stoppedWork>>

\* waitForControlProgress captures the controls that are outstanding now.
OutstandingControls(t) == {s \in 1..lastSeq : <<t, s>> \in controls}

Ended(u) == IF u = "running" THEN "done" ELSE IF u = "unseen" THEN "lost" ELSE u

\* The reactor stopped the session and completed the control: the generation changes,
\* the session's turns are over, and session-set `stopped` releases their reservations.
\* A turn whose start was not projected before gets no completion either.
StopProcessed(t, s) ==
  /\ <<t, s>> \in controls /\ \A c \in controls : c[1] = t => s <= c[2]
  /\ controls' = controls \ {<<t, s>>}
  /\ op' = [d \in Delivery |->
              IF ThreadOf[d] = t THEN [op[d] EXCEPT !.waits = @ \ {s}] ELSE op[d]]
  /\ generation' = [generation EXCEPT ![t] = @ + 1]
  /\ turn' = [d \in Delivery |-> IF ThreadOf[d] = t THEN Ended(turn[d]) ELSE turn[d]]
  /\ sessionStopped' = [sessionStopped EXCEPT ![t] = TRUE]
  /\ row' = [d \in Delivery |->
               IF ThreadOf[d] = t /\ row[d].state = "accepted"
               THEN [row[d] EXCEPT !.released = TRUE] ELSE row[d]]
  /\ halted' = [halted EXCEPT ![t] = s]
  /\ stoppedWork' = stoppedWork \cup {d \in Delivery : ThreadOf[d] = t /\ 0 < seq[d] /\ seq[d] < s}
  /\ UNCHANGED <<seq, lastSeq, phase, stoppedSequences, stops, restarts, retries, faults,
                 sends, lastSent, consents>>

\* Mutant: the control expires without telling those who wait for it.
StopExpiresSilently(t, s) ==
  /\ <<t, s>> \in controls
  /\ controls' = controls \ {<<t, s>>}
  /\ UNCHANGED <<durable, phase, op, stoppedSequences, session, history>>

\* Nobody claimed the control for 30 seconds: it expires, and whoever waits for it fails.
StopExpires(t, s) ==
  /\ <<t, s>> \in controls
  /\ controls' = controls \ {<<t, s>>}
  /\ op' = [d \in Delivery |->
              IF ThreadOf[d] # t \/ s \notin op[d].waits THEN op[d]
              ELSE IF op[d].pc = "reading" THEN Idle
              ELSE [op[d] EXCEPT !.pc = "settling", !.exit = "retryable", !.waits = {}]]
  /\ UNCHANGED <<durable, phase, stoppedSequences, session, history>>

\* turn.started is ingested: session-set `running` projects the turn.
TurnStarts(d) ==
  /\ turn[d] = "unseen"
  /\ turn' = [turn EXCEPT ![d] = "running"]
  /\ UNCHANGED <<durable, process, generation, sessionStopped, history>>

\* The turn ends, or a startup finds it orphaned; its completion is projected.
TurnCompletes(d) ==
  /\ turn[d] = "running"
  /\ turn' = [turn EXCEPT ![d] = "done"]
  /\ row' = [row EXCEPT ![d].released = @ \/ row[d].state = "accepted"]
  /\ UNCHANGED <<seq, lastSeq, process, generation, sessionStopped, history>>

-----------------------------------------------------------------------------
(* The repository's conditional updates. *)

\* An accepted row owns its thread until it is released, its turn's completion is
\* projected, or the session is stopped.
HoldsReservation(e) ==
  /\ row[e].state = "accepted" /\ ~row[e].released
  /\ turn[e] # "done" /\ ~sessionStopped[ThreadOf[e]]

\* Mutant: an ambiguous start no longer holds its thread.
OwnershipAvailablePastAmbiguous(d) ==
  d \in Steer \/ ~ \E e \in Starts \ {d} :
                     /\ SameThread(d, e)
                     /\ row[e].state = "sending" \/ HoldsReservation(e)

\* Mutant: a start stops holding its thread as soon as it is accepted.
OwnershipAvailablePastAccepted(d) ==
  d \in Steer \/ ~ \E e \in Starts \ {d} : SameThread(d, e) /\ row[e].state \in {"sending", "ambiguous"}

\* deliveryOwnershipAvailable: no other start of the thread is unresolved.
OwnershipAvailable(d) ==
  d \in Steer \/ ~ \E e \in Starts \ {d} :
                     /\ SameThread(d, e)
                     /\ \/ row[e].state \in {"sending", "ambiguous"}
                        \/ HoldsReservation(e)

\* Mutant: no order among the pending rows of a thread.
FifoAvailableAlways(d) == d \in Delivery

\* The order of the rows: by created_at, then by rowid, the order they were inserted in.
Precedes(e, d) ==
  \/ CreatedAt[e] < CreatedAt[d]
  \/ CreatedAt[e] = CreatedAt[d] /\ seq[e] < seq[d]

\* deliveryFifoAvailable: no earlier row of the thread is pending.
FifoAvailable(d) ==
  d \in Steer \/ ~ \E e \in Delivery : SameThread(d, e) /\ row[e].state = "pending" /\ Precedes(e, d)

\* listCandidateIds: what a sweep picks; a pending steer goes before any start.
Candidate(d) ==
  /\ row[d].state = "pending" /\ row[d].due
  /\ OwnershipAvailable(d) /\ FifoAvailable(d)
  /\ ~ \E e \in Steer : /\ SameThread(d, e) /\ row[e].state = "pending"
                        /\ d \notin Steer \/ Precedes(e, d)

Claimed(r) ==
  [r EXCEPT !.state = "sending", !.attempt = @ + 1, !.attemptId = @ + 1, !.receipt = 0,
            !.released = FALSE]

\* markAccepted with a receipt, and the release of a turn that already completed.
MarkAccepted(r, receipt, done) ==
  [r EXCEPT !.state = "accepted", !.receipt = receipt, !.released = @ \/ done,
            !.due = TRUE, !.projected = FALSE]

\* Mutant: an unknown outcome is recorded as not sent.
MarkRejectedAlways(r, ambiguous) ==
  [r EXCEPT !.state = "rejected", !.due = TRUE, !.projected = FALSE]

\* Mutant: a state the table does not know.
MarkRejectedUncertain(r, ambiguous) ==
  [r EXCEPT !.state = IF ambiguous THEN "uncertain" ELSE "rejected", !.due = TRUE,
            !.projected = FALSE]

MarkRejected(r, ambiguous) ==
  [r EXCEPT !.state = IF ambiguous THEN "ambiguous" ELSE "rejected", !.due = TRUE,
            !.projected = FALSE]

Requeued(r) == [r EXCEPT !.state = "pending", !.due = FALSE, !.projected = FALSE]

\* findProvenProviderTurn: only a receipt of the current attempt proves acceptance.
Proven(d) == row[d].attemptId > 0 /\ row[d].receipt = row[d].attemptId

\* The retry delay of a requeued row passes.
BackoffElapses(d) ==
  /\ row[d].state = "pending" /\ ~row[d].due
  /\ row' = [row EXCEPT ![d].due = TRUE]
  /\ UNCHANGED <<seq, lastSeq, process, session, history>>

-----------------------------------------------------------------------------
(* The worker. *)

\* Only one operation per key (start or steer, thread) is active.
KeyFree(d) == \A e \in Delivery : SameKey(d, e) => op[e].pc = "idle"

\* enqueue and the head of processDelivery, up to the wait for the thread's controls.
Begin(d) ==
  /\ phase = "running" /\ KeyFree(d)
  /\ row[d].state = "pending" /\ row[d].due
  /\ op' = [op EXCEPT ![d] = [Idle EXCEPT !.pc = "reading", !.waits = OutstandingControls(ThreadOf[d])]]
  /\ UNCHANGED <<durable, phase, stoppedSequences, controls, session, history>>

\* A request event, a retry or the delay stream wakes the delivery.
Wake(d) == Begin(d)

\* The one-second sweep.
Sweep(d) == Candidate(d) /\ Begin(d)

Claim(d) ==
  /\ op[d].pc = "reading" /\ op[d].waits = {}
  /\ IF phase = "running" /\ row[d].state = "pending" /\ row[d].due
        /\ OwnershipAvailable(d) /\ FifoAvailable(d)
     THEN /\ row' = [row EXCEPT ![d] = Claimed(@)]
          /\ op' = [op EXCEPT ![d].pc = "claimed", ![d].attemptId = row[d].attemptId + 1]
     ELSE /\ row' = row
          /\ op' = [op EXCEPT ![d] = Idle]
  /\ UNCHANGED <<seq, lastSeq, phase, stoppedSequences, controls, session, history>>

\* Operations that hold a preparation slot.
Preparing(K) == {d \in K : op[d].pc \in {"preparing", "fencing", "intent"}}

Fails(d, exit) == op' = [op EXCEPT ![d].pc = "settling", ![d].exit = exit, ![d].waits = {}]

\* The claimed row waits for a slot of its kind; a shutdown is noticed before delivery.
TakeSlot(d) ==
  /\ op[d].pc = "claimed"
  /\ IF d \in Steer THEN Cardinality(Preparing(Steer)) < SteerSlots
                    ELSE Cardinality(Preparing(Starts)) < StartSlots
  /\ IF phase = "stopping" THEN Fails(d, "retryable")
     ELSE op' = [op EXCEPT ![d].pc = "preparing"]
  /\ UNCHANGED <<durable, phase, stoppedSequences, controls, session, history>>

\* deliverTurnStart fails before it is prepared, or after its intent was recorded:
\* thread gone, worktree not ready, session refused, scheduled run fenced...
PreparationFails(d, exit) ==
  /\ op[d].pc \in {"preparing", "intent", "ready"}
  /\ exit \in {"retryable", "final", "unknown"}
  /\ Fails(d, exit)
  /\ UNCHANGED <<durable, phase, stoppedSequences, controls, session, history>>

\* The session is ready and its generation read; `prepared` waits for the controls.
\* A start projects the session it ensured, so the thread's session is not stopped.
Prepared(d) ==
  /\ op[d].pc = "preparing"
  /\ op' = [op EXCEPT ![d].pc = "fencing", ![d].generation = generation[ThreadOf[d]],
                      ![d].waits = OutstandingControls(ThreadOf[d])]
  /\ sessionStopped' = [sessionStopped EXCEPT ![ThreadOf[d]] = @ /\ d \in Steer]
  /\ UNCHANGED <<durable, phase, stoppedSequences, controls, generation, turn, history>>

\* Mutant: the claimed row does not look at the stop fence.
SupersededNever(d) == d \notin Delivery

Superseded(d) == seq[d] < stoppedSequences[ThreadOf[d]]

\* prepared: shutdown, then the stop fence, then recordDispatchIntent.
Fence(d) ==
  /\ op[d].pc = "fencing" /\ op[d].waits = {}
  /\ \/ phase = "stopping" /\ Fails(d, "retryable")
     \/ phase = "running" /\ Superseded(d) /\ Fails(d, "final")
     \/ /\ phase = "running" /\ ~Superseded(d)
        /\ IF row[d].state = "sending" /\ row[d].attemptId = op[d].attemptId
           THEN op' = [op EXCEPT ![d].pc = "intent"] ELSE Fails(d, "final")
  /\ UNCHANGED <<durable, phase, stoppedSequences, controls, session, history>>

\* The slot is handed back; the send goes on if the session is still the same.
Handoff(d) ==
  /\ op[d].pc = "intent"
  /\ IF phase = "stopping" THEN Fails(d, "retryable")
     ELSE IF op[d].generation # generation[ThreadOf[d]] THEN Fails(d, "final")
     ELSE op' = [op EXCEPT ![d].pc = "ready"]
  /\ UNCHANGED <<durable, phase, stoppedSequences, controls, session, history>>

\* sendTurn or steerTurn.  The input reaches a live session, or it is lost on the way;
\* a session that was stopped meanwhile takes nothing (external: the adapter).
Send(d, reached) ==
  /\ op[d].pc = "ready"
  /\ reached => op[d].generation = generation[ThreadOf[d]]
  /\ op' = [op EXCEPT ![d].pc = "calling"]
  /\ IF reached
     THEN /\ sends' = [sends EXCEPT ![d] = @ + 1]
          /\ lastSent' = [lastSent EXCEPT ![d] = op[d].attemptId]
          /\ turn' = [turn EXCEPT ![d] = "unseen"]
     ELSE UNCHANGED <<sends, lastSent, turn>>
  /\ UNCHANGED <<durable, phase, stoppedSequences, controls, generation, sessionStopped,
                 stops, restarts, retries, faults, consents, halted, stoppedWork>>

\* The provider answered with a new turn: the `accepted` callback stores the receipt,
\* fenced by the attempt.  What follows may still fail; the row is accepted already.
ProviderAccepts(d, exit) ==
  /\ op[d].pc = "calling" /\ lastSent[d] = op[d].attemptId
  /\ exit \in {"turn", "unknown"}
  /\ row' = IF row[d].attemptId = op[d].attemptId /\ row[d].state \in {"sending", "rejected", "ambiguous"}
            THEN [row EXCEPT ![d] = MarkAccepted(@, op[d].attemptId, turn[d] = "done")] ELSE row
  /\ Fails(d, exit)
  /\ UNCHANGED <<seq, lastSeq, phase, stoppedSequences, controls, session, history>>

\* The call fails, or its receipt cannot be stored.  An adapter says "not sent" only of
\* input that did not reach the model (external).
ProviderFails(d, exit) ==
  /\ op[d].pc = "calling"
  /\ exit \in IF lastSent[d] = op[d].attemptId THEN {"unknown"} ELSE {"retryable", "final", "unknown"}
  /\ Fails(d, exit)
  /\ UNCHANGED <<durable, phase, stoppedSequences, controls, session, history>>

\* Mutant: an unknown failure is requeued like one that proves nothing was sent.
SettleRequeuesUnknown(d) ==
  LET mayRequeue == /\ d \notin Steer /\ op[d].exit \in {"retryable", "unknown"}
                    /\ phase = "stopping" \/ row[d].attempt < MaxAttempts
      settled == IF mayRequeue THEN Requeued(row[d]) ELSE MarkRejected(row[d], op[d].exit = "unknown")
  IN  /\ op[d].pc = "settling"
      /\ row' = IF row[d].attemptId = op[d].attemptId /\ row[d].state = "sending"
                THEN [row EXCEPT ![d] = settled] ELSE row
      /\ op' = [op EXCEPT ![d] = Idle]
      /\ UNCHANGED <<seq, lastSeq, phase, stoppedSequences, controls, session, history>>

\* The tail of settleClaimedDelivery: reload the row and record the outcome.
Settle(d) ==
  LET mayRequeue == /\ d \notin Steer /\ op[d].exit = "retryable"
                    /\ phase = "stopping" \/ row[d].attempt < MaxAttempts
      settled == IF mayRequeue THEN Requeued(row[d]) ELSE MarkRejected(row[d], op[d].exit = "unknown")
  IN  /\ op[d].pc = "settling"
      /\ row' = IF row[d].attemptId = op[d].attemptId /\ row[d].state = "sending"
                THEN [row EXCEPT ![d] = settled] ELSE row
      /\ op' = [op EXCEPT ![d] = Idle]
      /\ UNCHANGED <<seq, lastSeq, phase, stoppedSequences, controls, session, history>>

DatabaseFails ==
  /\ faults < MaxFaults
  /\ faults' = faults + 1
  /\ UNCHANGED <<stops, restarts, retries, sends, lastSent, consents, halted, stoppedWork>>

\* A database error before the claim or while the outcome is recorded: the operation is
\* logged and gone, and a claimed row stays `sending` until the next startup.
OperationDies(d) ==
  /\ op[d].pc \in {"reading", "settling"} /\ op[d].waits = {}
  /\ DatabaseFails
  /\ op' = [op EXCEPT ![d] = Idle]
  /\ UNCHANGED <<durable, phase, stoppedSequences, controls, session>>

\* Mutant: ambiguous outcomes are not shown.
ProjectOutcomeUnlessAmbiguous(d) ==
  /\ phase = "running"
  /\ row[d].state \in {"accepted", "rejected"} /\ ~row[d].projected
  /\ row' = [row EXCEPT ![d].projected = TRUE]
  /\ UNCHANGED <<seq, lastSeq, process, session, history>>

\* The queue dispatcher consumes the outcome and acknowledges it (markOutcomeProjected).
ProjectOutcome(d) ==
  /\ phase = "running"
  /\ row[d].state \in Terminal /\ ~row[d].projected
  /\ row' = [row EXCEPT ![d].projected = TRUE]
  /\ UNCHANGED <<seq, lastSeq, process, session, history>>

-----------------------------------------------------------------------------
(* The user's answers to an unresolved delivery. *)

\* retry: retryTerminal, then enqueue (Wake).
Retry(d, allowPossibleDuplicate) ==
  /\ phase = "running" /\ retries[d] < MaxRetries
  /\ row[d].state = "rejected" \/ (row[d].state = "ambiguous" /\ allowPossibleDuplicate)
  /\ row' = [row EXCEPT ![d].state = "pending", ![d].attempt = 0, ![d].due = TRUE, ![d].projected = FALSE]
  /\ retries' = [retries EXCEPT ![d] = @ + 1]
  /\ consents' = [consents EXCEPT ![d] = @ + (IF row[d].state = "ambiguous" THEN 1 ELSE 0)]
  /\ stoppedWork' = stoppedWork \ {d}
  /\ UNCHANGED <<seq, lastSeq, process, session, stops, restarts, faults, sends, lastSent,
                 halted>>

Discard(d) ==
  /\ phase = "running"
  /\ row[d].state \in {"rejected", "ambiguous"}
  /\ row' = [row EXCEPT ![d].state = "abandoned", ![d].projected = TRUE]
  /\ UNCHANGED <<seq, lastSeq, process, session, history>>

\* recheck: a start with a proven turn becomes accepted, anything else stays.
Recheck(d) ==
  /\ phase = "running"
  /\ row[d].state \in {"sending", "ambiguous"}
  /\ row' = IF d \notin Steer /\ Proven(d)
            THEN [row EXCEPT ![d] = MarkAccepted(@, row[d].receipt, turn[d] = "done")] ELSE row
  /\ UNCHANGED <<seq, lastSeq, process, session, history>>

-----------------------------------------------------------------------------
(* The process. *)

BeginShutdown ==
  /\ phase = "running" /\ restarts < MaxRestarts
  /\ phase' = "stopping"
  /\ UNCHANGED <<durable, op, stoppedSequences, controls, session, history>>

\* The process ends: after a drained shutdown, at its deadline, or by a crash at any
\* moment.  Its memory is gone, and with it the start of a turn not yet ingested; the
\* database stays, and a turn projected as running is found orphaned at startup.
Restart ==
  /\ restarts < MaxRestarts
  /\ restarts' = restarts + 1
  /\ phase' = "booting"
  /\ op' = [d \in Delivery |-> Idle]
  /\ stoppedSequences' = [t \in Thread |-> 0]
  /\ controls' = {}
  /\ halted' = [t \in Thread |-> 0]
  /\ turn' = [d \in Delivery |-> IF turn[d] = "unseen" THEN "lost" ELSE turn[d]]
  /\ UNCHANGED <<durable, generation, sessionStopped, stops, retries, faults, sends,
                 lastSent, consents, stoppedWork>>

\* Mutant: an interrupted attempt is simply started again.
ReconcileSendingRequeues(d) ==
  /\ phase = "booting" /\ row[d].state = "sending"
  /\ row' = [row EXCEPT ![d] = Requeued(@)]
  /\ UNCHANGED <<seq, lastSeq, process, session, history>>

\* reconcileSending, one row at a time, before the worker starts.
ReconcileSending(d) ==
  /\ phase = "booting" /\ row[d].state = "sending"
  /\ row' = [row EXCEPT ![d] = IF d \notin Steer /\ Proven(d)
                               THEN MarkAccepted(@, row[d].receipt, turn[d] = "done")
                               ELSE MarkRejected(@, TRUE)]
  /\ UNCHANGED <<seq, lastSeq, process, session, history>>

\* The worker starts when the reconciliation is through, or gave up on an error.
StartWorker ==
  /\ phase = "booting"
  /\ \/ (\A d \in Delivery : row[d].state # "sending") /\ UNCHANGED history
     \/ (\E d \in Delivery : row[d].state = "sending") /\ DatabaseFails
  /\ phase' = "running"
  /\ UNCHANGED <<durable, op, stoppedSequences, controls, session>>

-----------------------------------------------------------------------------
\* A step of the operation that is working on d.
Operate(d) ==
  \/ Claim(d) \/ TakeSlot(d) \/ Prepared(d) \/ Fence(d) \/ Handoff(d) \/ Settle(d)
  \/ \E reached \in BOOLEAN : Send(d, reached)
  \/ \E exit \in Exit : PreparationFails(d, exit) \/ ProviderAccepts(d, exit) \/ ProviderFails(d, exit)

Next ==
  \/ \E d \in Delivery :
       \/ RequestTurn(d) \/ TurnStarts(d) \/ TurnCompletes(d) \/ BackoffElapses(d)
       \/ Wake(d) \/ Sweep(d) \/ Operate(d) \/ OperationDies(d)
       \/ ProjectOutcome(d) \/ ReconcileSending(d)
       \/ Discard(d) \/ Recheck(d)
       \/ \E allow \in BOOLEAN : Retry(d, allow)
  \/ \E t \in Thread : StopCommits(t)
  \/ \E c \in controls : StopProcessed(c[1], c[2]) \/ StopExpires(c[1], c[2])
  \/ BeginShutdown \/ Restart \/ StartWorker

\* Operations are running fibers, the sweep repeats every second, delays and turns
\* end, the reactor or the expiry loop finishes a control, the queue dispatcher reads
\* every outcome, and a server that shuts down or boots gets on with it.  The sweep is
\* strongly fair: each wake-up that takes its key away is caused by one event, so it
\* finds the key free again and again.  The user owes nothing.
Fairness ==
  /\ \A d \in Delivery :
       /\ SF_vars(Sweep(d)) /\ SF_vars(TakeSlot(d))
       /\ WF_vars(Operate(d)) /\ WF_vars(BackoffElapses(d))
       /\ WF_vars(TurnStarts(d)) /\ WF_vars(TurnCompletes(d))
       /\ WF_vars(ProjectOutcome(d)) /\ WF_vars(ReconcileSending(d))
  /\ WF_vars(\E c \in controls : StopProcessed(c[1], c[2]) \/ StopExpires(c[1], c[2]))
  /\ WF_vars(phase = "stopping" /\ Restart) /\ WF_vars(StartWorker)

Spec == Init /\ [][Next]_vars /\ Fairness

-----------------------------------------------------------------------------
\* A prompt reaches the provider once, and once more only for each time the user
\* accepted a possible duplicate: not after a crash, a requeue or a lost answer.
AtMostOnce == \A d \in Delivery : sends[d] <= 1 + consents[d]

\* A row the user is told was not sent (rejected) or is still to be sent (pending) has
\* no send behind it that the user did not consent to repeat.
UnsentMeansUnsent ==
  \A d \in Delivery : row[d].state \in {"pending", "rejected"} => sends[d] <= consents[d]

\* A row only becomes accepted when its prompt did reach the provider.
AcceptedWasSent == \A d \in Delivery : row[d].state = "accepted" => lastSent[d] = row[d].attemptId

AtProvider(d) == turn[d] \in {"unseen", "running"}

\* A thread has one unresolved start at most: one being sent, one whose outcome is
\* unknown, or an accepted one whose turn goes on.
Unresolved(d) ==
  \/ row[d].state \in {"sending", "ambiguous"}
  \/ row[d].state = "accepted" /\ ~row[d].released /\ AtProvider(d)

OneOwner == \A d, e \in Starts : SameThread(d, e) /\ Unresolved(d) /\ Unresolved(e) => d = e

\* Two starts of a thread run at the provider together only if the user retried or
\* discarded one of them.
OneTurnAtATime ==
  \A d, e \in Starts :
    SameThread(d, e) /\ d # e /\ AtProvider(d) /\ AtProvider(e)
      => \E x \in {d, e} : retries[x] > 0 \/ row[x].state = "abandoned"

\* Outside an accepted row no receipt proves anything: recheck and the startup
\* reconciliation leave every row without an acceptance ambiguous.
ProofOnlyInAccepted == \A d \in Delivery : Proven(d) => row[d].state = "accepted"

\* What a row says about its prompt, and whether the current attempt reached the provider.
StatusOf(r) ==
  CASE r.state = "none" -> "absent"
    [] r.state \in {"pending", "sending"} -> "open"
    [] r.state = "accepted" -> "done"
    [] r.state = "ambiguous" -> "uncertain"
    [] r.state = "rejected" -> "refused"
    [] OTHER -> "dropped"

ReachedBy(r, sent) == r.state \in {"sending", "accepted", "ambiguous"} /\ sent = r.attemptId

\* The promise the rows stand for (TurnDeliveryContract).
Contract ==
  INSTANCE TurnDeliveryContract WITH
    status  <- [d \in Delivery |-> StatusOf(row[d])],
    reached <- [d \in Delivery |-> ReachedBy(row[d], lastSent[d])]

\* The outbox implements its contract: crashes, requeues, stop fences and slots never
\* show a prompt as something it is not.
ImplementsContract == Contract!Spec

Reaches(d) == sends'[d] > sends[d]

\* e was requested before d, and its command is not stamped with a later time.
RequestedBefore(e, d) == seq[e] < seq[d] /\ CreatedAt[e] <= CreatedAt[d]

\* A start never overtakes one of its thread that was requested before it, carries no
\* later time and still waits, unless the user put that one back.  (A start whose command
\* carries an earlier time than one requested before it does overtake it.)
NoOvertaking ==
  [][\A d, e \in Starts : Reaches(d) /\ SameThread(d, e) /\ RequestedBefore(e, d)
       => row[e].state # "pending" \/ retries[e] > 0]_vars

\* Once a stop was carried out, no older prompt reaches the provider as long as this
\* server process lives.
StopFence == [][\A d \in Delivery : Reaches(d) => seq[d] > halted[ThreadOf[d]]]_vars

\* The same, whatever happens to the server: stopped work comes back by an explicit
\* retry only ("Automatic retry would resurrect work the user just stopped").
StoppedStaysStopped == [][\A d \in Delivery : Reaches(d) => d \notin stoppedWork]_vars

\* Only the user gets a thread out of this: by an answer to an ambiguous start, or by a
\* stop if the turn of an accepted start was lost before its start was projected.
NeedsUser(e) == row[e].state = "ambiguous" \/ (HoldsReservation(e) /\ turn[e] = "lost")

\* A database error has ended the operation of a claimed row, which waits for the next
\* startup.
Orphaned(e) == row[e].state = "sending" /\ op[e] = Idle /\ faults > 0

\* A requested turn does not hang: it is settled, or a start that needs the user holds
\* its thread, or a database error keeps a row of the thread until the next startup.
EventuallySettled ==
  \A d \in Delivery :
    row[d].state \in {"pending", "sending"} ~>
      \/ row[d].state \notin {"pending", "sending"}
      \/ \E e \in Delivery : SameThread(d, e) /\ Orphaned(e)
      \/ \E e \in Starts : SameThread(d, e) /\ NeedsUser(e)

\* Every terminal outcome is shown, across crashes between outcome and projection.
EventuallyProjected ==
  \A d \in Delivery : row[d].state \in Terminal ~> (row[d].projected \/ row[d].state \notin Terminal)

=============================================================================
