---------------------------- MODULE NextTurnQueue ----------------------------
(***************************************************************************)
(* The durable queue of user turns of one thread: NextTurnQueueStore keeps *)
(* the rows, the pause and the ledger of submissions; NextTurnQueueDis-    *)
(* patcher has one worker per thread, which picks the head, checks the     *)
(* gate, claims the row under a lease, hands its command to the engine and *)
(* settles the row; the outcomes of the provider delivery come back        *)
(* through handleDeliveryOutcome, and a sweep reclaims leases.  Clients    *)
(* edit, cancel, restore, reorder, steer, pause and resume meanwhile.      *)
(*                                                                         *)
(* Every store operation is one transaction and one step; between two of   *)
(* them anything else may happen, so `worker` carries the row it read.     *)
(* The engine is a choice of its answers (OrchestrationEngine), the outbox *)
(* one of its outcomes (TurnDeliveryContract).  The worker may look at the *)
(* queue whenever a row is open: requests notify it and a sweep does every *)
(* five seconds.  A revision is kept as the set of actors whose last       *)
(* reading of it is still current.  Times are choices: a lease may be      *)
(* found expired, a caller may stop waiting.  `handed`, `inHand` and       *)
(* `slipped` are history variables, `clock` and `spent` bound a behaviour. *)
(***************************************************************************)
EXTENDS Integers, Sequences, SequencesExt, FiniteSets

CONSTANTS
  Item,           \* queue items; an item belongs to one submission
  IntentsOf,      \* the ways the submission may enter the queue: the intent of a message of
                  \* the user, the continuation of a provider's turn, a run of the scheduler
  NoItem,
  MaxAttempts,    \* MAX_DISPATCH_ATTEMPTS
  MaxCommands,    \* bound: command ids an item is given by edits and retries
  MaxInterrupts,  \* bound: interrupts of the user
  MaxDisturbances \* bound: everything out of the ordinary, all together: interrupts, requests
                  \* of the user other than a submission, failures of the engine and of the
                  \* delivery, scheduled runs given up, turns that start before their prompt is
                  \* acknowledged, outcomes published twice, gates that pause, crashes

ASSUME IntentAssumption ==
  /\ IntentsOf \in [Item -> SUBSET {"auto", "queue-tail", "queue-head", "steer",
                                     "continuation", "scheduled"}]
  /\ NoItem \notin Item

ASSUME ItemAssumption == IsFiniteSet(Item)

ASSUME BoundAssumption ==
  /\ MaxAttempts \in Nat \ {0} /\ MaxCommands \in Nat \ {0}
  /\ MaxInterrupts \in Nat /\ MaxDisturbances \in Nat

Command   == Item \X (1 .. MaxCommands)
NoCommand == <<NoItem, 0>>

VARIABLES
  row,        \* next_turn_queue
  ahead,      \* the order of the rows by position: the pairs of rows, the earlier one first
  paused,     \* pause_reason_code, "none" while the queue runs
  lastSend,   \* last_human_send_sequence
  ledger,     \* turn_submissions.disposition
  receipts,   \* orchestration_command_receipts
  delivery,   \* provider_turn_deliveries: state and kind of event
  latest,     \* the command of the newest delivery of the thread
  projected,  \* outcome_projected_at
  turn,       \* the pending or running turn of the thread and its command
  worker,     \* processThread and startFromGate
  active,     \* activeDispatches
  current,    \* actors whose reading of the revision is still the revision
  outcomes,   \* the delivery outcomes published and not yet handled
  handler,    \* handleDeliveryOutcome
  route,      \* a Retry, Discard or Promote request between two transactions
  stream,     \* interrupt events the dispatcher has not reacted to
  clock,      \* interrupts so far: the sequence of the event log
  heldBy,     \* the interrupt that paused the queue
  inHand,     \* the pause came when the worker had found the queue running and stood before
              \* the engine's call
  slipped,    \* commands given to the engine since the pause came
  handed,     \* how often the provider has taken, or may have taken, the command's prompt
  spent       \* disturbances so far

store    == <<row, ahead, ledger>>
hold     == <<paused, lastSend, heldBy, inHand, slipped>>
outbox   == <<receipts, delivery, latest, projected, turn, handed>>
memory   == <<worker, active, current, handler, route>>
incoming == <<outcomes, stream>>
bounds   == <<clock, spent>>
vars     == <<store, hold, outbox, memory, incoming, bounds>>

Row  == [state : {"none", "live", "deleted", "gone"}, status : {"queued", "dispatching", "failed"},
         attempt : Nat, owner : {"none", "worker", "delivery"}, command : 0 .. MaxCommands,
         steer : BOOLEAN, code : {"none", "steer_queued", "delivery", "other"},
         source : {"user", "continuation", "scheduled"}]
NoRow == [state |-> "none", status |-> "queued", attempt |-> 0, owner |-> "none",
          command |-> 0, steer |-> FALSE, code |-> "none", source |-> "user"]

Terminal == {"accepted", "rejected", "ambiguous"}
Idle     == [pc |-> "idle", item |-> NoItem, seen |-> NoRow, found |-> "none"]

\* The relation r orders S strictly and totally.
Orders(r, S) ==
  /\ r \subseteq S \X S
  /\ \A i, j \in S : <<i, j>> \in r <=> i # j /\ <<j, i>> \notin r
  /\ \A i, j, k \in S : <<i, j>> \in r /\ <<j, k>> \in r => <<i, k>> \in r

Found == {"none", "pending", "abandoned"} \cup Terminal
         \cup {"ok", "retry", "failed", "error", "steerRefused"}

TypeOK ==
  /\ row \in [Item -> Row] /\ Orders(ahead, {i \in Item : row[i].state = "live"})
  /\ paused \in {"none", "manual", "interrupted", "delivery", "gate"}
  /\ lastSend \in 0 .. MaxInterrupts /\ heldBy \in 0 .. MaxInterrupts
  /\ inHand \in BOOLEAN /\ slipped \in Nat
  /\ ledger \in [Item -> {"none", "pending", "queued", "started", "canceled", "cleared"}]
  /\ receipts \in [Command -> {"none", "accepted", "rejected"}]
  /\ delivery \in [Command -> [state : {"none", "pending", "abandoned"} \cup Terminal,
                               kind : {"start", "steer"}]]
  /\ latest \in Command \cup {NoCommand} /\ projected \subseteq Command
  /\ turn \in [state : {"idle", "pending", "running"}, of : Command \cup {NoCommand}]
  /\ active \subseteq Item /\ current \subseteq {"worker", "handler"}
  /\ worker \in [pc : {"idle", "lift", "hold", "pick", "gate", "autoPause", "recover", "claim",
                       "claimed", "checked", "sending", "sent"},
                 item : Item \cup {NoItem}, seen : Row, found : Found]
  /\ outcomes \in Seq([of : Command, state : Terminal \cup {"abandoned"}])
  /\ stream \in Seq(1 .. MaxInterrupts)
  /\ handler \in [pc : {"idle", "retire", "fallback", "fail", "pause", "reconcile", "lift",
                        "done"},
                  of : Command \cup {NoCommand}]
  /\ route \in [pc : {"none", "retried", "unpausing", "discarded", "holding", "promoting"},
                of : Command \cup {NoCommand}]
  /\ handed \in [Command -> Nat]
  /\ clock \in 0 .. MaxInterrupts /\ spent \in 0 .. MaxDisturbances

Init ==
  /\ row = [i \in Item |-> NoRow] /\ ahead = {} /\ ledger = [i \in Item |-> "none"]
  /\ paused = "none" /\ lastSend = 0 /\ heldBy = 0 /\ inHand = FALSE /\ slipped = 0
  /\ receipts = [c \in Command |-> "none"]
  /\ delivery = [c \in Command |-> [state |-> "none", kind |-> "start"]]
  /\ latest = NoCommand /\ projected = {} /\ turn = [state |-> "idle", of |-> NoCommand]
  /\ handed = [c \in Command |-> 0]
  /\ worker = Idle /\ active = {} /\ current = {}
  /\ handler = [pc |-> "idle", of |-> NoCommand] /\ route = [pc |-> "none", of |-> NoCommand]
  /\ outcomes = <<>> /\ stream = <<>>
  /\ clock = 0 /\ spent = 0

------------------------------------------------------------------------------
(* The store.                                                                  *)

CommandOf(i) == <<i, row[i].command>>
IsLive(i) == row[i].state = "live"
\* readItemByCommandId: the rows that are not deleted and still carry the command.
Carries(i, c) == IsLive(i) /\ CommandOf(i) = c
Unsettled == {"pending", "queued", "started"}
Open == {i \in Item : IsLive(i)}

\* Mutant: the item is put at the head and left where it was.
ToHeadTwice(i) == ahead \cup ({i} \X (Open \ {i}))

Without(S) == {p \in ahead : p[1] \notin S /\ p[2] \notin S}
ToHead(i) == Without({i}) \cup ({i} \X (Open \ {i}))
ToTail(i) == Without({i}) \cup ((Open \ {i}) \X {i})
Bump == current' = {}
\* bumpRevision where the transaction found one of the rows it is about.
BumpFor(S) == current' = IF S = {} THEN current ELSE {}
Disturbs == spent < MaxDisturbances /\ spent' = spent + 1 /\ UNCHANGED clock

\* Mutant: an admitted item may be edited and deleted like any other.
NeverProtected(i) == FALSE

\* rejectAcceptedMutation: a continuation is not the user's to change, and the command of an
\* attempted item may have been admitted.
Protected(i) ==
  \/ row[i].source = "continuation"
  \/ row[i].attempt > 0 /\ receipts[CommandOf(i)] = "accepted"

\* isAdmittedDeliveryQueueItem.
DeliveryFailed(i) == IsLive(i) /\ row[i].status = "failed" /\ row[i].code = "delivery"
Requeued(r) == [r EXCEPT !.status = "queued", !.owner = "none"]

\* A pause begins, goes on under another reason, or is over.
Pausing(reason) ==
  /\ paused' = reason
  /\ inHand' = (reason # "none" /\ IF paused = "none" THEN worker.pc = "checked" ELSE inHand)
  /\ slipped' = IF reason = "none" \/ paused = "none" THEN 0 ELSE slipped

SetPaused(reason) == Pausing(reason) /\ heldBy' = 0 /\ UNCHANGED lastSend

CarriersOf(cs) == {i \in Open : CommandOf(i) \in cs}

\* completeDelivery removes the rows of `completed`; discardDelivery deletes those of
\* `discarded` that have failed.
Closing(completed, discarded) ==
  LET dropped == {i \in discarded \ completed : row[i].status = "failed"} IN
  /\ row' = [i \in Item |->
       IF i \in completed THEN [NoRow EXCEPT !.state = "gone"]
       ELSE IF i \in dropped THEN [row[i] EXCEPT !.state = "deleted"] ELSE row[i]]
  /\ ahead' = Without(completed \cup dropped)
  /\ ledger' = [i \in Item |->
       IF i \in completed /\ ledger[i] \in Unsettled THEN "started"
       ELSE IF i \in discarded /\ ledger[i] # "started" THEN "canceled" ELSE ledger[i]]

MarkDeliveryFailed(c) ==
  row' = [i \in Item |-> IF Carries(i, c)
                         THEN [row[i] EXCEPT !.status = "failed", !.owner = "none", !.code = "delivery"]
                         ELSE row[i]]

RetryRow(c) ==
  row' = [i \in Item |-> IF Carries(i, c) /\ row[i].status \in {"failed", "queued"}
                         THEN [row[i] EXCEPT !.status = "dispatching", !.owner = "delivery", !.code = "none"]
                         ELSE row[i]]

\* The steer becomes an ordinary turn at the head, under the same command id.
SteersOf(c) == {i \in CarriersOf({c}) : row[i].steer}
FallbackSteer(c) ==
  IF SteersOf(c) = {} THEN UNCHANGED <<row, ahead>>
  ELSE \E i \in SteersOf(c) :
         /\ row' = [row EXCEPT ![i] = [Requeued(row[i]) EXCEPT !.steer = FALSE, !.code = "steer_queued"]]
         /\ ahead' = ToHead(i)

\* releaseLease of the claim the worker holds; nothing if the lease was reclaimed.
Released(r, consume) ==
  IF r.status = "dispatching" /\ r.owner = "worker"
  THEN [Requeued(r) EXCEPT !.code = "other", !.attempt = IF consume THEN r.attempt ELSE r.attempt - 1]
  ELSE r

------------------------------------------------------------------------------
(* Requests of the clients.                                                    *)

\* insertSubmission, and what lets a continuation in: the queue runs and is empty.
Submit(i, intent) ==
  /\ row[i].state = "none"
  /\ intent = "steer" => turn.state = "running"
  /\ intent = "continuation" => paused = "none" /\ Open = {}
  /\ row' = [row EXCEPT ![i] = [NoRow EXCEPT
       !.state = "live", !.command = 1, !.steer = (intent = "steer"),
       !.source = IF intent \in {"continuation", "scheduled"} THEN intent ELSE "user"]]
  /\ ahead' = IF intent \in {"steer", "queue-head"} THEN ToHead(i) ELSE ToTail(i)
  /\ ledger' = [ledger EXCEPT ![i] = "pending"]
  /\ lastSend' = IF intent = "auto" THEN clock ELSE lastSend
  /\ IF intent = "auto" /\ paused \in {"manual", "interrupted"}
     THEN Pausing("none") /\ heldBy' = 0
     ELSE UNCHANGED <<paused, inHand, slipped, heldBy>>
  /\ Bump
  /\ UNCHANGED <<outbox, worker, active, handler, route, incoming, bounds>>

\* settleSubmission of an answer that says "queued": the worker could not start the item,
\* or the caller stopped waiting for it.
AnswerQueued(i) ==
  /\ ledger[i] = "pending"
  /\ ledger' = [ledger EXCEPT ![i] = "queued"]
  /\ UNCHANGED <<row, ahead, hold, outbox, memory, incoming, bounds>>

Changes == Bump /\ UNCHANGED <<outbox, worker, active, handler, incoming>>

\* updateCommand, and retry of a failed item: a new command id, and the attempts start over.
Edit(i) ==
  /\ Disturbs /\ IsLive(i) /\ row[i].status # "dispatching" /\ ~Protected(i)
  /\ row[i].command < MaxCommands
  /\ row' = [row EXCEPT ![i] = [Requeued(row[i]) EXCEPT !.command = row[i].command + 1, !.attempt = 0,
                                                         !.code = "none"]]
  /\ Changes /\ UNCHANGED <<ahead, ledger, hold, route>>

SoftDelete(i) ==
  /\ Disturbs /\ IsLive(i) /\ row[i].status # "dispatching" /\ ~Protected(i)
  /\ row' = [row EXCEPT ![i].state = "deleted"]
  /\ ahead' = Without({i})
  /\ ledger' = [ledger EXCEPT ![i] = "canceled"]
  /\ Changes /\ UNCHANGED <<hold, route>>

Clear ==
  \E scope \in {Open, {i \in Open : row[i].status = "failed"}} :
    /\ Disturbs /\ scope # {}
    /\ \A i \in scope : row[i].status # "dispatching" /\ ~Protected(i)
    /\ row' = [i \in Item |-> IF i \in scope THEN [row[i] EXCEPT !.state = "deleted"] ELSE row[i]]
    /\ ahead' = Without(scope)
    /\ ledger' = [i \in Item |-> IF i \in scope THEN "cleared" ELSE ledger[i]]
    /\ Changes /\ UNCHANGED <<hold, route>>

Restore(i) ==
  /\ Disturbs /\ row[i].state = "deleted" /\ ~Protected(i)
  /\ row' = [row EXCEPT ![i].state = "live", ![i].status = "queued", ![i].code = "none"]
  /\ ahead' = ToTail(i)
  /\ ledger' = [ledger EXCEPT ![i] = "queued"]
  /\ Changes /\ UNCHANGED <<hold, route>>

SetSteer(i) ==
  /\ Disturbs /\ IsLive(i) /\ row[i].status = "queued" /\ ~Protected(i)
  /\ turn.state = "running"
  /\ row' = [row EXCEPT ![i].steer = TRUE]
  /\ ahead' = ToHead(i)
  /\ Changes /\ UNCHANGED <<ledger, hold, route>>

\* replacePositions; promote goes on to release the pause (promote of a failed item is an
\* Edit before it).
Reorder(i, promote) ==
  /\ Disturbs /\ IsLive(i) /\ \A j \in Open : row[j].status # "dispatching"
  /\ promote => ~DeliveryFailed(i) /\ route.pc = "none"
  /\ ahead' = ToHead(i)
  /\ route' = IF promote THEN [route EXCEPT !.pc = "promoting"] ELSE route
  /\ Changes /\ UNCHANGED <<row, ledger, hold>>

PauseRequest(reason) ==
  /\ Disturbs /\ SetPaused(reason)
  /\ Changes /\ UNCHANGED <<store, route>>

Interrupt ==
  /\ clock < MaxInterrupts /\ spent < MaxDisturbances /\ spent' = spent + 1
  /\ clock' = clock + 1 /\ stream' = Append(stream, clock + 1)
  /\ UNCHANGED <<store, hold, outbox, memory, outcomes>>

\* Mutant: an interrupt pauses whatever was sent since.
EveryInterruptHolds(k) == TRUE

\* setPaused with interruptRequestedSequence: a newer message of the user wins.
InterruptHolds(k) == lastSend < k

\* reactToDomainEvent(thread.turn-interrupt-requested).
ReactToInterrupt ==
  /\ stream # <<>>
  /\ stream' = Tail(stream)
  /\ IF InterruptHolds(Head(stream))
     THEN Pausing("interrupted") /\ heldBy' = Head(stream) /\ UNCHANGED lastSend /\ Bump
     ELSE UNCHANGED <<hold, current>>
  /\ UNCHANGED <<store, outbox, worker, active, handler, route, outcomes, bounds>>

------------------------------------------------------------------------------
(* reconcileDeliveryPause: settle failed rows whose delivery was resolved, then *)
(* clear a delivery pause that nothing explains any more.                        *)

FailedRows == {i \in Item : DeliveryFailed(i)}
\* getUnresolvedByThread: a newer delivery supersedes an older unresolved one.
Unresolved == latest # NoCommand /\ delivery[latest].state \in {"rejected", "ambiguous"}
\* findBlockingDelivery, of the rows `failed`.
BlockedBy(failed) ==
  LET own == {CommandOf(i) : i \in {j \in failed : delivery[CommandOf(j)].state \in {"rejected", "ambiguous"}}}
  IN  IF own # {} THEN own ELSE IF Unresolved THEN {latest} ELSE {}

ResolvedRows(state) == {i \in FailedRows : delivery[CommandOf(i)].state = state}
Reconciled == ResolvedRows("accepted") \cup ResolvedRows("abandoned")

\* Nothing is left to explain the pause once the resolved rows are settled.
Lifts == paused = "delivery" /\ FailedRows \subseteq Reconciled /\ ~Unresolved

Reconcile ==
  Closing(ResolvedRows("accepted"), ResolvedRows("abandoned"))

\* setPaused(false) with the revision the reconciliation read.
Lift(actor) ==
  IF actor \in current THEN SetPaused("none") /\ Bump ELSE UNCHANGED <<hold, current>>

------------------------------------------------------------------------------
(* The worker: processThread and startFromGate.                                *)

WorkerOnly == UNCHANGED <<outbox, handler, route, incoming, bounds>>
Done       == worker' = Idle
GoTo(pc)   == worker' = [worker EXCEPT !.pc = pc]

Runnable == {i \in Open : row[i].status # "failed"}
IsNext(i) == i \in Runnable /\ \A j \in Runnable \ {i} : <<i, j>> \in ahead

\* The list is read, and the head taken, or the queue paused for a failed delivery.
PickFrom ==
  \/ FailedRows # {} /\ GoTo("hold") /\ UNCHANGED current
  \/ FailedRows = {} /\ Runnable = {} /\ Done /\ UNCHANGED current
  \/ /\ FailedRows = {}
     /\ \E i \in Item : /\ IsNext(i)
                        /\ worker' = [pc |-> "gate", item |-> i, seen |-> row[i], found |-> "none"]
     /\ current' = current \cup {"worker"}

Look ==
  /\ worker.pc = "idle" /\ Open # {}
  /\ IF paused = "delivery" \/ FailedRows # {}
     THEN /\ Reconcile
          /\ current' = (IF Reconciled # {} THEN {} ELSE current) \cup {"worker"}
          /\ GoTo(IF Lifts THEN "lift" ELSE IF Reconciled = {} /\ FailedRows # {} THEN "hold" ELSE "pick")
     ELSE PickFrom /\ UNCHANGED store
  /\ WorkerOnly /\ UNCHANGED <<hold, active>>

WorkerLifts ==
  /\ worker.pc = "lift" /\ Lift("worker") /\ GoTo("pick")
  /\ WorkerOnly /\ UNCHANGED <<store, active>>

Pick ==
  /\ worker.pc = "pick" /\ PickFrom
  /\ WorkerOnly /\ UNCHANGED <<store, hold, active>>

HoldForDelivery ==
  /\ worker.pc = "hold" /\ SetPaused("delivery") /\ Bump /\ Done
  /\ WorkerOnly /\ UNCHANGED <<store, active>>

\* readGate and resolveNextTurnQueueGate.
CanSteerAlongside(dispatching) ==
  /\ worker.seen.steer /\ turn.state = "running"
  /\ \A j \in dispatching : delivery[CommandOf(j)] = [state |-> "pending", kind |-> "start"]

Ready ==
  LET dispatching == {j \in Open : row[j].status = "dispatching"} IN
  /\ paused = "none"
  /\ dispatching = {} \/ CanSteerAlongside(dispatching)
  /\ worker.seen.steer \/ turn.state = "idle"

Seen == <<worker.item, worker.seen.command>>

\* The rejected steer is in the queue as an ordinary turn.
SteerFallback(c, code) ==
  delivery[c] = [state |-> "rejected", kind |-> "steer"] /\ code = "steer_queued"

AlreadyAdmitted ==
  /\ worker.seen.attempt > 0 /\ receipts[Seen] = "accepted"
  /\ ~SteerFallback(Seen, worker.seen.code)

GateWaits ==
  /\ worker.pc = "gate" /\ ~Ready
  /\ Done
  /\ WorkerOnly /\ UNCHANGED <<store, hold, active, current>>

\* The thread is archived, its worktree is gone, its session failed ...
GatePauses ==
  /\ worker.pc = "gate" /\ Disturbs /\ GoTo("autoPause")
  /\ UNCHANGED <<store, hold, outbox, active, current, handler, route, incoming>>

AutoPause ==
  /\ worker.pc = "autoPause"
  /\ IF "worker" \in current
     THEN SetPaused("gate") /\ Bump
     ELSE UNCHANGED <<hold, current>>
  /\ Done
  /\ WorkerOnly /\ UNCHANGED <<store, active>>

GateOpens ==
  /\ worker.pc = "gate" /\ Ready
  /\ worker' = [worker EXCEPT !.pc = IF AlreadyAdmitted THEN "recover" ELSE "claim",
                              !.found = delivery[Seen].state]
  /\ WorkerOnly /\ UNCHANGED <<store, hold, active, current>>

\* The command was admitted by an earlier attempt: follow its delivery.
Recover ==
  /\ worker.pc = "recover"
  /\ \/ worker.found = "accepted" /\ Closing(CarriersOf({Seen}), {})
     \/ /\ worker.found \in {"rejected", "ambiguous"}
        /\ MarkDeliveryFailed(Seen) /\ UNCHANGED <<ahead, ledger>>
     \/ /\ worker.found \notin Terminal
        /\ RetryRow(Seen) /\ UNCHANGED <<ahead, ledger>>
  /\ BumpFor(CarriersOf({Seen})) /\ Done
  /\ WorkerOnly /\ UNCHANGED <<hold, active>>

\* Mutant: the row is claimed by its id alone.
ClaimsAny(i) == row[i].state \in {"live", "deleted"}

Claims(i) == IsLive(i) /\ row[i].status = "queued"

Claim ==
  LET i == worker.item IN
  /\ worker.pc = "claim"
  /\ IF Claims(i)
     THEN /\ row' = [row EXCEPT ![i].status = "dispatching", ![i].owner = "worker", ![i].attempt = row[i].attempt + 1]
          /\ active' = active \cup {i}
          /\ worker' = [worker EXCEPT !.pc = "claimed", !.seen = row'[i]]
          /\ Bump
     ELSE Done /\ UNCHANGED <<row, active, current>>
  /\ WorkerOnly /\ UNCHANGED <<ahead, ledger, hold>>

\* Mutant: the pause is only read at the gate.
PauseUnread == FALSE

PausedMeanwhile == paused # "none"

\* The pause is read again after the claim, and the lease given back if there is one.
Recheck ==
  LET i == worker.item IN
  /\ worker.pc = "claimed"
  /\ IF PausedMeanwhile
     THEN /\ row' = [row EXCEPT ![i] = Released(row[i], FALSE)]
          /\ active' = active \ {i} /\ Bump /\ Done
     ELSE GoTo("checked") /\ UNCHANGED <<row, active, current>>
  /\ WorkerOnly /\ UNCHANGED <<ahead, ledger, hold>>

\* A query stands between that reading and the engine's call, and the pause is not read again.
HandOver ==
  /\ worker.pc = "checked" /\ GoTo("sending")
  /\ slipped' = slipped + (IF paused = "none" THEN 0 ELSE 1)
  /\ WorkerOnly /\ UNCHANGED <<store, paused, lastSend, heldBy, inHand, active, current>>

------------------------------------------------------------------------------
(* engine.dispatch of the claimed command.                                     *)

\* The call returns, and finishDispatch forgets the item.
Answers(outcome) ==
  /\ worker' = [worker EXCEPT !.pc = "sent", !.found = outcome]
  /\ active' = active \ {worker.item}
  /\ UNCHANGED <<store, hold, current, handler, route, incoming>>

Kind == IF worker.seen.steer THEN "steer" ELSE "start"
\* readSteerFallback: a row that is not deleted carries the command of the steer.
FellBack == Carries(worker.item, Seen) /\ SteerFallback(Seen, row[worker.item].code)
\* The receipt of the command decides, unless it is a steer that fell back.
Known == receipts[Seen] # "none" /\ ~FellBack
Admissible == IF worker.seen.steer THEN turn.state = "running" ELSE turn.state = "idle"

\* A delivery is dated by the claim that first took its row: that of an item claimed again may
\* be older than one filed meanwhile.
EngineCommits(outcome) ==
  /\ worker.pc = "sending" /\ ~Known /\ Admissible
  /\ receipts' = [receipts EXCEPT ![Seen] = "accepted"]
  /\ \/ delivery[Seen].state = "none" /\ latest' = Seen
     \/ /\ delivery[Seen].state # "none" \/ (worker.seen.attempt > 1 /\ latest[1] \notin {NoItem, worker.item})
        /\ UNCHANGED latest
  /\ delivery' = [delivery EXCEPT ![Seen] = [state |-> "pending", kind |-> Kind]]
  /\ projected' = projected \ {Seen}
  /\ turn' = IF Kind = "start" THEN [state |-> "pending", of |-> Seen] ELSE turn
  /\ Answers(outcome) /\ UNCHANGED handed

EngineReplays ==
  /\ worker.pc = "sending" /\ Known
  /\ Answers(IF receipts[Seen] = "accepted" THEN "ok" ELSE "failed")
  /\ UNCHANGED <<outbox, bounds>>

\* A turn is active, or the turn to steer is over: nothing is stored for a steer.
EngineDeclines ==
  /\ worker.pc = "sending" /\ ~Known /\ ~Admissible
  /\ Answers(IF Kind = "steer" THEN "steerRefused" ELSE "retry")
  /\ UNCHANGED <<outbox, bounds>>

\* Overload, a stop that supersedes the waiting command, an error before or after the
\* commit, or a rejection kept as a receipt.
EngineFails ==
  /\ Disturbs
  /\ \/ /\ worker.pc = "sending" /\ \E o \in {"retry", "failed", "error"} : Answers(o)
        /\ UNCHANGED outbox
     \/ EngineCommits("error")
     \/ /\ worker.pc = "sending" /\ ~Known /\ Kind = "start"
        /\ receipts' = [receipts EXCEPT ![Seen] = "rejected"]
        /\ Answers("failed") /\ UNCHANGED <<delivery, latest, projected, turn, handed>>

EngineAccepts == EngineCommits("ok") /\ UNCHANGED bounds

\* classifyNextTurnDispatchFailure: the attempts a lost answer may take.
Exhausted(r) == r.attempt >= MaxAttempts

SettleDispatch ==
  LET i == worker.item
      mine == row[i].status = "dispatching" /\ row[i].owner = "worker"
      failed == [row[i] EXCEPT !.status = "failed", !.owner = "none", !.code = "other"]
  IN
  /\ worker.pc = "sent" /\ Done
  /\ \/ /\ worker.found = "ok"
        /\ row' = [row EXCEPT ![i].owner = IF mine THEN "delivery" ELSE row[i].owner]
        /\ ledger' = [ledger EXCEPT ![i] = IF IsLive(i) /\ ledger[i] \in Unsettled THEN "started" ELSE ledger[i]]
        /\ UNCHANGED ahead
     \/ worker.found = "steerRefused" /\ FallbackSteer(Seen) /\ UNCHANGED ledger
     \/ /\ worker.found \notin {"ok", "steerRefused"}
        /\ row' = [row EXCEPT ![i] =
             IF worker.found = "failed" \/ (worker.found = "error" /\ Exhausted(worker.seen))
             THEN IF mine THEN failed ELSE row[i]
             ELSE Released(row[i], worker.found = "error")]
        /\ UNCHANGED <<ahead, ledger>>
  /\ Bump /\ WorkerOnly /\ UNCHANGED <<hold, active>>

------------------------------------------------------------------------------
(* The sweep and the outbox.                                                   *)

\* reclaimStaleLeases: a row that awaits its delivery has no expiry, so every sweep takes
\* it back; a lease of a dead process is found expired sooner or later, one of a live
\* worker if the engine took that long to answer.
Reclaim(i) ==
  /\ IsLive(i) /\ row[i].status = "dispatching" /\ i \notin active
  /\ IF worker.pc = "sent" /\ row[i].owner = "worker" THEN Disturbs ELSE UNCHANGED bounds
  /\ row' = [row EXCEPT ![i] = Requeued(@)]
  /\ Bump
  /\ UNCHANGED <<ahead, ledger, hold, outbox, worker, active, handler, route, incoming>>

Environment == UNCHANGED <<store, hold, memory>>

\* The delivery worker sends the prompt and publishes what became of it.
Deliver(c, result) ==
  /\ delivery[c].state = "pending"
  /\ IF result = "accepted" THEN UNCHANGED bounds ELSE Disturbs
  /\ delivery' = [delivery EXCEPT ![c].state = result]
  /\ outcomes' = Append(outcomes, [of |-> c, state |-> result])
  /\ turn' = IF result = "accepted" /\ delivery[c].kind = "start"
             THEN [state |-> "running", of |-> c] ELSE turn
  /\ handed' = IF result = "rejected" THEN handed ELSE [handed EXCEPT ![c] = @ + 1]
  /\ Environment /\ UNCHANGED <<receipts, latest, projected, stream>>

\* Recheck of the blocking delivery: the provider's history proves an ambiguous start.
RecheckDelivery(c) ==
  /\ c \in BlockedBy(FailedRows) /\ delivery[c] = [state |-> "ambiguous", kind |-> "start"]
  /\ delivery' = [delivery EXCEPT ![c].state = "accepted"]
  /\ outcomes' = Append(outcomes, [of |-> c, state |-> "accepted"])
  /\ UNCHANGED bounds /\ Environment /\ UNCHANGED <<receipts, latest, projected, turn, handed, stream>>

\* Some providers run the turn before they acknowledge the prompt.
TurnStarts ==
  /\ turn.state = "pending" /\ delivery[turn.of].state = "pending"
  /\ turn' = [turn EXCEPT !.state = "running"]
  /\ Disturbs
  /\ Environment /\ UNCHANGED <<receipts, delivery, latest, projected, handed, incoming>>

\* The turn is over and its processing quiesced, or its session stopped.
TurnEnds ==
  /\ turn.state # "idle"
  /\ turn' = [state |-> "idle", of |-> NoCommand]
  /\ Environment /\ UNCHANGED <<bounds, receipts, delivery, latest, projected, handed, incoming>>

\* replayTerminalOutcomes: every second, whatever is not acknowledged is published again.
Replay(c) ==
  /\ Disturbs /\ c \notin projected /\ delivery[c].state \in Terminal
  /\ outcomes' = Append(outcomes, [of |-> c, state |-> delivery[c].state])
  /\ Environment /\ UNCHANGED <<outbox, stream>>

\* The scheduler gave up the run of a scheduled message before the provider took it: the
\* delivery worker drops the prompt and the row; it publishes an outcome only if it had claimed
\* the delivery.
RetireScheduled(c, claimed) ==
  LET i == c[1] IN
  /\ delivery[c].state = "pending" /\ turn # [state |-> "running", of |-> c]
  /\ row[i].state \in {"live", "deleted"} /\ row[i].source = "scheduled"
  /\ c[2] = 1 /\ row[i].command = 1
  /\ Disturbs
  /\ delivery' = [delivery EXCEPT ![c].state = "abandoned"]
  /\ row' = [row EXCEPT ![i].state = "deleted", ![i].owner = "none"]
  /\ ahead' = Without({i})
  /\ ledger' = [ledger EXCEPT ![i] = IF @ \in {"pending", "queued"} THEN "canceled" ELSE @]
  /\ turn' = IF turn.of = c THEN [state |-> "idle", of |-> NoCommand] ELSE turn
  /\ IF claimed
     THEN /\ projected' = projected \cup {c}
          /\ outcomes' = Append(outcomes, [of |-> c, state |-> "abandoned"])
     ELSE UNCHANGED <<projected, outcomes>>
  /\ UNCHANGED <<hold, memory, receipts, latest, handed, stream>>

------------------------------------------------------------------------------
(* handleDeliveryOutcome: a rejection is handled as the row read first asks for, *)
(* then every transaction is a step.                                           *)

HandlerTo(pc) == handler' = [handler EXCEPT !.pc = pc]
HandlerOnly   == UNCHANGED <<worker, active, route, incoming>>

Completes(c) == Closing(CarriersOf({c}), {}) /\ BumpFor(CarriersOf({c}))
Fails(c)     == MarkDeliveryFailed(c) /\ BumpFor(CarriersOf({c})) /\ UNCHANGED <<ahead, ledger>>

HandleOutcome ==
  LET o == Head(outcomes)
      continues == \E i \in CarriersOf({o.of}) : row[i].source = "continuation"
      begin(pc) == handler' = [pc |-> pc, of |-> o.of]
  IN
  /\ handler.pc = "idle" /\ outcomes # <<>>
  /\ \/ o.state = "accepted" /\ Completes(o.of) /\ begin("reconcile")
     \/ o.state = "ambiguous" /\ Fails(o.of) /\ begin("pause")
     \/ o.state = "abandoned" /\ begin("reconcile") /\ UNCHANGED <<store, current>>
     \/ /\ o.state = "rejected" /\ UNCHANGED <<store, current>>
        /\ begin(IF continues THEN "retire" ELSE IF SteersOf(o.of) # {} THEN "fallback" ELSE "fail")
  /\ UNCHANGED <<hold, outbox, bounds>> /\ HandlerOnly

\* What the provider had begun by itself cannot be sent as a prompt: the continuation goes.
RetireContinuation ==
  LET c == handler.of
      dropped == CarriersOf({c})
  IN
  /\ handler.pc = "retire"
  /\ IF delivery[c].state = "rejected"
     THEN /\ delivery' = [delivery EXCEPT ![c].state = "abandoned"]
          /\ projected' = projected \cup {c}
          /\ row' = [i \in Item |-> IF i \in dropped
                                    THEN [row[i] EXCEPT !.state = "deleted", !.status = "failed",
                                                        !.owner = "none", !.code = "delivery"]
                                    ELSE row[i]]
          /\ ahead' = Without(dropped)
          /\ ledger' = [i \in Item |-> IF i \in dropped /\ ledger[i] # "started" THEN "canceled"
                                       ELSE ledger[i]]
          /\ BumpFor(dropped) /\ HandlerTo("reconcile")
     ELSE UNCHANGED <<store, delivery, projected, current>> /\ HandlerTo("done")
  /\ UNCHANGED <<hold, receipts, latest, turn, handed, bounds>> /\ HandlerOnly

\* The row is read again by the transaction.
HandlerRejects ==
  /\ \/ /\ handler.pc = "fallback" /\ HandlerTo("done")
        /\ FallbackSteer(handler.of) /\ BumpFor(SteersOf(handler.of)) /\ UNCHANGED ledger
     \/ handler.pc = "fail" /\ HandlerTo("pause") /\ Fails(handler.of)
  /\ UNCHANGED <<hold, outbox, bounds>> /\ HandlerOnly

HandlerReconciles ==
  /\ handler.pc = "reconcile"
  /\ Reconcile /\ HandlerTo(IF Lifts THEN "lift" ELSE "done")
  /\ current' = (IF Reconciled # {} THEN {} ELSE current) \cup (IF Lifts THEN {"handler"} ELSE {})
  /\ UNCHANGED <<hold, outbox, bounds>> /\ HandlerOnly

HandlerPauses ==
  /\ \/ handler.pc = "pause" /\ SetPaused("delivery") /\ Bump
     \/ handler.pc = "lift" /\ Lift("handler")
  /\ HandlerTo("done")
  /\ UNCHANGED <<store, outbox, bounds>> /\ HandlerOnly

\* acknowledgeOutcome.
Acknowledge ==
  /\ handler.pc = "done"
  /\ handler' = [pc |-> "idle", of |-> NoCommand]
  /\ outcomes' = Tail(outcomes)
  /\ projected' = IF delivery[handler.of].state \in Terminal THEN projected \cup {handler.of} ELSE projected
  /\ UNCHANGED <<store, hold, receipts, delivery, latest, turn, handed, worker, active, current,
                 route, stream, bounds>>

------------------------------------------------------------------------------
(* The requests that resolve a failed delivery, and the crash.                 *)

\* Retry of the blocking delivery; of an ambiguous one, the user accepts a duplicate.
RetryDelivery(c) ==
  /\ Disturbs /\ route.pc = "none" /\ c \in BlockedBy(FailedRows)
  /\ delivery' = [delivery EXCEPT ![c].state = "pending"]
  /\ projected' = projected \ {c}
  /\ handed' = IF delivery[c].state = "ambiguous" THEN [handed EXCEPT ![c] = @ - 1] ELSE handed
  /\ route' = [pc |-> "retried", of |-> c]
  /\ UNCHANGED <<store, hold, receipts, latest, turn, worker, active, current, handler, incoming>>

DiscardDelivery(c) ==
  /\ Disturbs /\ route.pc = "none" /\ c \in BlockedBy(FailedRows)
  /\ delivery' = [delivery EXCEPT ![c].state = "abandoned"]
  /\ turn' = IF turn = [state |-> "pending", of |-> c]
             THEN [state |-> "idle", of |-> NoCommand] ELSE turn
  /\ route' = [pc |-> "discarded", of |-> c]
  /\ UNCHANGED <<store, hold, receipts, latest, projected, handed, worker, active, current,
                 handler, incoming>>

RouteOnly == UNCHANGED <<outbox, worker, active, handler, incoming, bounds>>
RouteTo(pc) == route' = [route EXCEPT !.pc = pc]
RouteEnds == route' = [pc |-> "none", of |-> NoCommand]

RouteSettlesRow ==
  /\ \/ route.pc = "retried" /\ RetryRow(route.of) /\ RouteTo("unpausing") /\ UNCHANGED <<ahead, ledger>>
     \/ route.pc = "discarded" /\ Closing({}, CarriersOf({route.of})) /\ RouteTo("holding")
  /\ BumpFor(CarriersOf({route.of})) /\ RouteOnly /\ UNCHANGED <<hold>>

RouteSettlesPause ==
  /\ \/ route.pc \in {"unpausing", "promoting"} /\ SetPaused("none")
     \/ route.pc = "holding" /\ SetPaused(IF BlockedBy(FailedRows) # {} THEN "delivery" ELSE "manual")
  /\ RouteEnds /\ Bump /\ RouteOnly /\ UNCHANGED store

\* The server dies: only the database survives, and the unacknowledged outcomes are
\* published again.
CrashAndRestart ==
  LET again == {c \in Command \ projected : delivery[c].state \in Terminal} IN
  /\ Disturbs
  /\ worker' = Idle /\ active' = {} /\ current' = {}
  /\ handler' = [pc |-> "idle", of |-> NoCommand] /\ route' = [pc |-> "none", of |-> NoCommand]
  /\ stream' = <<>>
  /\ \E replay \in SetToSeqs({[of |-> c, state |-> delivery[c].state] : c \in again}) : outcomes' = replay
  /\ UNCHANGED <<store, hold, outbox>>

------------------------------------------------------------------------------

WorkerStep == \/ Look \/ WorkerLifts \/ Pick \/ HoldForDelivery \/ GateWaits \/ AutoPause \/ GateOpens
              \/ Recover \/ Claim \/ Recheck \/ HandOver
              \/ EngineAccepts \/ EngineReplays \/ EngineDeclines \/ SettleDispatch

HandlerStep == \/ HandleOutcome \/ RetireContinuation \/ HandlerRejects \/ HandlerReconciles
               \/ HandlerPauses \/ Acknowledge
RouteStep   == RouteSettlesRow \/ RouteSettlesPause
Outcome(c)  == \/ \E result \in Terminal : Deliver(c, result)
               \/ \E claimed \in BOOLEAN : RetireScheduled(c, claimed)

UserStep ==
  \/ \E i \in Item : \E intent \in IntentsOf[i] : Submit(i, intent)
  \/ \E i \in Item : \/ Edit(i) \/ SoftDelete(i) \/ Restore(i)
                     \/ SetSteer(i) \/ \E promote \in BOOLEAN : Reorder(i, promote)
  \/ Clear \/ Interrupt
  \/ \E reason \in {"manual", "none"} : PauseRequest(reason)
  \/ \E c \in Command : RecheckDelivery(c) \/ RetryDelivery(c) \/ DiscardDelivery(c)

Next ==
  \/ UserStep \/ WorkerStep \/ HandlerStep \/ RouteStep
  \/ GatePauses \/ EngineFails \/ ReactToInterrupt \/ TurnStarts \/ TurnEnds \/ CrashAndRestart
  \/ \E i \in Item : Reclaim(i) \/ AnswerQueued(i)
  \/ \E c \in Command : Outcome(c) \/ Replay(c)

Spec == Init /\ [][Next]_vars

------------------------------------------------------------------------------
(* Properties.                                                                 *)

\* The commands of the item that were admitted: each has its delivery.
AdmittedAs(i) == {c \in Command : c[1] = i /\ delivery[c].state # "none"}

\* The rejection of a fallen back steer, decided again, replaces the receipt of its admission:
\* from then on the item passes for one that was never admitted, and may be edited or deleted
\* although its rejected delivery can still be retried.
Overruled(i) == \E c \in AdmittedAs(i) : receipts[c] = "rejected"

\* The provider takes the prompt of a submission at most once, over all the command ids
\* that edits and retries give it, over lost answers of the engine, reclaimed leases,
\* steers that fall back and crashes; a second time only after an ambiguous delivery the
\* user chose to send again, and under another command only if the first was overruled.
SentOnce ==
  \A c, d \in Command :
    /\ handed[c] <= 1
    /\ c[1] = d[1] /\ handed[c] > 0 /\ handed[d] > 0 /\ ~Overruled(c[1]) => c = d

\* The ledger a client replays its submission against tells the truth: "canceled" and
\* "cleared" mean that no command of the item is or will be with the provider, unless one
\* was overruled; "started" that one was admitted.
LedgerTells ==
  \A i \in Item :
    /\ ledger[i] \in {"canceled", "cleared"} /\ ~Overruled(i) =>
         \A c \in AdmittedAs(i) : delivery[c].state \in {"rejected", "abandoned"}
    /\ ledger[i] = "started" => AdmittedAs(i) # {}

\* A pause lets go the one command the worker was already giving to the engine when it came,
\* and nothing else: no item it had only picked or claimed, no later one.
PauseLetsOneGo == slipped <= IF inHand THEN 1 ELSE 0

\* An interrupt never holds back the message the user sent after it, however late the
\* dispatcher hears of the interrupt.
SendOutlivesInterrupt == paused = "interrupted" => heldBy > lastSend

\* "Steer not accepted; queued": the item of a steer that was not sent is queued as an
\* ordinary turn and does not fail with the rejection of that steer.
FallbackStaysQueued ==
  \A i \in Item :
    IsLive(i) /\ ~row[i].steer /\ delivery[CommandOf(i)] = [state |-> "rejected", kind |-> "steer"]
      => row[i].status # "failed"
==============================================================================
