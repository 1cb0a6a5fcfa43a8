# TLA+ models of the F5 server's turn pipeline

F5 is a desktop and web client for coding agents. Its server accepts commands, turns them
into events, and drives provider sessions (Codex, Claude, ACP agents). This directory models
the path of a prompt through the server, which decides whether it is sent, sent once, or not
sent at all, the worker that path runs on, and the client's copy of what the server did.
Paths below are relative to `apps/server/src/` unless they say otherwise.

## The system

| Component | State | Operations | Interaction |
| --- | --- | --- | --- |
| Command admission (`orchestration/commandAdmission.ts`) | two lanes, `accepted`, three counters, `closed`, one-shot notification | offer, enqueue, offerContinuation, take, release, cancelQueued, close | every `dispatch` goes through it; the engine's worker takes from it |
| Orchestration engine (`orchestration/Layers/OrchestrationEngine.ts`) | event log, command receipts, read model, control reservations, stop fence | dispatch, process an envelope, claim/complete/expire a control, replay | commits events with their side effects in one transaction, then publishes them |
| Commit side effects (`orchestration/commitSideEffects.ts`) | outbox and queue rows | insert a delivery, cancel on stop, pause on archive | inside the commit transaction |
| Provider turn deliveries (`orchestration/Layers/ProviderTurnDeliveryRepository.ts`, `...Worker.ts`) | table `provider_turn_deliveries`; `active` operations, slots, `stopping` | claim, accept, reject, requeue, retry, discard, recheck, sweep, startup reconciliation | reads the stop fence, waits for controls, calls the reactor, publishes outcomes |
| Provider command reactor (`orchestration/Layers/ProviderCommandReactor.ts`) | thread gates, session options | deliver a turn, process stop, interrupt, approval, input | calls the provider service, writes session state back as commands |
| Provider service and adapters (`provider/`) | bindings with a session generation, live sessions | startSession, sendTurn, steerTurn, stopSession | external processes |
| Runtime ingestion and projections (`ProviderRuntimeIngestion.ts`, `ProjectionPipeline.ts`) | projected turns and sessions | ingest provider events, release reservations | turns provider events into commands |
| Next-turn queue (`nextTurnQueue/`) | queued items with lease, position and command id; a pause per thread; the ledger of submissions | submit, edit, delete, clear, restore, reorder, steer, pause; the worker's pick, gate, claim, dispatch, settle; outcome handler; lease sweep | dispatches turn starts to the engine, consumes delivery outcomes and interrupt events |
| Bounded background worker (`packages/shared/src/DrainableWorker.ts`) | queue, entries by key, two lanes of counters, idle and change notifications | enqueue, offer, drain, close; one processing loop | the reactors, the ingestion and the queue's dispatcher run on it |
| Web client (`apps/web/src/orchestration/`, `wsTransport.ts`, `store.ts`) | copy of the server's state with a cursor; pending batch, buffer, flags of the snapshot reader, breaker | receive, flush, synchronize, drain, poison, reset, reconcile, reconnect | gets pushes and snapshots over one WebSocket |
| Storage maintenance, push bus, scheduled tasks, terminals, workflows, checkpointing, ... | | | see Not modelled |

A prompt travels: web client -> submission in the queue -> worker of the thread -> `dispatch`
-> admission -> engine worker -> transaction (event, receipt, outbox row) -> delivery worker
-> reactor -> provider; then back: outcome -> queue, provider events -> ingestion ->
commands -> events -> push -> web client.

What is hard here: fibers interleave between any two effects; the server may crash between
the provider call and the stored receipt; stops race claimed starts; a timeout releases a
control somebody waits for; outcomes and completions arrive in either order; clients edit an
item while its command is on the way; an event may arrive before or after the snapshot that
contains it. The properties that make the pipeline correct are: a prompt is never duplicated
without consent, never reported as something it is not, never sent after it was stopped,
held back by a pause unless it was already in hand, sent in order, one at a time per thread,
never left hanging, and what a client shows is what the server has.

## Modules

| Module | What it is |
| --- | --- |
| `CommandAdmission` | the admission queue |
| `MCCommandAdmission` | its small instance |
| `CommandAdmissionProofs` | its theorems |
| `TurnDeliveryContract` | the abstract promise about one submitted prompt |
| `ProviderTurnDelivery` | outbox rows, delivery worker, stop fence, crashes; implements the contract |
| `MCProviderTurnDelivery` | its small instances |
| `ProviderTurnDeliveryProofs` | outcomes and the contract, for every instance |
| `ProviderTurnOwnershipProofs` | ownership, order and the stop fence, for every instance |
| `OrchestrationEngine` | dispatch, receipts, event log, read model, publication, control reservations |
| `MCOrchestrationEngine` | its small instances |
| `OrchestrationEngineSteps` | its types, and what each action does in the terms of the invariants |
| `OrchestrationEngineProofs` | log, receipts, answers, publication, read model, stops and control reservations, for every instance |
| `NextTurnQueue` | the durable queue of one thread, its worker, clients, engine answers, delivery outcomes, crashes |
| `MCNextTurnQueue` | its small instance |
| `NextTurnQueueProofs` | what is sent, what the ledger says and what a pause stops, for every instance |
| `DrainableWorker` | the bounded background worker: coalescing by key, two lanes, drain, close, death |
| `MCDrainableWorker` | its small instance |
| `DrainableWorkerProofs` | accounting of entries and bytes, coalescing and drains, for every instance |
| `EventRouter` | the web client's event stream, snapshots and recovery |
| `MCEventRouter` | its small instances |
| `EventRouterProofs` | what the client shows, misses and waits for, for every instance |

### CommandAdmission

`ordinary` and `controls` are the lanes, `kind` says as what an envelope is accepted, and
`waiting`/`taker` are the callers parked on the notification: a caller that captured it is
"blocked", `Notify` makes it "woken". Each exported operation is an action; `enqueue` is two
(`EnqueueWaits`, `EnqueueResumes`) because the caller gives up control between them, and it
may be interrupted there. `notify` is one step: the code replaces the deferred around a
`Deferred.make`, and the model assumes the fiber is not rescheduled inside it. The engine's
finalizer (close, then release everything) is `Close` followed by `Release`, which is allowed
for queued envelopes once the queue is closed. Rejected offers change nothing and are not
actions. `Bytes` is the size of a set of envelopes, assumed to be additive.

### ProviderTurnDelivery

`row` is the table; `attemptId` stands for the random attempt id (a fresh one per claim),
`receipt` for the attempt the acceptance receipt names, `due` for `not_before`, `released`
for `reservation_released_at`, `projected` for `outcome_projected_at`. `op[d]` is the fiber
that works on a delivery, with a program counter for each point where it waits or where
another actor can interfere:

    reading -> claimed -> preparing -> fencing -> intent -> ready -> calling -> settling

`turn` is what the projections know of the turn a send opened: unseen (started, not ingested),
running, done, or lost (ended by a stop or a crash before its start was projected). `Precedes` is
the order of the rows: by `created_at`, then by insertion. The former is not the time of insertion
but the time the command carries (`decider.ts:1692`, `commitSideEffects.ts:163-170`): a client's
stamp, or the queue's own (`dispatchStartedAt ?? createdAt`, `NextTurnQueueDispatcher.ts:916`).
`CreatedAt` gives every delivery one, in any order, so a start requested later but stamped earlier
overtakes in the model as it does in the code; `NoOvertaking` speaks of the others
(`RequestedBefore`). `StopCommits`, `StopProcessed` and `StopExpires` are the life of a
`thread.session.stop`; an archive and a thread-wide interrupt touch rows and fence in the same
way. `StopProcessed` is a stop the reactor carries out successfully; one whose provider call fails
is covered only as one that expires. `Restart` is a crash or the end of a shutdown at any step:
`op`, `phase`, fence and controls are gone, rows and projections stay.

Abstractions: what makes a preparation fail (missing thread, worktree, project provider,
scheduled-run fence, usage limit) is one nondeterministic failure, retryable, final or of
unknown certainty. An adapter reports "not sent" only of input that did not reach the model;
that is the contract `deliveryCertainty` states and is assumed of the external providers.
The per-thread turn gate of `deliverTurnStart` is left out, so a start and a steer of one
thread interleave more freely than in the code. A steer has a turn of its own in the model.
The fallback that turns a rejected steer into a start is not modelled. The slots in use are
counted by the operations that prepare, so a slot that is not handed back cannot be expressed.

### TurnDeliveryContract

Six states (absent, open, done, uncertain, refused, dropped), whether the prompt as opened
last has reached the provider, and the numbers of sends and consents. `ImplementsContract`
maps the rows to it (`pending` and `sending` are open, `ambiguous` is uncertain, ...).

### OrchestrationEngine

A `Request` is one call of `dispatch`; calls with the same `CommandOf` are retries or
duplicates. `env` holds the call's `CommandEnvelope` and where the call stands:

    new -> prepared -> reserved -> queued -> taken -> done      (or joined -> done)

"Prepared" calls have looked up worktree and session and are about to enter the
uninterruptible part; "reserved" ones have their admission order and, as controls, a visible
reservation ("Admission may yield"); "joined" ones await the result of another envelope. The
worker's steps are `Take`, `Decide` (receipt lookup, barriers, decider), `Commit` (the
transaction), `Publish`, or on failure `Reconcile`, and `Answer` (rejection receipt, release,
result; the release repeated by `ensuring` finds nothing to do). `Claim` and `Complete` are
the reactor's side of a control, `Expire` and `ExpiryEnds` the 30 s loop, whose report is a
call of its own (`NoticeOf`) and passes through the same worker.

A log entry names the call whose envelope appended it and stands for all events of that
command, which commit together. `Commit` may fail with nothing written, or report an error
although it took effect: that is the case `reconcileReadModelAfterDispatchFailure` exists for
(`OrchestrationEngine.test.ts`, "reconciles in-memory state when append persists but
projection fails"). Events of another server on the same state directory are foreign entries.

Abstractions: barriers and decider are a choice between accept, reject and not ready; the
queue admits or refuses by choice and hands out commands in any order, which includes the
order `CommandAdmission` keeps; "stop" is a session stop or a thread-wide interrupt; the
legacy form of pin receipts, metrics and the exclusive maintenance lock are left out. A steer
that comes back unsent is dispatched again as a start under the same id; that the queue holds
only one of the two is taken from `fallbackSteer`.

### NextTurnQueue

`row` is the table of one thread, `ahead` the order of the rows that are not deleted by their
positions (the pairs of an earlier and a later row), `paused` the pause of the thread, `ledger`
the answer a client gets when it sends a submission again. Every store operation is one
transaction and one step. `worker` is `processThread` and `startFromGate`, one state for each
point between two transactions:

    idle -> (lift | hold) -> pick -> gate -> claim -> claimed -> checked -> sending -> sent -> idle
                                      `-> autoPause, recover

with `worker.item` and `worker.seen`, the row as it was read before the gate. `EngineAccepts`,
`EngineReplays`, `EngineDeclines` and `EngineFails` are what `dispatch` may answer;
`EngineFails` includes an error that hides a commit (`EngineCommits`).

The pause is read at the gate and again after the claim (`NextTurnQueueDispatcher.ts:885`,
`Recheck`). After the last reading the code awaits a query (l.901-905) before it calls the engine
(l.918); `HandOver` is that call, a step of its own, and a pause may come before it. The command
is then handed over although the pause is in force, and that is what the property says: `inHand`
remembers that the worker stood in this window when the pause came, `slipped` counts the commands
handed over since, and `PauseLetsOneGo` allows one of them in the first case and none in the
other. `Pausing` keeps both: they start anew with a pause, and go on when its reason changes.

An item is a message of the user, the continuation of a turn the provider began by itself, or the
run of a scheduled task (`source`). A continuation gets in only if the queue runs and is empty,
and no client may change or delete it (`Protected`). A scheduled run that is given up before the
provider took it is retired by the delivery worker in one transaction with its row
(`RetireScheduled`), and the dispatcher hears of it as "abandoned" if it had been claimed.

`Deliver` is the outbox reduced to its outcomes (`TurnDeliveryContract`), `Replay` its repetition
of an outcome that was not acknowledged. The handler of an outcome goes through its transactions
one by one. `HandleOutcome` settles the row of an accepted or ambiguous delivery, or takes from
the row it reads what a rejection asks for; then

    accepted    complete the row -> reconcile -> (lift)
    abandoned   reconcile -> (lift)
    rejected    a continuation: retire it (RetireContinuation) -> reconcile -> (lift)
                a steer: fall back (HandlerRejects);  otherwise: fail -> pause
    ambiguous   fail -> pause

and `Acknowledge` in every case. `HandlerReconciles` is the loop of `reconcileDeliveryPause` and
the reading that decides on the pause: one step, because "accepted" and "abandoned" are final for
a delivery, and whatever changes the queue between that reading and the lift changes the revision,
which the lift compares. `route` is a Retry, Discard or Promote request between its two
transactions. A revision compare-and-set is kept as the set of actors whose last reading is still
current. The newest delivery of a thread (`latest`) goes by `created_at`, as in
`getUnresolvedByThread`: an item that was claimed before keeps the time of its first claim
and may be older than a delivery filed since.

Abstractions: one thread; times are choices (a lease may be found expired, a caller may stop
waiting); all reasons of the gate to pause are one; storage errors of the worker's and the
handler's own queries are left out (one in the window before the engine's call leaves the row
`dispatching` and the item in `activeDispatches` until the next start); the fence of the outbox is
not part of it. Scheduled runs that are not bound to settings pass the queue like messages sent to
its tail; left out are the binding of the others, a run whose item was edited before it was given
up, and the cancellations that reach the queue by other callers of `fenceScheduledRun`. The
deletion that `ProviderContinuationWorker` attempts of its own items is always refused by
`rejectAcceptedMutation`, so it is no action. What else belongs to the queue but is left out is
listed under Not modelled.

### DrainableWorker

A request is one call of `enqueue` or `offer`; an entry carries the name of the request that
created it. `AdmitRefused`, `AdmitSuperseded`, `AdmitFull` and `Admit` are the results of
`admit`, `Take`, `Park` and `Finish` the loop, `LoopReturns`, `ScopeCloses` and `LoopDies` its
three ends, `StartDrain` and `EndDrain` the two sides of `drain` and `close`. `idles` keeps
every idle notification ever made, since a drain may wait on one that was replaced since.
`SelfNotify` requests are made by an item's own processing, for its own key, as the queue's
dispatcher does when `processThread` notifies its own thread.

Abstractions: what the code does between two suspension points is one step (Node runs one
fiber at a time); the counter of failures is left out; requests are finitely many. In the
checked instance a notification from within is as large as the entry it replaces, as the
dispatcher's thread ids are, so it never has to wait. The comment at `DrainableWorker.ts:119-120`
("must never wait for its own capacity") says this of every notification; the module shows that a
larger one may wait for room that only its own loop could make, and `EveryoneReturns` is then
violated. No worker of the program sends itself such an item.

### EventRouter

`client` is the record of the router's variables and of the store it feeds. JavaScript runs one
callback and then all microtasks, so a step is one callback: operators take the client to its
state after a call (`Flushed`, `Buffered`, `Drained`, `Synchronizing`, `SyncEnded`, ...) and
the actions compose them as the code composes the calls. The two awaits of a synchronization
are the states of `sync`: queued (the socket is down), sent, finishing. `wire` is the socket, a
FIFO that a disconnection empties; the answer to the snapshot request is not on it, so it may
overtake pushes and be overtaken. `buffered` and `pending` may be one array after a stream
reset (`shared`), as in the code. `Throws` and `ThrowsLate` are events whose reducer or side
effect throws. The reducers are given in closed form: a batch adds its events to `shown`, moves
the cursor to the greatest of them and notes if one was there already or comes twice (`Repeats`).
`PoisonAges` lets the one-minute window of the breaker pass. `NothingMissed` compares the cursor
with the socket; what the store shows of the events the cursor has passed is the subject of
`ShowsPrefixOfOneServer`, and of `CatchesUp`, until the stream is reset (`wasReset`). Of a client
that met another server process both say less, because the store may then lack events for good
(`router_reset`).

Abstractions: the welcome and joining the broadcast are one step of the server; provisional
snapshots, the byte limit of the buffer, thread details and disposal are left out. A restarted
server has the same database or one restored from a backup (one event shorter).

## Runs

| Run | Instance | Shows |
| --- | --- | --- |
| `admission` | three ordinary envelopes, two controls, tiny limits | limits, exact accounting (no ghost entry, one continuation, a waiter holds nothing), no lost wake-up, controls are served |
| `delivery_crash` | a start and a steer of a thread, 2 attempts, 1 restart, 1 explicit retry | no unwanted duplicate, truthful outcomes, the contract |
| `delivery_live` | 2 starts of a thread, requested in either order, one stamped later, 1 stop, 1 restart, 1 database error | one owner, one turn at a time, no overtaking of a start requested earlier and stamped no later, the stop fence within a process; deliveries settle, are released and shown |
| `delivery_stop_lost` | 1 start, 1 stop, 1 restart | expected violation, see Findings |
| `engine_safety` | a steer, its retry on another thread, the start made of it, a stop with its notice, 1 failure | committed once, answered truthfully, superseded by the stop, nothing reported as not sent is carried out, no place leaks, the read model keeps up |
| `engine_live` | a stop sent twice under one id with its notices, 2 failures, 1 foreign event | published once and in order, every caller is answered, every reservation ends |
| `engine_late_control` | a stop and its repetition | expected violation, see Findings |
| `worker` | two revisions of a key, an item that notifies its own key, a control, an oversized item; a drain and a close | exact counts of entries and of bytes, coalescing loses nothing, a drain is complete, everybody returns |
| `queue` | a message, and a steer, a continuation or a scheduled run, 2 attempts, 2 command ids each, 1 interrupt, 2 disturbances | sent once, the ledger tells the truth, a pause lets go at most the command in hand, an old interrupt does not hold back a newer message |
| `queue_steer` | the same | expected violation, see Findings |
| `router` | 4 events (2 that throw, 1 whose side effect throws), buffer 2, batch 2, 2 faults, 1 restart | until its stream is reset a synchronized client shows each event once and in the end all of them; no event beyond the cursor is lost, no client is stranded, every cursor catches up or the breaker opens |
| `router_reset` | 3 events, 1 restart | expected violation, see Findings |

Bounds: two deliveries of one thread are the smallest conflict for ownership and order, and a
start beside a steer the smallest for the two lanes. Two attempts let one automatic retry happen;
one crash is enough to hit every point of an operation, and everything it can leave behind is
reconciled by the boot that follows. For the engine, two calls under one id are the smallest
duplicate, two controls the smallest queue in front of the expiry loop, and two failures let an
error hide a commit and then disturb the reconciliation. In the queue a "disturbance" is anything
out of the ordinary (a request other than a submission, a failure, a repeated outcome, a pausing
gate, a scheduled run given up, a turn that starts before its prompt is acknowledged, a crash),
and two of them are the smallest race of one with the other, on top of everything the worker, the
engine and the outbox do by themselves. In the router four events fill a buffer of two, leave a
gap and complete a batch, and three failing batches open the breaker; only the first event applies
without any exception there, so batches of several good events are covered by `ShowsPrefixHolds`
alone. `delivery_crash` has no database error: that such an error keeps within the contract is
covered by `OutboxImplementsContract` alone, that it frees no thread by `OneOwner` in
`delivery_live`. Deadlock is checked nowhere: each of these systems is idle once the bounded
inputs are used up. No run uses symmetry.

Fairness, for the five runs with liveness properties: operations of the outbox are running
fibers (weak fairness of `Operate`), which includes that an adapter call ends; delays pass; an
ingested turn starts and completes, and a turn that was running when the server died is found
orphaned at startup (`reconcileOrphanedProviderTurnsOnStartup`); the reactor or the 30 s expiry
ends a control; outcomes are replayed every second until acknowledged. Strong fairness is
needed twice: the sweep repeats every second and finds a key free again and again, and
semaphore slots are granted in order. The user owes nothing. `EventuallySettled` names the
escapes: a row that needs the user (`NeedsUser`) and one that a database error, struck while
its outcome was recorded, leaves `sending` until the next start (`Orphaned`). It says nothing of a
forgotten release of a completed turn, which the ownership query makes up for
(`ProviderTurnDeliveryRepository.ts:44-47`), and nothing of slots.

In the engine the fibers of callers, the worker, the reactor (a running provider call ends) and
the expiry loop are weakly fair; neither clients, shutdown nor restart are. The worker
does not give way between its publication and the answer unless it stores a rejection
(`Yields`). `engine_live` contains controls only, so that answers to superseded starts are
checked for their truth (`AnswersTellTheTruth`) and not for their arrival. In the bounded
worker the woken callers, the loop (processing ends) and the awakened drains are weakly fair.
In the router, what is due is weakly fair: queued pushes, frames that were requested, the
server's answer, the retry timer and the reconnect; nothing is assumed of the one-minute
sequence reconciliation, so `CatchesUp` does not lean on it. The admission assumes that the
engine keeps taking. The queue has no liveness property.

## Findings

`delivery_stop_lost`: a start claimed before a stop, requeued after it (retryable failure or
shutdown before the send) and alive across a restart is sent, because the fence
`stoppedSequences` is a map in memory and the stop only rejected `pending` rows.

`engine_late_control`: a control expires, the user is told that it was not sent, its
reservation is released, but its event still waits in the reactor. If the same command id is
sent again, the call publishes a new reservation before the worker finds the receipt, and the
old event claims it: the control runs late. `engine_safety` shows that the promise holds
without a repetition under the same id. The same loan of a reservation can leave the repeating
caller without an answer at shutdown, which `EveryDispatchAnswered` names as an exception
(`Robbed`).

`queue_steer`: the outcome of a rejected steer is published again until it is acknowledged, so
the handler may run twice. The first time the steer becomes an ordinary turn at the head of the
queue; the second time the row is no steer any more, and the general branch marks it failed and
pauses the queue. The row itself remembers that it fell back only in its error code
`steer_queued`, which `releaseLease` overwrites.

`router_reset`: `resetStream` makes `pendingEvents` and `bufferedEvents` one array. Events that
arrive while the fresh snapshot is read are then flushed into the emptied store, which gets
a cursor ahead of the snapshot and ignores it. The client announces that it is synchronized,
until the next full snapshot (a reconnect, a recovery or the periodic one) repairs it.

Worth knowing of the engine: a shutdown that interrupts the worker releases the envelope it
was at before the finalizer runs, so that caller gets no answer (`InFlight`); and when an
error hides the commit of a control, the control is published but its reservation is released
with the error, so the reactor may drop it although the receipt says accepted.

Worth knowing of the queue: an item whose steer fell back is dispatched again as a start under
the same command id, and if the engine decides that start and rejects it as an invariant error,
the rejection overwrites the receipt of the accepted steer (`OrchestrationEngine.ts:881-895`).
From then on the item passes for one that was never admitted: `rejectAcceptedMutation` lets the
user edit or delete it, while the Retry of its rejected delivery (`wsServer.ts:7466`) can still
send it. `SentOnce` and `LedgerTells` therefore leave out items that were overruled in this way
(`Overruled`). It takes a series of four disturbances, more than the `queue` run has.

Not a finding but worth knowing: an accepted start whose `turn.started` was not ingested
before a crash keeps its thread until the user stops the session (`NeedsUser`); and since a
receipt is only ever written together with `accepted` (`ProofOnlyInAccepted`), recheck and
startup reconciliation never prove an acceptance.

## Proofs

Every invariant and every action property that a run checks, and the refinement of the contract,
is also a theorem; what a run shows on its instance then holds for every value of the constants.

`CommandAdmissionProofs` proves for all limits and envelopes that `TypeOK`, `Bounded`,
`NoLostWakeup` and `AccountingExact` are invariants. `TypeOK`, `Bounded` and the parts
`CountersExact` and `WaiterHoldsNothing` are inductive together with `NoLostWakeup`: exactness is
what makes boundedness inductive, and the waiter invariants need each other. For the lanes
`LInv` adds `NoGhostEntry` and `Ownership`: who is not accepted is on no lane, so an admission
cannot put an envelope there twice, and exactly a continuation has an owner, of which it is the
only one. Assumptions: finitely many envelopes, natural limits, additive sizes.

`ProviderTurnDeliveryProofs` assumes only that every delivery has a thread and that the
bounds are naturals; the bounds are not used otherwise, so the results hold for any number of
crashes, stops, retries and database errors. The inductive invariant `IInv` adds to `TypeOK`
what one row, its operation and its history must agree on (`Sound`): an operation past its
claim owns a `sending` row of its own attempt; before `calling` that attempt is unsent; a
failure that calls itself "not sent" really is; waits exist at the two waiting points only; a
receipt of the current attempt exists in accepted rows only; and the row's state bounds
`sends` by `consents`. `BootIdle` says the startup reconciliation meets no operation. From it
follow `AtMostOnce`, `UnsentMeansUnsent`, `AcceptedWasSent` and `ProofOnlyInAccepted`, none of
which is inductive alone, and, step by step, the refinement `Spec => ImplementsContract`.

`ProviderTurnOwnershipProofs` ties the rows of one thread together (`OwnInv`). `OneOwner` needs
that a stopped session has no turn at the provider (`StoppedIsEmpty`), which in turn needs the
generation an operation remembers (`Generations`): without the generation check of `sendTurn`, a
claim could find the session stopped while an older start is still about to be sent. `StopFence`
needs that event sequences are distinct and that the fence is at least as high as every processed
stop (`Clock`), and that an operation past the fence is younger than those stops unless the
generation moved (`Fenced`). `NoOvertaking`, for any time stamps, and `OneTurnAtATime` use
`OneOwner` again: a requeue cannot put an earlier start behind one that is on its way.

`AcceptedWasSent` and `ProofOnlyInAccepted` are proved only; no run spends time on them.

The engine is proved about in two modules, from `RequestAssumption`, `NoticeAssumption` and
`BoundAssumption`: a command id and a thread for every call, one report per control, natural
bounds. `OrchestrationEngineSteps` shows `TypeOK`, says what an action does to one envelope
(`Calls`: it stays, advances, joins, is answered or turned away) and to the worker, so that the
invariants need not look at every action again, and shows `Working`: a busy worker has exactly
one taken command, and it has appended nothing before it commits. `OrchestrationEngineProofs`
shows the inductive invariant `IInv`:

- `Recorded`, for `CommittedOnce`: every entry has a receipt; two entries of one command are a
  steer and then a start; entries of a command that fell back are steers, and no steer of such
  a command is under way. The last part is what lets the worker decide a command with a receipt
  again, when its steer came back.
- `Bound`, `Accountable` and `Told`, for `AnswersTellTheTruth`: an accepted receipt names a call
  in the log, a joined call shares command and thread with the control it joined, and a call
  that is not yet taken is not in the log.
- `Announced`, for `PublishedInOrder`, and `Applied`, for `ReadModelKeepsUp`: the one commit that
  may still be unpublished or unapplied is the worker's own (`Pending`), and it is behind
  everything published and applied.

Of the controls it shows `StopSupersedes` (`Overtaken`: what was queued when a stop was
ordered has a smaller admission order, and is done once the stop is published), and, under
`OneControlPerId`, `NotSentIsNotSent` and `NoSlotLeaks`. The condition is needed:
`engine_late_control` violates the first with one repeated control. `NoSlotLeaks` rests on the
worker not giving way between publication and answer (`Yields`): a control can be claimed or
expire only after its caller was answered.

`DrainableWorkerProofs` shows `TypeOK`, `AccountingExact`, `NothingLost` and `DrainIsComplete` of
the background worker, from its three assumptions (keys, revisions and sizes for every request,
natural limits, one lane per key). The inductive invariant `IInv` consists of

- `Shape`: queue, map of keys and active entry agree, and every live entry's request was
  admitted, so that no request can be pushed twice; `Counts` follows the entries with it;
- `Sizes`: each lane's counter of bytes is the sum over its live entries. `Bytes` is a fold over
  a set, so it takes lemmas that such a fold exists (`FoldExists`, for sets of up to any number of
  elements), does not depend on the order of its elements (`FoldRemoves`) or on anything but their
  bytes (`BytesSame`); each is shown on a smallest counterexample, which stands in for induction.
  A replaced item stays in its lane because the lane depends on the key (`LaneAssumption`);
- `Looping`: the loop has an item exactly while it processes one, and an active entry whose item
  changed is dirty; at most one call made from within an item's processing waits, and the loop
  waits in it;
- `Covered`, for `NothingLost`: while the loop lives, whatever was accepted was served or is
  covered by a live entry or the running item. The newest item of a key replaces every accepted
  one of it (`NewestReplaces`), which is why coalescing may drop what it replaces;
- `Pending` and `Drained`, for `DrainIsComplete`: only the last Deferred may be pending, it is so
  exactly while something is outstanding, and one that says ok was settled when nothing was.
  A drain that waits on a Deferred replaced since therefore still knows what it was told.

`NextTurnQueueProofs` shows `TypeOK`, `SentOnce`, `LedgerTells`, `PauseLetsOneGo` and
`SendOutlivesInterrupt` for any finite set of items, any intents and any bounds, hence for any
number of disturbances. The inductive invariant `IInv` adds to the types

- `Deliveries`: a command is handed over at most once and has a receipt once it has a delivery;
  two commands of an item have deliveries only if the receipt of one was overruled. `Commands`
  says why: only the command a row carries can be new to the engine, and every earlier one that
  was admitted was overruled;
- `Claimed`: what the worker may still believe of the row it read. Nobody takes a claimed row
  from it as long as the command was not admitted, and only a claim counts an attempt, so a
  command that has been accepted has used one;
- `Messages`: outcomes under way, and requests between their two transactions, speak of
  commands that were admitted, so that the handler and Retry never revive another one;
- `Books`, for `LedgerTells`: a cancelled item carries an abandoned delivery, or was deleted
  before it was accepted, or gave up a command that was overruled;
- `Pauses`: while the queue runs nothing has slipped and nothing is in hand; while a pause is in
  force, a worker that stands before the engine's call was there when the pause came, and nothing
  has slipped yet. A second command would need a second reading of the pause, which finds it.

The proof sorts the actions first (`Kinds`): each writes the rows, or the outbox, or neither, or
is one of the two that retire a delivery together with its row, so that a part of the invariant
about one side survives the actions on the other at once.

`EventRouterProofs` shows `TypeOK`, `NeverStranded`, `NothingMissed` and
`ShowsPrefixOfOneServer`. Its assumptions are those of the code: a batch has more than one event
and is no longer than the buffer (256 and 2000), and the breaker opens after some failures; which
events throw is arbitrary, and so are the numbers of events, faults and restarts. As an action
composes several calls, the argument goes by call: each operator from clients to clients keeps

- `Healthy(c, g, n)`: who must read a snapshot at once has asked for one (`Asks`), who counts as
  synchronized is at rest (`Calm`), and after the welcome the client is synchronized or on its
  way (`Awake`) and has, or will have once its snapshot is merged, every event of `1 .. n`
  (`Caught`). `World` and `Socket` tie `n` to the wire: it holds the last events in order, after
  a possible welcome. `IInv`, made of these, gives the first three properties;
- `Faithful(c, s, n, l)`, until the stream is reset: the pending batch continues the committed
  cursor without a gap (`Clean`), nothing is pending while a snapshot is read (`Tidy`), and the
  store is ahead of the committed cursor only by events the socket has delivered, which the next
  snapshot contains (`Fit`). The last part is what a failing side effect makes necessary: the
  store has taken a batch that the router counts as lost. `JInv` adds it to `IInv` and gives
  `ShowsPrefixOfOneServer`.

The condition "until the stream is reset" is needed: `router_reset` violates the property
without it.

Only model-checked: the liveness properties (`ControlsAreTaken`, `EventuallySettled`,
`EventuallyProjected`, `EveryDispatchAnswered`, `ControlsFinish`, `EveryoneReturns` and
`CatchesUp`), which are outside the prover's reach, and the four violations.

## Not modelled

Of the modelled parts: the barriers before the decider, the decider (`decider.ts`) and the
read-model projector (`projector.ts`) as functions, taken as a choice of verdicts; the legacy form
of pin receipts and the exclusive maintenance lock of the engine; history-segment, baseline and
thread-deletion queries of the outbox; the fallback of a rejected steer inside the outbox; of the
queue the promotion with an active interrupt and the single suppression slot two such promotions
share, usage-limit resumes, the settings that scheduled runs are bound to, worktree gates beyond
one pause, duplication, deletion of the thread, attachments, the queue's size limit, retention,
and the protocol between a waiting caller and its answer beyond `AnswerQueued`; of the web client
the transport's request queue, thread details, provisional snapshots and the UI. A synchronization
that was requested before a connection was lost can finish on the next connection before its
welcome and announce a synchronized client that has missed events; the welcome starts another one,
and the router's properties speak of clients that have seen the welcome of their connection.

Compositions: the queue with the outbox (an explicit retry of a delivery that a stop cancelled
keeps its old event sequence and is refused by the fence again), and the engine with
`CommandAdmission` (the engine takes admitted commands in any order, which includes the
queue's).

Whole parts: the push bus and the other routes of `wsServer.ts`, checkpointing and rewind,
workflow services, storage maintenance, scheduled tasks, terminals, Git and forges, provider
protocols, settings, profiles, authentication, backup, agent tools, the desktop shell and the
UI. Most of it is I/O against external programs, SQL text or rendering; checkpointing,
storage maintenance and scheduled tasks have state of their own worth modelling next.

## Plan

1. Composition of `NextTurnQueue` and `ProviderTurnDelivery` over `TurnDeliveryContract`.
2. An abstract command log (each command decided once, answered from its verdict) and the
   engine's refinement of it.
3. The storage maintenance lock, the push bus, claims and fences of scheduled runs.
