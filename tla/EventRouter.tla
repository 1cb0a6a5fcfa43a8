----------------------------- MODULE EventRouter -----------------------------
(***************************************************************************)
(* The web client's copy of the server's state: createOrchestrationEvent-  *)
(* Router applies the pushed events in order and replaces the copy by a    *)
(* snapshot whenever it may have missed one; syncController wires it to    *)
(* the welcome message, the store and the periodic reconciliation.         *)
(*                                                                         *)
(* JavaScript runs one callback at a time and then every microtask, so a   *)
(* step is one callback with its microtasks, recovery included: operators  *)
(* take the client's whole state to the state after a call and are         *)
(* composed as the code composes the calls.  The awaits are the states of  *)
(* `sync`.  Events are their sequence numbers; the socket is a FIFO of     *)
(* pushes that a disconnection empties, the answer to the snapshot request *)
(* may overtake pushes and be overtaken.  The server joins a client to the *)
(* broadcast with its welcome (one step here).  Left out: provisional      *)
(* snapshots, the byte limit of the buffer, thread details, disposal.      *)
(***************************************************************************)
EXTENDS Integers, Sequences, SequencesExt, FiniteSets, FiniteSetsExt

CONSTANTS
  MaxEvents,    \* bound: events the server ever has
  MaxBuffer,    \* 2000: events kept while a snapshot is read
  MaxPending,   \* 256: a batch that is applied at once
  MaxPoison,    \* 3: failing batches within a minute that open the breaker
  Throws,       \* events whose reducer throws: the store is left as it was
  ThrowsLate,   \* events whose side effects throw after the store took the batch
  MaxFaults,    \* bound: lost connections, failed reads and reconciliations
  MaxRestarts   \* bound: restarts of the server

Event == 1 .. MaxEvents

ASSUME RouterAssumption ==
  /\ MaxEvents \in Nat \ {0} /\ MaxBuffer \in Nat /\ MaxPending \in Nat
  /\ 1 < MaxPending /\ MaxPending <= MaxBuffer
  /\ MaxPoison \in Nat \ {0} /\ MaxFaults \in Nat /\ MaxRestarts \in Nat
  /\ Throws \subseteq Event /\ ThrowsLate \subseteq Event

VARIABLES
  client,    \* the variables of the router and of the store it feeds
  knows,     \* store.backendIncarnation, 0 before the first welcome
  wire,      \* pushes on the socket: 0 is the welcome, n the event n
  log,       \* the server has the events 1 .. log
  server,    \* BACKEND_INCARNATION
  wasReset,  \* history: the client has reset its stream
  faults

vars == <<client, knows, wire, log, server, wasReset, faults>>

Welcome  == 0
NoAnswer == -1
\* The store: the events it reflects, lastAppliedSequence, and whether one was reduced twice.
Empty == [shown |-> {}, last |-> 0, twice |-> FALSE]

Store == [shown : SUBSET Event, last : 0 .. MaxEvents, twice : BOOLEAN]

Client ==
  [latest : 0 .. MaxEvents, committed : 0 .. MaxEvents,
   pending : Seq(Event), frame : BOOLEAN, buffered : SUBSET Event, shared : BOOLEAN,
   sync : {"no", "queued", "sent", "finishing"}, answer : NoAnswer .. MaxEvents,
   stale : BOOLEAN, again : BOOLEAN, invalid : BOOLEAN, immediate : BOOLEAN,
   timer : BOOLEAN, recovery : BOOLEAN, poisons : 0 .. MaxPoison,
   breaker : BOOLEAN, up : BOOLEAN, synced : BOOLEAN, store : Store]

TypeOK ==
  /\ client \in Client
  /\ Len(client.pending) < MaxPending /\ Cardinality(client.buffered) <= MaxBuffer
  /\ client.breaker <=> client.poisons = MaxPoison
  /\ ~client.recovery
  /\ knows \in 0 .. server /\ server \in 1 .. MaxRestarts + 1
  /\ wire \in Seq(0 .. MaxEvents) /\ log \in 0 .. MaxEvents
  /\ wasReset \in BOOLEAN /\ faults \in 0 .. MaxFaults

Init ==
  /\ client = [latest |-> 0, committed |-> 0, pending |-> <<>>, frame |-> FALSE,
               buffered |-> {}, shared |-> FALSE,
               sync |-> "no", answer |-> NoAnswer, stale |-> FALSE, again |-> FALSE,
               invalid |-> FALSE, immediate |-> FALSE, timer |-> FALSE, recovery |-> FALSE,
               poisons |-> 0, breaker |-> FALSE, up |-> FALSE, synced |-> FALSE, store |-> Empty]
  /\ knows = 0 /\ wire = <<>> /\ server = 1 /\ faults = 0 /\ wasReset = FALSE
  /\ log \in 0 .. 1

------------------------------------------------------------------------------
(* The store.                                                                  *)

\* applyDomainEvent of every event of E: nothing is skipped.
Reduced(store, E) ==
  [shown |-> store.shown \cup E, last |-> Max(E \cup {store.last}),
   twice |-> store.twice \/ E \cap store.shown # {}]

\* applyDomainEventBatch: events up to the cursor it starts from are skipped; of the others,
\* one that is twice in the batch is applied twice.
Repeats(batch, cursor) ==
  \E i, j \in DOMAIN batch : i < j /\ batch[i] = batch[j] /\ batch[i] > cursor

ReducedBatch(store, batch) ==
  LET done == Reduced(store, {e \in ToSet(batch) : e > store.last})
  IN  [done EXCEPT !.twice = @ \/ Repeats(batch, store.last)]

\* syncStartupSnapshot: a snapshot older than the cursor is ignored.
Hydrated(store, sequence) ==
  IF sequence < store.last THEN store
  ELSE [shown |-> 1 .. sequence, last |-> sequence, twice |-> FALSE]

------------------------------------------------------------------------------
(* The router, inside one callback.                                            *)

\* Mutant: the failing batch is dropped, and that is all.
JustDropped(c) == [c EXCEPT !.poisons = Min({@ + 1, MaxPoison})]

\* poison: the failing batch is dropped, and nothing short of a new snapshot will do.
Poisoned(c) ==
  LET open == c.poisons + 1 >= MaxPoison IN
  [c EXCEPT !.latest = c.committed, !.immediate = TRUE, !.invalid = TRUE, !.stale = TRUE,
            !.buffered = {}, !.shared = FALSE, !.again = TRUE, !.synced = FALSE,
            !.poisons = @ + 1, !.breaker = open,
            !.timer = @ /\ ~open, !.recovery = @ \/ ~open]

\* applyPendingBatch.
Flushed(c) ==
  IF c.breaker \/ c.pending = <<>> THEN [c EXCEPT !.frame = FALSE]
  ELSE LET batch == ToSet(c.pending)
           taken == [c EXCEPT !.pending = <<>>, !.frame = FALSE, !.shared = FALSE]
           done  == [taken EXCEPT !.store = ReducedBatch(@, c.pending)]
       IN  CASE batch \cap Throws # {} -> Poisoned(taken)
             [] batch \cap Throws = {} /\ batch \cap ThrowsLate # {} -> Poisoned(done)
             [] OTHER -> [done EXCEPT !.committed = Max({@, Last(c.pending)})]

\* Mutant: a full buffer drops the event and goes on.
DropsOnOverflow(c, e) ==
  IF e <= c.latest \/ c.invalid \/ Cardinality(c.buffered) >= MaxBuffer THEN c
  ELSE [c EXCEPT !.buffered = @ \cup {e}, !.pending = IF c.shared THEN Append(@, e) ELSE @]

\* Mutant: the buffer has no limit.
NeverFull(c, e) ==
  IF e <= c.latest \/ c.invalid THEN c
  ELSE [c EXCEPT !.buffered = @ \cup {e}, !.pending = IF c.shared THEN Append(@, e) ELSE @]

\* bufferEvent.
Buffered(c, e) ==
  CASE e <= c.latest \/ c.invalid -> c
    [] e > c.latest /\ ~c.invalid /\ Cardinality(c.buffered) >= MaxBuffer ->
         [c EXCEPT !.invalid = TRUE, !.stale = TRUE, !.buffered = {}, !.shared = FALSE,
                   !.again = TRUE, !.synced = FALSE]
    [] OTHER -> [c EXCEPT !.buffered = @ \cup {e},
                          !.pending = IF c.shared THEN Append(@, e) ELSE @]

\* The run of buffered events that continues the stream, up to its first bad one.
DrainRun(c) ==
  {e \in c.buffered : e > c.latest /\ \A d \in c.latest + 1 .. e - 1 :
                                        d \in c.buffered \ (Throws \cup ThrowsLate)}

\* drainBufferedEvents, and whether it reached the end of the buffer.
Drained(c) ==
  LET run  == DrainRun(c)
      bad  == run \cap (Throws \cup ThrowsLate)
      good == run \ bad
      head == IF good = {} THEN c.latest ELSE Max(good)
      done == [c EXCEPT !.buffered = {}, !.shared = FALSE, !.latest = head,
                        !.committed = IF good = {} THEN @ ELSE head,
                        !.store = Reduced(@, good)]
      rest == {e \in c.buffered : e > head}
  IN  CASE bad # {} -> Poisoned([done EXCEPT !.store = Reduced(@, bad \ Throws)])
        [] OTHER -> [done EXCEPT !.buffered = rest]

DrainComplete(c) ==
  /\ DrainRun(c) = {e \in c.buffered : e > c.latest}
  /\ DrainRun(c) \cap (Throws \cup ThrowsLate) = {}

\* syncSnapshot up to its first await; a request made offline waits for the socket.
Synchronizing(c) ==
  IF c.breaker THEN c
  ELSE IF c.sync # "no" THEN [c EXCEPT !.again = TRUE]
  ELSE LET f == Flushed(c) IN
       IF f.breaker THEN f
       ELSE [f EXCEPT !.recovery = FALSE, !.sync = IF f.up THEN "sent" ELSE "queued",
                      !.answer = NoAnswer, !.stale = FALSE, !.invalid = FALSE,
                      !.immediate = FALSE, !.again = FALSE, !.synced = FALSE]

\* The microtask of enterRecovery.
Recovering(c) == IF c.recovery THEN Synchronizing([c EXCEPT !.recovery = FALSE]) ELSE c

\* Mutant: what was asked for while a snapshot was read is forgotten.
NotAgain(c) == FALSE

\* A second synchronization was asked for meanwhile, and no retry is coming.
Again(c) == c.again /\ ~c.breaker /\ ~c.timer

\* The finally of syncSnapshot.
SyncEnded(c) ==
  LET ended == [c EXCEPT !.sync = "no", !.answer = NoAnswer, !.recovery = FALSE]
  IN  IF Again(ended) THEN Synchronizing([ended EXCEPT !.again = FALSE]) ELSE ended

\* Its catch.
SyncFailed(c) == SyncEnded([c EXCEPT !.timer = ~c.breaker /\ ~(c.invalid /\ c.immediate)])

\* The buffer ended in a gap, or in an event that failed.
DrainFailed(c) == SyncEnded([c EXCEPT !.again = TRUE, !.timer = @ \/ (~c.invalid /\ ~c.breaker)])

\* invalidateSnapshot.
Invalidated(c) ==
  [c EXCEPT !.stale = TRUE, !.invalid = TRUE, !.immediate = TRUE, !.again = TRUE, !.timer = FALSE]

\* resetStream, which leaves pendingEvents and bufferedEvents the same array, and
\* resetBackendState.
ResetStream(c) ==
  [Invalidated(c) EXCEPT !.latest = 0, !.committed = 0, !.pending = <<>>, !.frame = FALSE,
                         !.buffered = {}, !.shared = TRUE, !.store = Empty]

\* enqueueInOrderEvent.
Enqueued(c, e) ==
  LET q == [c EXCEPT !.pending = Append(@, e), !.frame = TRUE, !.latest = e,
                     !.buffered = IF c.shared THEN @ \cup {e} ELSE @]
  IN  IF Len(q.pending) >= MaxPending THEN Flushed(q) ELSE q

\* receive.
Received(c, e) ==
  CASE c.breaker \/ e <= c.latest -> c
    [] ~c.breaker /\ e > c.latest /\ (c.sync # "no" \/ c.invalid) -> Buffered(Flushed(c), e)
    [] ~c.breaker /\ c.sync = "no" /\ ~c.invalid /\ e > c.latest + 1 ->
         Synchronizing([Buffered(Flushed(c), e) EXCEPT !.timer = FALSE])
    [] OTHER -> Enqueued(c, e)

------------------------------------------------------------------------------
(* The callbacks.                                                              *)

Faulty == faults < MaxFaults /\ faults' = faults + 1

\* onServerWelcome.
Greeted(c) ==
  LET invalidated == [Invalidated(c) EXCEPT !.synced = FALSE]
  IN  Synchronizing(IF knows \in {0, server} THEN invalidated ELSE ResetStream(invalidated))

\* handleMessage of a push.
Receive ==
  /\ wire # <<>> /\ client.up
  /\ wire' = Tail(wire)
  /\ IF Head(wire) = Welcome
     THEN /\ client' = Recovering(Greeted(client)) /\ knows' = server
          /\ wasReset' = (wasReset \/ knows \notin {0, server})
     ELSE client' = Recovering(Received(client, Head(wire))) /\ UNCHANGED <<knows, wasReset>>
  /\ UNCHANGED <<log, server, faults>>

\* The animation frame, the 100 ms timer, or the tab comes to the front.
FlushPending ==
  /\ client.pending # <<>> /\ ~client.breaker
  /\ client' = Recovering(Flushed(client))
  /\ UNCHANGED <<knows, wire, log, server, wasReset, faults>>

\* The server reads its projections.
ServerReads ==
  /\ client.sync = "sent" /\ client.answer = NoAnswer /\ client.up
  /\ client' = [client EXCEPT !.answer = log]
  /\ UNCHANGED <<knows, wire, log, server, wasReset, faults>>

\* flushSnapshotSync after readSnapshot.
MergeSnapshot ==
  LET merged == [client EXCEPT !.latest = Max({@, client.answer}),
                               !.committed = Max({@, client.answer}),
                               !.store = Hydrated(@, client.answer)]
      drained == Drained(merged)
  IN
  /\ client.sync = "sent" /\ client.answer # NoAnswer
  /\ client' = Recovering(
       CASE client.breaker -> SyncEnded(client)
         [] ~client.breaker /\ client.stale -> SyncFailed(client)
         [] OTHER -> IF DrainComplete(merged) THEN [drained EXCEPT !.sync = "finishing", !.answer = NoAnswer]
                     ELSE DrainFailed(drained))
  /\ UNCHANGED <<knows, wire, log, server, wasReset, faults>>

\* ... and after finish; onSynchronized counts only on an open socket.
FinishSync ==
  /\ client.sync = "finishing"
  /\ client' = Recovering(
       CASE client.breaker -> SyncEnded(client)
         [] ~client.breaker /\ client.stale -> SyncFailed(client)
         [] OTHER -> IF DrainComplete(client)
                     THEN SyncEnded([Drained(client) EXCEPT !.timer = FALSE, !.synced = client.up])
                     ELSE DrainFailed(Drained(client)))
  /\ UNCHANGED <<knows, wire, log, server, wasReset, faults>>

\* The request, or what finish awaits, fails.
SyncFails ==
  /\ Faulty /\ client.sync # "no"
  /\ client' = Recovering(IF client.breaker THEN SyncEnded(client) ELSE SyncFailed(client))
  /\ UNCHANGED <<knows, wire, log, server, wasReset>>

RetryTimer ==
  /\ client.timer
  /\ client' = Recovering(Synchronizing([client EXCEPT !.timer = FALSE]))
  /\ UNCHANGED <<knows, wire, log, server, wasReset, faults>>

\* A minute has passed since the failing batches.
PoisonAges ==
  /\ client.poisons > 0 /\ ~client.breaker
  /\ client' = [client EXCEPT !.poisons = 0]
  /\ UNCHANGED <<knows, wire, log, server, wasReset, faults>>

\* startSequenceReconciliation: the probe finds another server, or that the stream is
\* behind, or it is time for a full snapshot.
Reconcile ==
  /\ Faulty /\ client.up
  /\ IF server # knows
     THEN /\ client' = Recovering(Synchronizing(ResetStream(client)))
          /\ knows' = server /\ wasReset' = TRUE
     ELSE /\ LET f == Flushed(client) IN
             client' = Recovering(IF f.sync = "no" /\ ~f.timer THEN Synchronizing(f) ELSE f)
          /\ UNCHANGED <<knows, wasReset>>
  /\ UNCHANGED <<wire, log, server>>

\* open: what waits offline is sent, before the welcome arrives.
Connect ==
  /\ ~client.up
  /\ client' = [client EXCEPT !.up = TRUE, !.synced = FALSE,
                              !.sync = IF @ = "queued" THEN "sent" ELSE @]
  /\ wire' = <<Welcome>>
  /\ UNCHANGED <<knows, log, server, wasReset, faults>>

\* close: every request fails, and what was pushed is gone.
Closed(c) ==
  LET down == [c EXCEPT !.up = FALSE, !.synced = FALSE]
  IN  IF c.sync # "sent" THEN down
      ELSE IF c.breaker THEN SyncEnded(down) ELSE SyncFailed(down)

Disconnect ==
  /\ Faulty /\ client.up
  /\ client' = Recovering(Closed(client)) /\ wire' = <<>>
  /\ UNCHANGED <<knows, log, server, wasReset>>

\* A new server process, on the same database or on a restored one.
ServerRestarts ==
  /\ server <= MaxRestarts
  /\ server' = server + 1 /\ log' \in {log, log - 1} \cap Nat
  /\ client' = Recovering(Closed(client)) /\ wire' = <<>>
  /\ UNCHANGED <<knows, wasReset, faults>>

\* The engine publishes an event it has committed.
Publish ==
  /\ log < MaxEvents
  /\ log' = log + 1
  /\ wire' = IF client.up THEN Append(wire, log + 1) ELSE wire
  /\ UNCHANGED <<client, knows, server, wasReset, faults>>

Next ==
  \/ Receive \/ FlushPending \/ ServerReads \/ MergeSnapshot \/ FinishSync \/ SyncFails
  \/ RetryTimer \/ PoisonAges \/ Reconcile \/ Connect \/ Disconnect \/ ServerRestarts \/ Publish

\* What is due in the client and at the server goes on: callbacks run, the server answers,
\* and the client reconnects.  Nothing is assumed of the reconciliation.
Due ==
  \/ Receive \/ (client.frame /\ FlushPending)
  \/ ServerReads \/ MergeSnapshot \/ FinishSync \/ RetryTimer \/ Connect

Spec == Init /\ [][Next]_vars /\ WF_vars(Due)

------------------------------------------------------------------------------
(* Properties.                                                                 *)

HasGreeted == client.up /\ ~\E k \in DOMAIN wire : wire[k] = Welcome

\* The client counts as synchronized, on a connection whose welcome it has seen.
Settled == client.synced /\ HasGreeted

\* "The fresh snapshot replaces its backend fields": a synchronized client shows exactly
\* the events up to its committed cursor, each of them once.
ShowsPrefix ==
  Settled => /\ client.store.shown = 1 .. client.committed
             /\ ~client.store.twice

\* Until the client meets another server process and resets its stream, the store is right
\* whenever the client counts as synchronized, through gaps, overflows, failing batches,
\* failed reads and lost connections.
ShowsPrefixOfOneServer == ~wasReset => ShowsPrefix

\* A synchronized client that has seen the welcome of its connection has missed nothing:
\* every event that its cursor has not passed is still on the socket.  (What the store shows
\* of those it has passed is the subject of ShowsPrefixOfOneServer.)
NothingMissed ==
  Settled => client.latest + 1 .. log \subseteq ToSet(wire)

\* A connected client that is not synchronized is about to be: a snapshot is being read or
\* a retry is due, unless the breaker asks for a reload.
NeverStranded ==
  HasGreeted /\ ~client.synced => client.sync # "no" \/ client.timer \/ client.breaker

\* Once events and faults end, the client is synchronized, its cursor is at the end of the
\* log and its store shows every event, or it asks the user to reload; without any help of
\* the reconciliation.  A client that changed servers may lack events (ShowsPrefix): of it
\* the formula says only where its cursor is.
CatchesUp ==
  <>[](\/ client.breaker
       \/ /\ client.synced /\ client.committed = log
          /\ wasReset \/ client.store.shown = 1 .. log)
==============================================================================
