------------------------- MODULE NextTurnQueueProofs -------------------------
(***************************************************************************)
(* Proofs about NextTurnQueue: TypeOK, SentOnce, LedgerTells, PauseLetsOne-*)
(* Go and SendOutlivesInterrupt hold for any finite set of items and       *)
(* any bounds.  The inductive invariant IInv says which commands of an     *)
(* item may have a delivery (Deliveries, Commands), what the worker may    *)
(* still assume of the row it claimed (Claimed), that messages under way   *)
(* speak of admitted commands (Messages), what the ledger may say (Books)  *)
(* and what a pause means (Pauses).                                        *)
(***************************************************************************)
EXTENDS NextTurnQueue, FiniteSetTheorems, TLAPS

Kept(i) == row[i].state \in {"live", "deleted"}

\* A command is handed over once; it has a receipt once it has a delivery, and the other way
\* round once it was accepted; only a steer is overruled; two commands of an item have
\* deliveries only if one was overruled.
Deliveries ==
  /\ \A c \in Command :
       /\ handed[c] = IF delivery[c].state \in {"accepted", "ambiguous"} THEN 1
                      ELSE IF delivery[c].state = "abandoned" THEN handed[c] ELSE 0
       /\ handed[c] <= 1
       /\ receipts[c] = "accepted" => delivery[c].state # "none"
       /\ delivery[c].state # "none" => receipts[c] # "none"
  /\ \A c, d \in Command :
       c[1] = d[1] /\ delivery[c].state # "none" /\ delivery[d].state # "none"
         /\ receipts[c] # "rejected" /\ receipts[d] # "rejected" => c = d

\* Only the command a row carries can be new to the engine, earlier ones were overruled, and
\* an admitted one has used an attempt.
Commands ==
  \A i \in Item :
    /\ Kept(i) => row[i].command >= 1
    /\ Kept(i) /\ receipts[CommandOf(i)] = "accepted" => row[i].attempt > 0
    /\ \A c \in AdmittedAs(i) :
         /\ row[i].state # "gone" => Kept(i) /\ c[2] <= row[i].command
         /\ Kept(i) /\ c # CommandOf(i) => receipts[c] = "rejected"

Claiming == {"claimed", "checked", "sending"}
Holds(i) == row[i].status = "dispatching" /\ row[i].owner = "worker"

\* What the worker read of a row still holds: nobody takes a claimed row whose command was not
\* admitted, and only the claim itself counts attempts.
Claimed ==
  /\ worker.pc \notin {"idle", "lift", "hold", "pick"} => worker.item \in Item /\ Seen \in Command
  /\ worker.pc \in Claiming => worker.item \in active
  /\ worker.pc \in Claiming \cup {"sent"} =>
       /\ worker.seen.attempt > 0
       /\ \/ row[worker.item].state = "gone"
          \/ Kept(worker.item) /\ row[worker.item].command >= worker.seen.command
       /\ row[worker.item].command = worker.seen.command => row[worker.item].attempt = worker.seen.attempt
       /\ Holds(worker.item) => row[worker.item].command = worker.seen.command
  /\ worker.pc \in Claiming /\ delivery[Seen].state = "none" =>
       Carries(worker.item, Seen) /\ Holds(worker.item)
  /\ (worker.pc \in Claiming \/ (worker.pc = "sent" /\ worker.found = "retry"))
       /\ receipts[Seen] = "accepted" => worker.seen.attempt > 1
  /\ worker.pc = "sent" =>
       /\ worker.found \in {"ok", "retry", "failed", "error", "steerRefused"}
       /\ worker.found = "ok" => delivery[Seen].state # "none"
  /\ worker.pc = "recover" =>
       /\ delivery[Seen].state # "none"
       /\ worker.found = "accepted" => delivery[Seen].state = "accepted"

\* Outcomes, and requests between their transactions, speak of admitted commands.
Messages ==
  /\ \A n \in 1 .. Len(outcomes) :
       /\ delivery[outcomes[n].of].state # "none"
       /\ outcomes[n].state = "accepted" => delivery[outcomes[n].of].state = "accepted"
  /\ handler.pc # "idle" =>
       outcomes # <<>> /\ handler.of \in Command /\ delivery[handler.of].state # "none"
  /\ route.pc \in {"retried", "discarded"} => route.of \in Command
  /\ route.pc = "retried" => delivery[route.of].state # "none"
  /\ route.pc = "discarded" => delivery[route.of].state = "abandoned"

\* A command that the item does not carry any more was overruled.
Relinquished(i) == \E c \in AdmittedAs(i) : c # CommandOf(i) /\ receipts[c] = "rejected"

Books ==
  \A i \in Item :
    /\ ledger[i] \in {"canceled", "cleared"} =>
         \/ Relinquished(i)
         \/ Kept(i) /\ delivery[CommandOf(i)].state = "abandoned"
         \/ row[i].state = "deleted" /\ receipts[CommandOf(i)] # "accepted"
    /\ ledger[i] = "started" => AdmittedAs(i) # {}

\* A pause has let go at most the command that the worker, past its last look at the pause, had
\* in hand when it came; the worker gets there only while nothing pauses the queue.
Pauses ==
  /\ paused = "none" => slipped = 0 /\ ~inHand
  /\ paused # "none" /\ worker.pc = "checked" => slipped = 0 /\ inHand
  /\ slipped <= IF inHand THEN 1 ELSE 0
  /\ paused = "interrupted" => heldBy > lastSend

IInv == TypeOK /\ Deliveries /\ Commands /\ Claimed /\ Messages /\ Books /\ Pauses

------------------------------------------------------------------------------
(* Every step writes the rows, or the outbox, or both, or neither.             *)

Submits(i)  == \E intent \in IntentsOf[i] : Submit(i, intent)
Delivers(c) == \E result \in Terminal : Deliver(c, result)

Writes ==
  \/ \E i \in Item : \/ Submits(i) \/ Edit(i) \/ SoftDelete(i) \/ Restore(i) \/ SetSteer(i)
                     \/ (\E promote \in BOOLEAN : Reorder(i, promote))
                     \/ Reclaim(i) \/ AnswerQueued(i)
  \/ Clear \/ Look \/ Recover \/ Claim \/ Recheck \/ SettleDispatch \/ HandleOutcome
  \/ HandlerRejects \/ HandlerReconciles \/ RouteSettlesRow

Sends ==
  \/ EngineAccepts \/ EngineFails
  \/ \E c \in Command : Delivers(c) \/ RecheckDelivery(c) \/ RetryDelivery(c) \/ DiscardDelivery(c)
  \/ Acknowledge \/ TurnStarts \/ TurnEnds

Retires == RetireContinuation \/ \E c \in Command, claimed \in BOOLEAN : RetireScheduled(c, claimed)

Rest ==
  \/ (\E reason \in {"manual", "none"} : PauseRequest(reason)) \/ Interrupt \/ ReactToInterrupt
  \/ WorkerLifts \/ Pick \/ HoldForDelivery \/ GateWaits \/ GatePauses \/ AutoPause \/ GateOpens
  \/ HandOver \/ HandlerPauses \/ EngineReplays \/ EngineDeclines
  \/ (\E c \in Command : Replay(c)) \/ RouteSettlesPause \/ CrashAndRestart

\* Every action is of one of the four kinds.
LEMMA Kinds == Next => Writes \/ Sends \/ Retires \/ Rest
<1> DEFINE kinds == Writes \/ Sends \/ Retires \/ Rest
<1>1. UserStep => kinds  BY DEF UserStep, Submits, Writes, Sends, Rest
<1>2. WorkerStep => kinds  BY DEF WorkerStep, Writes, Sends, Rest
<1>3. HandlerStep \/ RouteStep => kinds
  BY DEF HandlerStep, RouteStep, Writes, Sends, Retires, Rest
<1>4. (\E c \in Command : Outcome(c)) => kinds  BY DEF Outcome, Delivers, Sends, Retires
<1>5. QED  BY <1>1, <1>2, <1>3, <1>4 DEF Next, Writes, Sends, Rest

\* What writes the rows leaves the outbox alone,
LEMMA WritesQuiet == Writes => UNCHANGED outbox
<1>1. ASSUME NEW i \in Item,
             \/ Submits(i) \/ Edit(i) \/ SoftDelete(i) \/ Restore(i) \/ SetSteer(i)
             \/ (\E promote \in BOOLEAN : Reorder(i, promote)) \/ Reclaim(i) \/ AnswerQueued(i)
      PROVE  UNCHANGED outbox
  BY <1>1 DEF Submits, Submit, Edit, SoftDelete, Restore, SetSteer, Reorder, Reclaim, AnswerQueued, Changes
<1>2. Clear \/ Look \/ Recover \/ Claim \/ Recheck \/ SettleDispatch => UNCHANGED outbox
  BY DEF Clear, Look, Recover, Claim, Recheck, SettleDispatch, Changes, WorkerOnly
<1>3. HandleOutcome \/ HandlerRejects \/ HandlerReconciles \/ RouteSettlesRow => UNCHANGED outbox
  BY DEF HandleOutcome, HandlerRejects, HandlerReconciles, RouteSettlesRow, RouteOnly
<1>4. QED  BY <1>1, <1>2, <1>3 DEF Writes

\* what writes the outbox leaves the rows alone,
LEMMA SendsQuiet == Sends => UNCHANGED store
<1>1. ASSUME NEW c \in Command, Delivers(c) \/ RecheckDelivery(c) \/ RetryDelivery(c) \/ DiscardDelivery(c)
      PROVE  UNCHANGED store
  BY <1>1 DEF Delivers, Deliver, RecheckDelivery, RetryDelivery, DiscardDelivery, Environment
<1>2. (\E outcome \in {"ok", "error"} : EngineCommits(outcome)) \/ EngineFails => UNCHANGED store
  BY DEF EngineCommits, EngineFails, Answers
<1>3. Acknowledge \/ TurnStarts \/ TurnEnds => UNCHANGED store
  BY DEF Acknowledge, TurnStarts, TurnEnds, Environment
<1>4. QED  BY <1>1, <1>2, <1>3 DEF Sends, EngineAccepts

\* and the rest leaves both alone; what retires a delivery writes both.
LEMMA RestQuiet == Rest => UNCHANGED <<store, outbox>>
<1>1. ASSUME NEW c \in Command, Replay(c)
      PROVE  UNCHANGED <<store, outbox>>
  BY <1>1 DEF Replay, Environment
<1>2. ASSUME NEW reason \in {"manual", "none"}, PauseRequest(reason)
      PROVE  UNCHANGED <<store, outbox>>
  BY <1>2 DEF PauseRequest, Changes
<1>3. Interrupt \/ ReactToInterrupt \/ EngineReplays \/ EngineDeclines \/ RouteSettlesPause \/ CrashAndRestart
        => UNCHANGED <<store, outbox>>
  BY DEF Interrupt, ReactToInterrupt, EngineReplays, EngineDeclines, RouteSettlesPause,
         CrashAndRestart, Answers, RouteOnly
<1>4. WorkerLifts \/ Pick \/ HoldForDelivery \/ GateWaits \/ GatePauses \/ AutoPause \/ GateOpens
        => UNCHANGED <<store, outbox>>
  BY DEF WorkerLifts, Pick, HoldForDelivery, GateWaits, GatePauses, AutoPause, GateOpens, WorkerOnly
<1>5. HandOver \/ HandlerPauses => UNCHANGED <<store, outbox>>
  BY DEF HandOver, HandlerPauses, WorkerOnly
<1>6. QED  BY <1>1, <1>2, <1>3, <1>4, <1>5 DEF Rest

------------------------------------------------------------------------------
(* Commands of items.                                                           *)

\* A command is an item and a number.
LEMMA CommandPairs ==
  ASSUME NEW c \in Command
  PROVE  c[1] \in Item /\ c[2] \in 1 .. MaxCommands /\ c = <<c[1], c[2]>>
BY DEF Command

\* The command a kept row carries is a command of its item.
LEMMA KeptCommand ==
  ASSUME TypeOK, Commands, NEW i \in Item, Kept(i)
  PROVE  CommandOf(i) \in Command /\ CommandOf(i)[1] = i /\ CommandOf(i)[2] = row[i].command
<1>1. row[i].command \in 0 .. MaxCommands /\ row[i].command >= 1  BY DEF TypeOK, Row, Commands
<1>2. row[i].command \in 1 .. MaxCommands  BY <1>1, BoundAssumption
<1>3. QED  BY <1>2 DEF CommandOf, Command

\* A row in the queue is kept.
LEMMA LiveKept == ASSUME NEW i \in Item, IsLive(i) PROVE Kept(i)
BY DEF IsLive, Kept

\* An item that may be edited or deleted was not admitted under its command.
LEMMA NotAdmitted ==
  ASSUME TypeOK, Commands, NEW i \in Item, Kept(i), ~Protected(i)
  PROVE  receipts[CommandOf(i)] # "accepted"
BY DEF Commands, Protected

------------------------------------------------------------------------------
(* What a step may do to an item: keep it, submit, edit, delete, restore, close *)
(* or discard it, retire it with its delivery, claim it, or give its claim back. *)

Accounts(i) ==
  \/ ledger'[i] \in {ledger[i], "pending", "queued"}
  \/ ledger'[i] = "started" /\ AdmittedAs(i) # {}
  \/ ledger'[i] = "canceled" /\ Kept(i) /\ delivery[CommandOf(i)].state = "abandoned"

Same(i) == /\ row'[i].command = row[i].command /\ row'[i].attempt = row[i].attempt
           /\ Holds(i)' => Holds(i)

Stays(i)     == row'[i].state = row[i].state /\ Same(i) /\ Accounts(i)
Enters(i)    == /\ row[i].state = "none" /\ row'[i].state = "live" /\ row'[i].command = 1
                /\ ~Holds(i)' /\ ledger'[i] = "pending"
Changed(i)   == /\ IsLive(i) /\ ~Protected(i) /\ row'[i].state = "live"
                /\ row'[i].command = row[i].command + 1 /\ ~Holds(i)' /\ ledger'[i] = ledger[i]
Deleted(i)   == IsLive(i) /\ ~Protected(i) /\ row'[i].state = "deleted" /\ Same(i) /\ ledger'[i] # "started"
Restored(i)  == /\ row[i].state = "deleted" /\ row'[i].state = "live" /\ Same(i) /\ ledger'[i] = "queued"
Completed(i) == /\ IsLive(i) /\ delivery[CommandOf(i)].state = "accepted"
                /\ row'[i].state = "gone" /\ row'[i].command = 0 /\ ~Holds(i)' /\ Accounts(i)
Discarded(i) == /\ IsLive(i) /\ delivery[CommandOf(i)].state = "abandoned"
                /\ row'[i].state = "deleted" /\ Same(i) /\ Accounts(i)
Retired(i)   == /\ Kept(i) /\ delivery[CommandOf(i)].state # "none"
                /\ delivery'[CommandOf(i)].state = "abandoned"
                /\ row'[i].state = "deleted" /\ Same(i) /\ ledger'[i] \in {ledger[i], "canceled"}
Taken(i)     == /\ worker.pc = "claim" /\ worker.item = i /\ worker'.pc = "claimed" /\ worker'.item = i
                /\ IsLive(i) /\ row'[i] = worker'.seen /\ row'[i].state = "live" /\ Holds(i)'
                /\ row'[i].command = row[i].command /\ row'[i].attempt = row[i].attempt + 1
                /\ ledger'[i] = ledger[i]
GivenBack(i) == /\ worker.pc = "claimed" \/ (worker.pc = "sent" /\ worker.found = "retry")
                /\ worker.item = i /\ worker' = Idle /\ Holds(i) /\ ~Holds(i)'
                /\ row'[i].state = row[i].state /\ row'[i].command = row[i].command
                /\ row'[i].attempt = row[i].attempt - 1 /\ ledger'[i] = ledger[i]

\* Nobody touches a claimed row whose command is new to the engine.
Undisturbed(i) ==
  worker.pc \in Claiming /\ worker'.pc \in Claiming /\ worker.item = i /\ delivery[Seen].state = "none"
    => row'[i] = row[i]

ItemStep(i) ==
  /\ Undisturbed(i)
  /\ \/ Stays(i) \/ Enters(i) \/ Changed(i) \/ Deleted(i) \/ Restored(i) \/ Completed(i)
     \/ Discarded(i) \/ Retired(i) \/ Taken(i) \/ GivenBack(i)

\* An item whose row and account do not change.
LEMMA QuietItem ==
  ASSUME NEW i \in Item, row'[i] = row[i], ledger'[i] = ledger[i]
  PROVE  ItemStep(i)
BY DEF ItemStep, Undisturbed, Stays, Same, Accounts, Holds

\* The row of a claim whose command is new to the engine.
LEMMA NewClaim ==
  ASSUME TypeOK, Claimed, NEW i \in Item, worker.pc \in Claiming, worker.item = i,
         delivery[Seen].state = "none"
  PROVE  IsLive(i) /\ CommandOf(i) = Seen /\ row[i].status = "dispatching" /\ i \in active
BY DEF Claimed, Carries, Holds

\* What requests of the user, a reclaimed lease and an answer do to any item.
LEMMA UserItems ==
  ASSUME TypeOK, Commands, Claimed, NEW i \in Item, NEW j \in Item,
         \/ Submits(j) \/ Edit(j) \/ SoftDelete(j) \/ Restore(j) \/ SetSteer(j)
         \/ (\E promote \in BOOLEAN : Reorder(j, promote)) \/ Reclaim(j) \/ AnswerQueued(j)
  PROVE  ItemStep(i)
<1> USE DEF ItemStep
<1>t. row \in [Item -> Row] /\ ledger \in [Item -> {"none", "pending", "queued", "started", "canceled", "cleared"}]
  BY DEF TypeOK
<1>a. row[i] \in Row /\ row[j] \in Row  BY <1>t
<1>n. worker.pc \in Claiming /\ worker.item = i /\ delivery[Seen].state = "none"
        => IsLive(i) /\ row[i].status = "dispatching" /\ i \in active
  BY NewClaim
<1>1. CASE Submits(j)
  <2>1. i # j => row'[i] = row[i] /\ ledger'[i] = ledger[i]  BY <1>1, <1>t DEF Submits, Submit
  <2>2. i = j => Enters(i)
    <3>1. PICK intent : Submit(j, intent)  BY <1>1 DEF Submits
    <3>2. ledger'[j] = "pending" /\ row[j].state = "none"  BY <1>t, <3>1 DEF Submit
    <3>3. row'[j] = [NoRow EXCEPT !.state = "live", !.command = 1, !.steer = (intent = "steer"),
                       !.source = IF intent \in {"continuation", "scheduled"} THEN intent ELSE "user"]
      BY <1>t, <3>1 DEF Submit
    <3>4. row'[j].state = "live" /\ row'[j].command = 1 /\ row'[j].status = "queued"
      BY <3>3 DEF NoRow
    <3>5. QED  BY <3>2, <3>4 DEF Enters, Holds
  <2>3. i = j => Undisturbed(i)  BY <1>1, <1>n DEF Submits, Submit, Undisturbed, IsLive
  <2>4. QED  BY <2>1, <2>2, <2>3, QuietItem
<1>2. CASE Edit(j)
  <2>1. i # j => row'[i] = row[i] /\ ledger'[i] = ledger[i]  BY <1>2, <1>t DEF Edit
  <2>2. i = j => Changed(i)
    BY <1>2, <1>t, <1>a DEF Edit, Changed, Row, Holds, Requeued, IsLive
  <2>3. i = j => Undisturbed(i)  BY <1>2, <1>n DEF Edit, Undisturbed
  <2>4. QED  BY <2>1, <2>2, <2>3, QuietItem
<1>3. CASE SoftDelete(j)
  <2>1. i # j => row'[i] = row[i] /\ ledger'[i] = ledger[i]  BY <1>3, <1>t DEF SoftDelete
  <2>2. i = j => Deleted(i)
    BY <1>3, <1>t, <1>a DEF SoftDelete, Deleted, Row, Holds, Same, IsLive
  <2>3. i = j => Undisturbed(i)  BY <1>3, <1>n DEF SoftDelete, Undisturbed
  <2>4. QED  BY <2>1, <2>2, <2>3, QuietItem
<1>4. CASE Restore(j)
  <2>1. i # j => row'[i] = row[i] /\ ledger'[i] = ledger[i]  BY <1>4, <1>t DEF Restore
  <2>2. i = j => Restored(i)
    BY <1>4, <1>t, <1>a DEF Restore, Restored, Row, Holds, Same
  <2>3. i = j => Undisturbed(i)  BY <1>4, <1>n DEF Restore, Undisturbed, IsLive
  <2>4. QED  BY <2>1, <2>2, <2>3, QuietItem
<1>5. CASE SetSteer(j)
  <2>1. i # j => row'[i] = row[i] /\ ledger'[i] = ledger[i]  BY <1>5, <1>t DEF SetSteer
  <2>2. i = j => Stays(i)
    BY <1>5, <1>t, <1>a DEF SetSteer, Stays, Row, Holds, Same, Accounts
  <2>3. i = j => Undisturbed(i)  BY <1>5, <1>n DEF SetSteer, Undisturbed
  <2>4. QED  BY <2>1, <2>2, <2>3, QuietItem
<1>6. CASE \E promote \in BOOLEAN : Reorder(j, promote)
  BY <1>6, QuietItem DEF Reorder
<1>7. CASE Reclaim(j)
  <2>1. i # j => row'[i] = row[i] /\ ledger'[i] = ledger[i]  BY <1>7, <1>t DEF Reclaim
  <2>2. i = j => Stays(i)
    BY <1>7, <1>t, <1>a DEF Reclaim, Stays, Row, Holds, Same, Accounts, Requeued
  <2>3. i = j => Undisturbed(i)  BY <1>7, <1>n DEF Reclaim, Undisturbed
  <2>4. QED  BY <2>1, <2>2, <2>3, QuietItem
<1>8. CASE AnswerQueued(j)
  <2>1. row'[i] = row[i]  BY <1>8 DEF AnswerQueued
  <2>2. ledger'[i] \in {ledger[i], "queued"}  BY <1>8, <1>t DEF AnswerQueued
  <2>3. QED  BY <2>1, <2>2 DEF Stays, Same, Holds, Accounts, Undisturbed
<1>9. QED  BY <1>1, <1>2, <1>3, <1>4, <1>5, <1>6, <1>7, <1>8

\* Closing completes items whose delivery was accepted and discards abandoned ones.
LEMMA ClosingItems ==
  ASSUME TypeOK, Commands, Claimed, NEW done, NEW dropped, Closing(done, dropped),
         \A j \in done : j \in Item /\ IsLive(j) /\ delivery[CommandOf(j)].state = "accepted",
         \A j \in dropped : j \in Item /\ IsLive(j) /\ delivery[CommandOf(j)].state = "abandoned",
         NEW i \in Item
  PROVE  ItemStep(i)
<1>t. row[i] \in Row /\ ledger[i] \in {"none", "pending", "queued", "started", "canceled", "cleared"}
  BY DEF TypeOK
<1>k. IsLive(i) => Kept(i) /\ CommandOf(i) \in Command /\ CommandOf(i)[1] = i
  BY KeptCommand, LiveKept
<1>u. i \in done \cup dropped => Undisturbed(i)
  <2>1. i \in done \cup dropped => delivery[CommandOf(i)].state # "none"  OBVIOUS
  <2>2. QED  BY <2>1, NewClaim DEF Undisturbed
<1>1. CASE i \in done
  <2>1. row'[i] = [NoRow EXCEPT !.state = "gone"]  BY <1>1 DEF Closing
  <2>2. row'[i].state = "gone" /\ row'[i].command = 0 /\ ~Holds(i)'  BY <2>1 DEF NoRow, Holds
  <2>3. AdmittedAs(i) # {}  BY <1>1, <1>k DEF AdmittedAs
  <2>4. i \notin dropped  BY <1>1
  <2>5. ledger'[i] \in {ledger[i], "started"}  BY <1>1, <2>4 DEF Closing
  <2>6. Completed(i)  BY <1>1, <2>2, <2>3, <2>5 DEF Completed, Accounts
  <2>7. QED  BY <1>1, <1>u, <2>6 DEF ItemStep
<1>2. CASE i \in dropped /\ row[i].status = "failed"
  <2>1. i \notin done  BY <1>2
  <2>2. row'[i] = [row[i] EXCEPT !.state = "deleted"]  BY <1>2, <2>1 DEF Closing
  <2>3. row'[i].state = "deleted" /\ Same(i)  BY <1>t, <2>2 DEF Row, Same, Holds
  <2>4. ledger'[i] \in {ledger[i], "canceled"}  BY <1>2, <2>1 DEF Closing
  <2>5. Discarded(i)  BY <1>2, <1>k, <2>3, <2>4 DEF Discarded, Accounts
  <2>6. QED  BY <1>2, <1>u, <2>5 DEF ItemStep
<1>3. CASE i \in dropped /\ row[i].status # "failed"
  <2>1. i \notin done  BY <1>3
  <2>2. row'[i] = row[i]  BY <1>3, <2>1 DEF Closing
  <2>4. ledger'[i] \in {ledger[i], "canceled"}  BY <1>3, <2>1 DEF Closing
  <2>5. Stays(i)  BY <1>3, <1>k, <2>2, <2>4 DEF Stays, Same, Holds, Accounts
  <2>6. QED  BY <1>3, <1>u, <2>5 DEF ItemStep
<1>4. CASE i \notin done \cup dropped
  <2>1. row'[i] = row[i] /\ ledger'[i] = ledger[i]  BY <1>4 DEF Closing
  <2>2. QED  BY <2>1, QuietItem
<1>5. QED  BY <1>1, <1>2, <1>3, <1>4

\* The rows that carry a command.
LEMMA CarrierFacts ==
  ASSUME NEW c, NEW i \in CarriersOf({c})
  PROVE  i \in Item /\ IsLive(i) /\ CommandOf(i) = c
BY DEF CarriersOf, Open

\* A failed or retried delivery marks the row that carries it.
LEMMA CarriedItems ==
  ASSUME TypeOK, Claimed, NEW c, delivery[c].state # "none", NEW i \in Item,
         MarkDeliveryFailed(c) \/ RetryRow(c), ledger' = ledger
  PROVE  ItemStep(i)
<1>t. row[i] \in Row  BY DEF TypeOK
<1>1. CASE ~Carries(i, c)
  <2>1. row'[i] = row[i]  BY <1>1 DEF MarkDeliveryFailed, RetryRow
  <2>2. QED  BY <2>1, QuietItem
<1>2. CASE Carries(i, c)
  <2>1. Undisturbed(i)  BY <1>2, NewClaim DEF Undisturbed, Carries
  <2>2. Stays(i)
    <3>1. CASE MarkDeliveryFailed(c)
      BY <1>2, <1>t, <3>1 DEF MarkDeliveryFailed, Stays, Same, Holds, Accounts, Row
    <3>2. CASE RetryRow(c)
      BY <1>2, <1>t, <3>2 DEF RetryRow, Stays, Same, Holds, Accounts, Row
    <3>3. QED  BY <3>1, <3>2
  <2>3. QED  BY <2>1, <2>2 DEF ItemStep
<1>3. QED  BY <1>1, <1>2

\* A steer that falls back stays the same command of its item.
LEMMA FallbackItems ==
  ASSUME TypeOK, Claimed, NEW c, delivery[c].state # "none" \/ worker' = Idle, NEW i \in Item,
         FallbackSteer(c), ledger' = ledger
  PROVE  ItemStep(i)
<1>t. row[i] \in Row /\ row \in [Item -> Row]  BY DEF TypeOK
<1>1. CASE row' = row
  BY <1>1, QuietItem
<1>2. CASE row' # row
  <2>1. PICK j \in SteersOf(c) :
          row' = [row EXCEPT ![j] = [Requeued(row[j]) EXCEPT !.steer = FALSE, !.code = "steer_queued"]]
    BY <1>2 DEF FallbackSteer
  <2>2. j \in Item /\ IsLive(j) /\ CommandOf(j) = c  BY <2>1, CarrierFacts DEF SteersOf
  <2>3. CASE j # i
    <3>1. row'[i] = row[i]  BY <1>t, <2>1, <2>2, <2>3
    <3>2. QED  BY <3>1, QuietItem
  <2>4. CASE j = i
    <3>1. row'[i] = [Requeued(row[i]) EXCEPT !.steer = FALSE, !.code = "steer_queued"]
      BY <1>t, <2>1, <2>2, <2>4
    <3>2. Stays(i)  BY <1>t, <3>1 DEF Requeued, Row, Stays, Same, Holds, Accounts
    <3>3. Undisturbed(i)  BY <2>2, <2>4, NewClaim DEF Undisturbed, Idle, Claiming
    <3>4. QED  BY <3>2, <3>3 DEF ItemStep
  <2>5. QED  BY <2>3, <2>4
<1>3. QED  BY <1>1, <1>2

\* The rows that reconcileDeliveryPause settles.
LEMMA ResolvedFacts ==
  ASSUME NEW state, NEW j \in ResolvedRows(state)
  PROVE  j \in Item /\ IsLive(j) /\ delivery[CommandOf(j)].state = state
BY DEF ResolvedRows, FailedRows, DeliveryFailed

\* Reconciling the pause completes and discards the rows whose delivery was resolved.
LEMMA ReconcileItems ==
  ASSUME TypeOK, Commands, Claimed, Reconcile, NEW i \in Item
  PROVE  ItemStep(i)
<1>1. Closing(ResolvedRows("accepted"), ResolvedRows("abandoned"))  BY DEF Reconcile
<1>2. QED  BY <1>1, ResolvedFacts, ClosingItems

\* Clear deletes rows that were not admitted.
LEMMA ClearItems ==
  ASSUME TypeOK, Claimed, Clear, NEW i \in Item
  PROVE  ItemStep(i)
<1>t. row[i] \in Row  BY DEF TypeOK
<1>1. PICK scope \in {Open, {j \in Open : row[j].status = "failed"}} :
        /\ \A j \in scope : row[j].status # "dispatching" /\ ~Protected(j)
        /\ row' = [j \in Item |-> IF j \in scope THEN [row[j] EXCEPT !.state = "deleted"] ELSE row[j]]
        /\ ledger' = [j \in Item |-> IF j \in scope THEN "cleared" ELSE ledger[j]]
  BY DEF Clear
<1>2. CASE i \in scope
  <2>1. IsLive(i)  BY <1>1, <1>2 DEF Open
  <2>2. row[i].status # "dispatching" /\ ~Protected(i)  BY <1>1, <1>2
  <2>3. row'[i] = [row[i] EXCEPT !.state = "deleted"] /\ ledger'[i] = "cleared"  BY <1>1, <1>2
  <2>4. Deleted(i)  BY <1>t, <2>1, <2>2, <2>3 DEF Deleted, Row, Same, Holds
  <2>5. Undisturbed(i)  BY <2>2, NewClaim DEF Undisturbed
  <2>6. QED  BY <2>4, <2>5 DEF ItemStep
<1>3. CASE i \notin scope
  BY <1>1, <1>3, QuietItem
<1>4. QED  BY <1>2, <1>3

\* What the worker does to any item.
LEMMA WorkerItems ==
  ASSUME TypeOK, Commands, Claimed, NEW i \in Item,
         Look \/ Recover \/ Claim \/ Recheck \/ SettleDispatch
  PROVE  ItemStep(i)
<1>t. row \in [Item -> Row] /\ row[i] \in Row /\ ledger \in [Item -> {"none", "pending", "queued", "started", "canceled", "cleared"}]
  BY DEF TypeOK
<1>1. CASE Look
  <2>1. CASE Reconcile
    BY <2>1, ReconcileItems
  <2>2. CASE UNCHANGED store
    BY <2>2, QuietItem DEF store
  <2>3. QED  BY <1>1, <2>1, <2>2 DEF Look
<1>2. CASE Recover
  <2>1. delivery[Seen].state # "none"  BY <1>2 DEF Recover, Claimed
  <2>2. CASE worker.found = "accepted" /\ Closing(CarriersOf({Seen}), {})
    <3>1. delivery[Seen].state = "accepted"  BY <1>2, <2>2 DEF Recover, Claimed
    <3>2. \A j \in CarriersOf({Seen}) : j \in Item /\ IsLive(j) /\ delivery[CommandOf(j)].state = "accepted"
      BY <3>1, CarrierFacts
    <3>3. QED  BY <2>2, <3>2, ClosingItems
  <2>3. CASE (MarkDeliveryFailed(Seen) \/ RetryRow(Seen)) /\ UNCHANGED <<ahead, ledger>>
    BY <2>1, <2>3, CarriedItems
  <2>4. QED  BY <1>2, <2>2, <2>3 DEF Recover
<1>3. CASE Claim
  <2>1. CASE worker.item = i /\ Claims(i)
    <3>1. row'[i] = [row[i] EXCEPT !.status = "dispatching", !.owner = "worker", !.attempt = row[i].attempt + 1]
      BY <1>t, <1>3, <2>1 DEF Claim
    <3>2. /\ worker.pc = "claim" /\ worker'.pc = "claimed" /\ worker'.item = i /\ worker'.seen = row'[i]
          /\ ledger'[i] = ledger[i]
      BY <1>3, <2>1 DEF Claim, TypeOK
    <3>3. Taken(i)  BY <1>t, <2>1, <3>1, <3>2 DEF Taken, Claims, IsLive, Holds, Row
    <3>4. Undisturbed(i)  BY <3>2 DEF Undisturbed, Claiming
    <3>5. QED  BY <3>3, <3>4 DEF ItemStep
  <2>2. CASE ~(worker.item = i /\ Claims(i))
    <3>1. row'[i] = row[i] /\ ledger'[i] = ledger[i]  BY <1>t, <1>3, <2>2 DEF Claim
    <3>2. QED  BY <3>1, QuietItem
  <2>3. QED  BY <2>1, <2>2
<1>4. CASE Recheck
  <2>1. CASE worker.item = i /\ PausedMeanwhile /\ Holds(i)
    <3>1. row'[i] = [Requeued(row[i]) EXCEPT !.code = "other", !.attempt = row[i].attempt - 1]
      BY <1>t, <1>4, <2>1 DEF Recheck, Released, Holds
    <3>2. worker.pc = "claimed" /\ worker' = Idle /\ ledger'[i] = ledger[i]
      BY <1>4, <2>1 DEF Recheck, Done
    <3>3. GivenBack(i)  BY <1>t, <2>1, <3>1, <3>2 DEF GivenBack, Holds, Requeued, Row
    <3>4. Undisturbed(i)  BY <3>2 DEF Undisturbed, Claiming, Idle
    <3>5. QED  BY <3>3, <3>4 DEF ItemStep
  <2>2. CASE ~(worker.item = i /\ PausedMeanwhile /\ Holds(i))
    <3>1. row'[i] = row[i] /\ ledger'[i] = ledger[i]
      BY <1>t, <1>4, <2>2 DEF Recheck, Released, Holds
    <3>2. QED  BY <3>1, QuietItem
  <2>3. QED  BY <2>1, <2>2
<1>5. CASE SettleDispatch
  <2>0. /\ worker.pc = "sent" /\ worker' = Idle
        /\ worker.item \in Item /\ Seen \in Command /\ Seen[1] = worker.item
        /\ worker.found \in {"ok", "retry", "failed", "error", "steerRefused"}
        /\ worker.found = "ok" => delivery[Seen].state # "none"
    BY <1>5 DEF SettleDispatch, Done, Claimed, Seen
  <2>u. Undisturbed(i)  BY <2>0 DEF Undisturbed, Claiming
  <2>1. CASE worker.found = "ok"
    <3>1. row'[i] = row[i] \/ row'[i] = [row[i] EXCEPT !.owner = "delivery"]
          \/ row'[i] = [row[i] EXCEPT !.owner = row[i].owner]
      BY <1>t, <1>5, <2>0, <2>1 DEF SettleDispatch
    <3>2. ledger'[i] = ledger[i] \/ (i = worker.item /\ ledger'[i] = "started")
      BY <1>t, <1>5, <2>0, <2>1 DEF SettleDispatch
    <3>3. i = worker.item => AdmittedAs(i) # {}  BY <2>0, <2>1 DEF AdmittedAs
    <3>4. Stays(i)  BY <1>t, <3>1, <3>2, <3>3 DEF Stays, Same, Holds, Accounts, Row
    <3>5. QED  BY <2>u, <3>4 DEF ItemStep
  <2>2. CASE worker.found = "steerRefused"
    <3>1. FallbackSteer(Seen) /\ ledger' = ledger  BY <1>5, <2>2 DEF SettleDispatch
    <3>2. QED  BY <2>0, <3>1, FallbackItems
  <2>3. CASE worker.found \notin {"ok", "steerRefused"}
    <3>l. ledger'[i] = ledger[i]  BY <1>5, <2>3 DEF SettleDispatch
    <3>r. row'[i] \in {row[i], [row[i] EXCEPT !.status = "failed", !.owner = "none", !.code = "other"],
                       Released(row[i], worker.found = "error")}
      <4> DEFINE gives == Released(row[worker.item], worker.found = "error")
                 failed == [row[worker.item] EXCEPT !.status = "failed", !.owner = "none", !.code = "other"]
      <4>1. row' = [row EXCEPT ![worker.item] =
                      IF worker.found = "failed" \/ (worker.found = "error" /\ Exhausted(worker.seen))
                      THEN IF row[worker.item].status = "dispatching" /\ row[worker.item].owner = "worker"
                           THEN failed ELSE row[worker.item]
                      ELSE gives]
        BY <1>5, <2>3 DEF SettleDispatch
      <4> HIDE DEF gives, failed
      <4>2. row'[i] = row[i] \/ (i = worker.item /\ row'[i] \in {row[i], failed, gives})
        BY <1>t, <2>0, <4>1
      <4>3. QED  BY <4>2 DEF gives, failed
    <3>1. CASE row'[i] = Released(row[i], worker.found = "error") /\ Holds(i) /\ i = worker.item
      <4>1. CASE worker.found = "error"
        <5>1. row'[i] = [Requeued(row[i]) EXCEPT !.code = "other", !.attempt = row[i].attempt]
          BY <3>1, <4>1 DEF Released, Holds
        <5>2. Stays(i)  BY <1>t, <3>l, <5>1 DEF Stays, Same, Holds, Accounts, Requeued, Row
        <5>3. QED  BY <2>u, <5>2 DEF ItemStep
      <4>2. CASE worker.found = "retry"
        <5>1. row'[i] = [Requeued(row[i]) EXCEPT !.code = "other", !.attempt = row[i].attempt - 1]
          BY <3>1, <4>2 DEF Released, Holds
        <5>2. GivenBack(i)
          BY <1>t, <2>0, <3>l, <3>1, <4>2, <5>1 DEF GivenBack, Holds, Requeued, Row
        <5>3. QED  BY <2>u, <5>2 DEF ItemStep
      <4>3. CASE worker.found = "failed"
        <5>1. row'[i] \in {row[i], [row[i] EXCEPT !.status = "failed", !.owner = "none", !.code = "other"]}
          BY <1>t, <1>5, <2>0, <4>3 DEF SettleDispatch
        <5>2. Stays(i)  BY <1>t, <3>l, <5>1 DEF Stays, Same, Holds, Accounts, Row
        <5>3. QED  BY <2>u, <5>2 DEF ItemStep
      <4>4. QED  BY <2>0, <2>3, <4>1, <4>2, <4>3
    <3>2. CASE \/ row'[i] \in {row[i], [row[i] EXCEPT !.status = "failed", !.owner = "none", !.code = "other"]}
               \/ row'[i] = Released(row[i], worker.found = "error") /\ ~Holds(i)
      <4>1. row'[i] \in {row[i], [row[i] EXCEPT !.status = "failed", !.owner = "none", !.code = "other"]}
        BY <3>2 DEF Released, Holds
      <4>2. Stays(i)  BY <1>t, <3>l, <4>1 DEF Stays, Same, Holds, Accounts, Row
      <4>3. QED  BY <2>u, <4>2 DEF ItemStep
    <3>3. i # worker.item => row'[i] = row[i]  BY <1>t, <1>5, <2>0, <2>3 DEF SettleDispatch
    <3>4. QED  BY <3>r, <3>1, <3>2, <3>3
  <2>4. QED  BY <2>1, <2>2, <2>3
<1>6. QED  BY <1>1, <1>2, <1>3, <1>4, <1>5

\* What a delivery outcome and a resolving request do to any item.
LEMMA OutcomeItems ==
  ASSUME TypeOK, Commands, Claimed, Messages, NEW i \in Item,
         HandleOutcome \/ HandlerRejects \/ HandlerReconciles \/ RouteSettlesRow
  PROVE  ItemStep(i)
<1>1. CASE HandleOutcome
  <2> DEFINE o == Head(outcomes)
  <2>0. o = outcomes[1] /\ 1 \in 1 .. Len(outcomes)
    BY <1>1 DEF HandleOutcome, TypeOK
  <2>1. delivery[o.of].state # "none" /\ (o.state = "accepted" => delivery[o.of].state = "accepted")
    BY <2>0 DEF Messages
  <2>2. CASE o.state = "accepted" /\ Completes(o.of)
    <3>1. \A j \in CarriersOf({o.of}) : j \in Item /\ IsLive(j) /\ delivery[CommandOf(j)].state = "accepted"
      BY <2>1, <2>2, CarrierFacts
    <3>2. QED  BY <2>2, <3>1, ClosingItems DEF Completes
  <2>3. CASE Fails(o.of)
    BY <2>1, <2>3, CarriedItems DEF Fails
  <2>4. CASE UNCHANGED store
    BY <2>4, QuietItem DEF store
  <2>5. QED  BY <1>1, <2>2, <2>3, <2>4 DEF HandleOutcome
<1>2. CASE HandlerRejects
  <2>1. delivery[handler.of].state # "none"  BY <1>2 DEF HandlerRejects, Messages
  <2>2. CASE FallbackSteer(handler.of) /\ UNCHANGED ledger
    BY <2>1, <2>2, FallbackItems
  <2>3. CASE Fails(handler.of)
    BY <2>1, <2>3, CarriedItems DEF Fails
  <2>4. QED  BY <1>2, <2>2, <2>3 DEF HandlerRejects
<1>3. CASE HandlerReconciles
  BY <1>3, ReconcileItems DEF HandlerReconciles
<1>4. CASE RouteSettlesRow
  <2>1. CASE route.pc = "retried" /\ RetryRow(route.of) /\ UNCHANGED <<ahead, ledger>>
    BY <2>1, CarriedItems DEF Messages
  <2>2. CASE route.pc = "discarded" /\ Closing({}, CarriersOf({route.of}))
    <3>1. delivery[route.of].state = "abandoned"  BY <2>2 DEF Messages
    <3>2. \A j \in CarriersOf({route.of}) : j \in Item /\ IsLive(j) /\ delivery[CommandOf(j)].state = "abandoned"
      BY <3>1, CarrierFacts
    <3>3. QED  BY <2>2, <3>2, ClosingItems
  <2>3. QED  BY <1>4, <2>1, <2>2 DEF RouteSettlesRow
<1>5. QED  BY <1>1, <1>2, <1>3, <1>4

\* A retired delivery takes the row that carries it along.
LEMMA RetiredItems ==
  ASSUME TypeOK, Commands, Claimed, NEW i \in Item, Retires
  PROVE  ItemStep(i)
<1>t. row[i] \in Row /\ row \in [Item -> Row] /\ ledger \in [Item -> {"none", "pending", "queued", "started", "canceled", "cleared"}]
  BY DEF TypeOK
<1>d. delivery \in [Command -> [state : {"none", "pending", "abandoned"} \cup Terminal,
                                kind : {"start", "steer"}]]
  BY DEF TypeOK
<1>r. ASSUME Retired(i)
      PROVE  ItemStep(i)
  <2>1. Undisturbed(i)  BY <1>r, NewClaim DEF Undisturbed, Retired
  <2>2. QED  BY <1>r, <2>1 DEF ItemStep
<1>1. CASE RetireContinuation
  <2> DEFINE c == handler.of
  <2>1. CASE i \in CarriersOf({c}) /\ delivery[c].state = "rejected"
    <3>1. IsLive(i) /\ CommandOf(i) = c  BY <2>1, CarrierFacts
    <3>2. Kept(i) /\ c \in Command  BY <3>1, LiveKept, KeptCommand
    <3>3. delivery' = [delivery EXCEPT ![c].state = "abandoned"]  BY <1>1, <2>1 DEF RetireContinuation
    <3>4. delivery'[c].state = "abandoned"  BY <1>d, <3>2, <3>3
    <3>5. row'[i] = [row[i] EXCEPT !.state = "deleted", !.status = "failed", !.owner = "none", !.code = "delivery"]
      BY <1>1, <2>1 DEF RetireContinuation
    <3>6. row'[i].state = "deleted" /\ Same(i)  BY <1>t, <3>5 DEF Row, Same, Holds
    <3>7. ledger'[i] \in {ledger[i], "canceled"}  BY <1>1, <2>1 DEF RetireContinuation
    <3>8. QED  BY <1>r, <2>1, <3>1, <3>2, <3>4, <3>6, <3>7 DEF Retired
  <2>2. CASE i \notin CarriersOf({c}) /\ delivery[c].state = "rejected"
    <3>1. row'[i] = row[i] /\ ledger'[i] = ledger[i]  BY <1>1, <2>2 DEF RetireContinuation
    <3>2. QED  BY <3>1, QuietItem
  <2>3. CASE delivery[c].state # "rejected"
    BY <1>1, <2>3, QuietItem DEF RetireContinuation, store
  <2>4. QED  BY <2>1, <2>2, <2>3
<1>2. ASSUME NEW c \in Command, NEW claimed \in BOOLEAN, RetireScheduled(c, claimed)
      PROVE  ItemStep(i)
  <2>1. CASE i = c[1]
    <3>1. Kept(i) /\ CommandOf(i) = c
      BY <1>2, <2>1, CommandPairs DEF RetireScheduled, Kept, CommandOf
    <3>2. delivery[c].state = "pending" /\ delivery' = [delivery EXCEPT ![c].state = "abandoned"]
      BY <1>2 DEF RetireScheduled
    <3>3. delivery'[c].state = "abandoned"  BY <1>d, <3>2
    <3>4. row'[i] = [row[i] EXCEPT !.state = "deleted", !.owner = "none"]
      BY <1>2, <1>t, <2>1 DEF RetireScheduled
    <3>5. row'[i].state = "deleted" /\ Same(i)  BY <1>t, <3>4 DEF Row, Same, Holds
    <3>6. ledger'[i] \in {ledger[i], "canceled"}  BY <1>2, <1>t, <2>1 DEF RetireScheduled
    <3>7. QED  BY <1>r, <3>1, <3>2, <3>3, <3>5, <3>6 DEF Retired
  <2>2. CASE i # c[1]
    <3>1. row'[i] = row[i] /\ ledger'[i] = ledger[i]  BY <1>2, <1>t, <2>2 DEF RetireScheduled
    <3>2. QED  BY <3>1, QuietItem
  <2>3. QED  BY <2>1, <2>2
<1>3. QED  BY <1>1, <1>2 DEF Retires

\* Every step is one of these to every item.
LEMMA ItemSteps ==
  ASSUME TypeOK, Commands, Claimed, Messages, [Next]_vars, NEW i \in Item
  PROVE  ItemStep(i)
<1>1. CASE Writes
  BY <1>1, UserItems, ClearItems, WorkerItems, OutcomeItems DEF Writes
<1>2. CASE Retires
  BY <1>2, RetiredItems
<1>3. CASE UNCHANGED store
  BY <1>3, QuietItem DEF store
<1>4. QED  BY <1>1, <1>2, <1>3, Kinds, SendsQuiet, RestQuiet DEF vars

------------------------------------------------------------------------------
(* What a step may do to the deliveries: move them on, admit the command that   *)
(* the worker sends, or overrule it.                                             *)

\* The states a delivery may go through, and how often its prompt was handed over.
Goes(c) ==
  LET was == delivery[c].state   is == delivery'[c].state   h == handed[c]   now == handed'[c] IN
  \/ is = was /\ now = h
  \/ was = "pending" /\ is \in {"accepted", "ambiguous"} /\ now = h + 1
  \/ was = "pending" /\ is \in {"rejected", "abandoned"} /\ now = h
  \/ was = "ambiguous" /\ is = "accepted" /\ now = h
  \/ was = "ambiguous" /\ is = "pending" /\ now = h - 1
  \/ was = "rejected" /\ is = "pending" /\ now = h
  \/ was \in {"rejected", "ambiguous"} /\ is = "abandoned" /\ now = h

Moves == receipts' = receipts /\ \A c \in Command : Goes(c)

Answered(found) == worker' = [worker EXCEPT !.pc = "sent", !.found = found]

Admits ==
  /\ worker.pc = "sending" /\ ~Known /\ (Answered("ok") \/ Answered("error"))
  /\ receipts' = [receipts EXCEPT ![Seen] = "accepted"]
  /\ delivery' = [delivery EXCEPT ![Seen] = [state |-> "pending", kind |-> Kind]]
  /\ UNCHANGED handed

Overrules ==
  /\ worker.pc = "sending" /\ ~Known /\ Answered("failed")
  /\ receipts' = [receipts EXCEPT ![Seen] = "rejected"]
  /\ UNCHANGED <<delivery, handed>>

\* The types of the outbox that the steps of a delivery use.
LEMMA OutboxTypes ==
  ASSUME TypeOK
  PROVE  /\ delivery \in [Command -> [state : {"none", "pending", "abandoned"} \cup Terminal,
                                      kind : {"start", "steer"}]]
         /\ handed \in [Command -> Nat]
         /\ receipts \in [Command -> {"none", "accepted", "rejected"}]
BY DEF TypeOK

\* Sending, rechecking, retrying and discarding move one delivery on.
LEMMA DeliveryMoves ==
  ASSUME TypeOK, Deliveries, NEW c \in Command,
         Delivers(c) \/ RecheckDelivery(c) \/ RetryDelivery(c) \/ DiscardDelivery(c)
  PROVE  Moves
<1>t. /\ delivery \in [Command -> [state : {"none", "pending", "abandoned"} \cup Terminal,
                                   kind : {"start", "steer"}]]
      /\ handed \in [Command -> Nat]
  BY OutboxTypes
<1>r. receipts' = receipts
  BY DEF Delivers, Deliver, RecheckDelivery, RetryDelivery, DiscardDelivery
<1>q. ASSUME NEW d \in Command, d # c
      PROVE  delivery'[d] = delivery[d] /\ handed'[d] = handed[d]
  BY <1>t, <1>q DEF Delivers, Deliver, RecheckDelivery, RetryDelivery, DiscardDelivery
<1>c. Goes(c)
  <2>1. CASE Delivers(c)
    <3>1. PICK result \in Terminal :
            /\ delivery[c].state = "pending"
            /\ delivery' = [delivery EXCEPT ![c].state = result]
            /\ handed' = IF result = "rejected" THEN handed ELSE [handed EXCEPT ![c] = handed[c] + 1]
      BY <2>1 DEF Delivers, Deliver
    <3>2. delivery'[c].state = result  BY <1>t, <3>1
    <3>3. handed'[c] = IF result = "rejected" THEN handed[c] ELSE handed[c] + 1  BY <1>t, <3>1
    <3>4. QED  BY <1>t, <3>1, <3>2, <3>3 DEF Goes, Terminal
  <2>2. CASE RecheckDelivery(c)
    <3>1. /\ delivery[c].state = "ambiguous" /\ handed'[c] = handed[c]
          /\ delivery' = [delivery EXCEPT ![c].state = "accepted"]
      BY <2>2 DEF RecheckDelivery
    <3>2. delivery'[c].state = "accepted"  BY <1>t, <3>1
    <3>3. QED  BY <1>t, <3>1, <3>2 DEF Goes
  <2>b. c \in BlockedBy(FailedRows) => delivery[c].state \in {"rejected", "ambiguous"}
    BY DEF BlockedBy, Unresolved
  <2>3. CASE RetryDelivery(c)
    <3>1. /\ delivery' = [delivery EXCEPT ![c].state = "pending"]
          /\ handed' = IF delivery[c].state = "ambiguous" THEN [handed EXCEPT ![c] = handed[c] - 1] ELSE handed
      BY <2>3 DEF RetryDelivery
    <3>2. delivery'[c].state = "pending"  BY <1>t, <3>1
    <3>3. handed'[c] = IF delivery[c].state = "ambiguous" THEN handed[c] - 1 ELSE handed[c]
      BY <1>t, <3>1
    <3>4. delivery[c].state \in {"rejected", "ambiguous"}  BY <2>3, <2>b DEF RetryDelivery
    <3>5. QED  BY <1>t, <3>2, <3>3, <3>4 DEF Goes
  <2>4. CASE DiscardDelivery(c)
    <3>1. delivery' = [delivery EXCEPT ![c].state = "abandoned"] /\ handed' = handed
      BY <2>4 DEF DiscardDelivery
    <3>2. delivery'[c].state = "abandoned"  BY <1>t, <3>1
    <3>4. delivery[c].state \in {"rejected", "ambiguous"}  BY <2>4, <2>b DEF DiscardDelivery
    <3>5. QED  BY <1>t, <3>1, <3>2, <3>4 DEF Goes
  <2>5. QED  BY <2>1, <2>2, <2>3, <2>4
<1>d. ASSUME NEW d \in Command
      PROVE  Goes(d)
  BY <1>q, <1>c DEF Goes
<1>e. QED  BY <1>r, <1>d DEF Moves

\* What retires a delivery abandons one that was pending or rejected.
LEMMA RetiresMove ==
  ASSUME TypeOK, Retires
  PROVE  Moves
<1>t. delivery \in [Command -> [state : {"none", "pending", "abandoned"} \cup Terminal,
                                kind : {"start", "steer"}]]
  BY OutboxTypes
<1>1. ASSUME NEW c, c \in Command => delivery[c].state \in {"pending", "rejected"},
             delivery' = [delivery EXCEPT ![c].state = "abandoned"], UNCHANGED <<receipts, handed>>
      PROVE  Moves
  <2>1. ASSUME NEW d \in Command
        PROVE  Goes(d)
    <3>1. CASE d = c
      <4>1. delivery'[d].state = "abandoned"  BY <1>t, <1>1, <3>1
      <4>2. QED  BY <1>1, <3>1, <4>1 DEF Goes
    <3>2. CASE d # c
      <4>1. delivery'[d] = delivery[d]  BY <1>t, <1>1, <3>2
      <4>2. QED  BY <1>1, <4>1 DEF Goes
    <3>3. QED  BY <3>1, <3>2
  <2>2. QED  BY <1>1, <2>1 DEF Moves
<1>2. CASE RetireContinuation
  <2>1. CASE delivery[handler.of].state = "rejected"
    BY <1>1, <1>2, <2>1 DEF RetireContinuation
  <2>2. CASE delivery[handler.of].state # "rejected"
    <3>1. UNCHANGED <<receipts, delivery, handed>>  BY <1>2, <2>2 DEF RetireContinuation
    <3>2. QED  BY <3>1 DEF Moves, Goes
  <2>3. QED  BY <2>1, <2>2
<1>3. ASSUME NEW c \in Command, NEW claimed \in BOOLEAN, RetireScheduled(c, claimed)
      PROVE  Moves
  BY <1>1, <1>3 DEF RetireScheduled
<1>4. QED  BY <1>2, <1>3 DEF Retires

\* A step that leaves the outbox alone moves nothing.
LEMMA StillMoves ==
  ASSUME UNCHANGED <<receipts, delivery, handed>>
  PROVE  Moves
BY DEF Moves, Goes

\* Every step moves deliveries on, admits a command or overrules one.
LEMMA OutboxSteps ==
  ASSUME TypeOK, Deliveries, [Next]_vars
  PROVE  Moves \/ (Admits /\ UNCHANGED store) \/ (Overrules /\ UNCHANGED store)
<1>1. CASE UNCHANGED outbox
  BY <1>1, StillMoves DEF outbox
<1>2. CASE Sends
  <2>s. UNCHANGED store  BY <1>2, SendsQuiet
  <2>1. CASE \E c \in Command : Delivers(c) \/ RecheckDelivery(c) \/ RetryDelivery(c) \/ DiscardDelivery(c)
    BY <2>1, DeliveryMoves
  <2>2. CASE Acknowledge \/ TurnStarts \/ TurnEnds
    BY <2>2, StillMoves DEF Acknowledge, TurnStarts, TurnEnds
  <2>3. CASE \E outcome \in {"ok", "error"} : EngineCommits(outcome)
    BY <2>3, <2>s DEF EngineCommits, Answers, Admits, Answered
  <2>4. CASE EngineFails
    <3>1. CASE EngineCommits("error")
      BY <3>1, <2>s DEF EngineCommits, Answers, Admits, Answered
    <3>2. CASE UNCHANGED outbox
      BY <3>2, StillMoves DEF outbox
    <3>3. CASE /\ worker.pc = "sending" /\ ~Known
               /\ receipts' = [receipts EXCEPT ![Seen] = "rejected"]
               /\ Answers("failed") /\ UNCHANGED <<delivery, latest, projected, turn, handed>>
      BY <3>3, <2>s DEF Answers, Overrules, Answered
    <3>4. QED  BY <2>4, <3>1, <3>2, <3>3 DEF EngineFails
  <2>5. QED  BY <1>2, <2>1, <2>2, <2>3, <2>4 DEF Sends, EngineAccepts
<1>3. CASE Retires
  BY <1>3, RetiresMove
<1>4. QED  BY <1>1, <1>2, <1>3, Kinds, WritesQuiet, RestQuiet DEF vars

\* The engine decides only a command that a row in the queue carries and that is new to it
\* or a steer that fell back.
LEMMA Sendable ==
  ASSUME TypeOK, Deliveries, Claimed, worker.pc = "sending", ~Known
  PROVE  /\ worker.item \in Item /\ Seen \in Command /\ Carries(worker.item, Seen)
         /\ delivery[Seen].state \in {"none", "rejected"}
<1>1. worker.item \in Item /\ Seen \in Command  BY DEF Claimed
<1>2. CASE receipts[Seen] = "none"
  <2>1. delivery[Seen].state = "none"  BY <1>1, <1>2 DEF Deliveries
  <2>2. Carries(worker.item, Seen)  BY <2>1 DEF Claimed, Claiming
  <2>3. QED  BY <1>1, <2>1, <2>2
<1>3. CASE FellBack
  BY <1>1, <1>3 DEF FellBack, SteerFallback
<1>4. QED  BY <1>2, <1>3 DEF Known

\* Every step keeps commands handed over once and one accepted command per item.
LEMMA DeliveriesStep ==
  ASSUME TypeOK, Deliveries, Commands, Claimed, [Next]_vars
  PROVE  Deliveries'
<1>t. /\ delivery \in [Command -> [state : {"none", "pending", "abandoned"} \cup Terminal,
                                   kind : {"start", "steer"}]]
      /\ handed \in [Command -> Nat] /\ receipts \in [Command -> {"none", "accepted", "rejected"}]
  BY OutboxTypes
<1>1. CASE Moves
  <2>1. ASSUME NEW c \in Command
        PROVE  /\ handed'[c] = IF delivery'[c].state \in {"accepted", "ambiguous"} THEN 1
                               ELSE IF delivery'[c].state = "abandoned" THEN handed'[c] ELSE 0
               /\ handed'[c] <= 1
               /\ delivery'[c].state = "none" <=> delivery[c].state = "none"
    <3>1. Goes(c)  BY <1>1 DEF Moves
    <3>2. handed[c] \in Nat  BY <1>t
    <3>3. /\ handed[c] = IF delivery[c].state \in {"accepted", "ambiguous"} THEN 1
                         ELSE IF delivery[c].state = "abandoned" THEN handed[c] ELSE 0
          /\ handed[c] <= 1
      BY DEF Deliveries
    <3>4. QED  BY <3>1, <3>2, <3>3 DEF Goes
  <2>2. receipts' = receipts  BY <1>1 DEF Moves
  <2>3. QED  BY <2>1, <2>2 DEF Deliveries
<1>2. CASE Admits
  <2>1. Seen \in Command /\ Carries(worker.item, Seen) /\ delivery[Seen].state \in {"none", "rejected"}
        /\ worker.item \in Item
    BY <1>2, Sendable DEF Admits
  <2>2. \A c \in Command : /\ delivery'[c].state = IF c = Seen THEN "pending" ELSE delivery[c].state
                           /\ receipts'[c] = IF c = Seen THEN "accepted" ELSE receipts[c]
    BY <1>2, <1>t, <2>1 DEF Admits
  <2>3. handed' = handed /\ handed[Seen] = 0  BY <1>2, <2>1 DEF Admits, Deliveries
  <2>4. ASSUME NEW c \in Command, c[1] = Seen[1], delivery[c].state # "none", receipts[c] # "rejected"
        PROVE  c = Seen
    BY <2>1, <2>4, LiveKept DEF Commands, AdmittedAs, Carries, CommandOf, Seen
  <2>5. QED  BY <2>1, <2>2, <2>3, <2>4 DEF Deliveries
<1>3. CASE Overrules
  <2>1. Seen \in Command  BY <1>3, Sendable DEF Overrules
  <2>2. \A c \in Command : receipts'[c] = IF c = Seen THEN "rejected" ELSE receipts[c]
    BY <1>3, <1>t, <2>1 DEF Overrules
  <2>3. handed' = handed /\ delivery' = delivery  BY <1>3 DEF Overrules
  <2>4. QED  BY <2>2, <2>3 DEF Deliveries
<1>4. QED  BY <1>1, <1>2, <1>3, OutboxSteps

------------------------------------------------------------------------------
(* Commands and Books.                                                          *)

\* The command the worker read is one of the item it read.
LEMMA SeenFacts ==
  ASSUME worker.item \in Item, Seen \in Command
  PROVE  Seen[1] = worker.item /\ Seen[2] = worker.seen.command
BY DEF Seen

\* Moving deliveries on admits nothing.
LEMMA SameAdmitted ==
  ASSUME Moves, NEW i
  PROVE  AdmittedAs(i)' = AdmittedAs(i)
<1>1. \A c \in Command : delivery'[c].state = "none" <=> delivery[c].state = "none"
  BY DEF Moves, Goes
<1>2. QED  BY <1>1 DEF AdmittedAs

\* A claim that is given back leaves an attempt to a command that was admitted before it.
LEMMA GivenBackAttempts ==
  ASSUME TypeOK, Claimed, Commands, NEW i \in Item, GivenBack(i), receipts[CommandOf(i)] = "accepted"
  PROVE  row'[i].attempt > 0
<1>1. worker.seen \in Row /\ row[i] \in Row  BY DEF TypeOK
<1>2. row[i].command = worker.seen.command /\ row[i].attempt = worker.seen.attempt
  BY DEF Claimed, GivenBack, Claiming
<1>3. Seen = CommandOf(i)  BY <1>2 DEF Seen, CommandOf, GivenBack
<1>4. worker.seen.attempt > 1  BY <1>3 DEF Claimed, GivenBack, Claiming
<1>5. worker.seen.attempt \in Nat  BY <1>1 DEF Row
<1>6. QED  BY <1>2, <1>4, <1>5 DEF GivenBack

\* A step that moves deliveries on keeps Commands of every item.
LEMMA CommandsMove ==
  ASSUME TypeOK, TypeOK', Deliveries, Commands, Claimed, Moves, NEW i \in Item, ItemStep(i)
  PROVE  /\ Kept(i)' => row'[i].command >= 1
         /\ Kept(i)' /\ receipts'[CommandOf(i)'] = "accepted" => row'[i].attempt > 0
         /\ \A c \in AdmittedAs(i) :
              /\ row'[i].state # "gone" => Kept(i)' /\ c[2] <= row'[i].command
              /\ Kept(i)' /\ c # CommandOf(i)' => receipts[c] = "rejected"
<1>r. receipts' = receipts  BY DEF Moves
<1>t. /\ row[i].command \in 0 .. MaxCommands /\ row[i].attempt \in Nat /\ MaxCommands \in Nat
      /\ row'[i].command \in 0 .. MaxCommands /\ row'[i].attempt \in Nat
  <2>1. row[i] \in Row /\ row'[i] \in Row  BY DEF TypeOK
  <2>2. QED  BY <2>1, BoundAssumption DEF Row
<1>c. \A c \in AdmittedAs(i) : c \in Command /\ c[1] = i /\ c[2] \in 1 .. MaxCommands /\ delivery[c].state # "none"
  BY CommandPairs DEF AdmittedAs
<1>o. CommandOf(i)' = <<i, row'[i].command>>  BY DEF CommandOf
<1>1. CASE Stays(i) \/ Deleted(i) \/ Restored(i) \/ Discarded(i) \/ Retired(i)
  <2>1. row'[i].command = row[i].command /\ row'[i].attempt = row[i].attempt /\ Kept(i)' = Kept(i)
        /\ (row'[i].state = "gone" <=> row[i].state = "gone")
    BY <1>1 DEF Stays, Deleted, Restored, Discarded, Retired, Same, Kept, IsLive
  <2>2. CommandOf(i)' = CommandOf(i)  BY <2>1 DEF CommandOf
  <2>3. QED  BY <1>r, <2>1, <2>2 DEF Commands
<1>2. CASE Enters(i)
  <2>1. AdmittedAs(i) = {}  BY <1>2 DEF Commands, Enters, Kept
  <2>2. Kept(i)' /\ CommandOf(i)' \in Command /\ CommandOf(i)'[1] = i
    BY <1>2, <1>t, <1>o DEF Enters, Kept, Command
  <2>3. receipts[CommandOf(i)'] # "accepted"  BY <2>1, <2>2 DEF Deliveries, AdmittedAs
  <2>4. QED  BY <1>2, <1>r, <2>1, <2>3 DEF Enters
<1>3. CASE Changed(i)
  <2>1. Kept(i) /\ Kept(i)' /\ row'[i].command = row[i].command + 1 /\ ~Protected(i)
    BY <1>3 DEF Changed, Kept, IsLive
  <2>2. CommandOf(i)' \in Command /\ CommandOf(i)'[1] = i /\ CommandOf(i)'[2] = row[i].command + 1
    BY <1>t, <1>o, <2>1 DEF Command
  <2>3. \A c \in AdmittedAs(i) : c[2] <= row[i].command  BY <2>1 DEF Commands, Kept
  <2>4. receipts[CommandOf(i)'] # "accepted"
    BY <1>t, <2>2, <2>3 DEF Deliveries, AdmittedAs
  <2>5. ASSUME NEW c \in AdmittedAs(i)
        PROVE  receipts[c] = "rejected"
    <3>1. receipts[c] # "none"  BY <1>c, <2>5 DEF Deliveries
    <3>2. CASE c # CommandOf(i)  BY <2>1, <2>5, <3>2 DEF Commands
    <3>3. CASE c = CommandOf(i)
      <4>1. receipts[c] # "accepted"  BY <2>1, <3>3, NotAdmitted
      <4>2. QED  BY <1>c, <2>5, <3>1, <4>1, OutboxTypes
    <3>4. QED  BY <3>2, <3>3
  <2>6. QED  BY <1>r, <1>t, <1>c, <2>1, <2>3, <2>4, <2>5
<1>4. CASE Completed(i)
  BY <1>4 DEF Completed, Kept
<1>5. CASE Taken(i)
  <2>1. Kept(i) /\ Kept(i)' /\ row'[i].command = row[i].command /\ row'[i].attempt = row[i].attempt + 1
        /\ row'[i].state # "gone"
    BY <1>5 DEF Taken, Kept, IsLive
  <2>2. CommandOf(i)' = CommandOf(i)  BY <2>1 DEF CommandOf
  <2>3. row'[i].attempt > 0  BY <1>t, <2>1
  <2>4. QED  BY <1>r, <2>1, <2>2, <2>3 DEF Commands, Kept
<1>6. CASE GivenBack(i)
  <2>1. Kept(i)' = Kept(i) /\ row'[i].command = row[i].command
        /\ (row'[i].state = "gone" <=> row[i].state = "gone")
    BY <1>6 DEF GivenBack, Kept
  <2>2. CommandOf(i)' = CommandOf(i)  BY <2>1 DEF CommandOf
  <2>3. receipts[CommandOf(i)] = "accepted" => row'[i].attempt > 0  BY <1>6, GivenBackAttempts
  <2>4. QED  BY <1>r, <2>1, <2>2, <2>3 DEF Commands
<1>7. QED  BY <1>1, <1>2, <1>3, <1>4, <1>5, <1>6 DEF ItemStep

\* Every step keeps that only the command a row carries can be new to the engine.
LEMMA CommandsStep ==
  ASSUME TypeOK, TypeOK', Deliveries, Commands, Claimed, Messages, [Next]_vars
  PROVE  Commands'
<1> SUFFICES ASSUME NEW i \in Item
             PROVE  /\ Kept(i)' => row'[i].command >= 1
                    /\ Kept(i)' /\ receipts'[CommandOf(i)'] = "accepted" => row'[i].attempt > 0
                    /\ \A c \in AdmittedAs(i)' :
                         /\ row'[i].state # "gone" => Kept(i)' /\ c[2] <= row'[i].command
                         /\ Kept(i)' /\ c # CommandOf(i)' => receipts'[c] = "rejected"
  BY DEF Commands
<1>1. CASE Moves
  <2>1. AdmittedAs(i)' = AdmittedAs(i) /\ receipts' = receipts  BY <1>1, SameAdmitted DEF Moves
  <2>2. QED  BY <1>1, <2>1, ItemSteps, CommandsMove
<1>2. CASE (Admits \/ Overrules) /\ UNCHANGED store
  <2>1. row' = row /\ Kept(i)' = Kept(i) /\ CommandOf(i)' = CommandOf(i)
    BY <1>2 DEF store, Kept, CommandOf
  <2>2. /\ worker.item \in Item /\ Seen \in Command /\ Carries(worker.item, Seen)
        /\ Seen[1] = worker.item /\ worker.pc = "sending"
    BY <1>2, Sendable, SeenFacts DEF Admits, Overrules
  <2>3. CASE i = worker.item
    <3>1. IsLive(i) /\ Kept(i) /\ CommandOf(i) = Seen  BY <2>2, <2>3, LiveKept DEF Carries
    <3>2. row[i].attempt > 0
      BY <2>2, <2>3, <3>1 DEF Claimed, Claiming, CommandOf, Seen
    <3>3. \A c \in AdmittedAs(i)' : c \in AdmittedAs(i) \/ c = Seen
      BY <1>2, <2>2, OutboxTypes DEF Admits, Overrules, AdmittedAs
    <3>4. \A c \in AdmittedAs(i)' : c # Seen => receipts'[c] = receipts[c]
      BY <1>2, <2>2, OutboxTypes DEF Admits, Overrules, AdmittedAs
    <3>5. Seen[2] <= row[i].command
      <4>1. row[i].command \in Int  BY DEF TypeOK, Row
      <4>2. Seen[2] = row[i].command  BY <3>1 DEF CommandOf
      <4>3. QED  BY <4>1, <4>2
    <3>6. QED  BY <2>1, <3>1, <3>2, <3>3, <3>4, <3>5 DEF Commands
  <2>4. CASE i # worker.item
    <3>1. AdmittedAs(i)' = AdmittedAs(i) /\ \A c \in Command : c[1] = i => receipts'[c] = receipts[c]
      BY <1>2, <2>2, <2>4, OutboxTypes DEF Admits, Overrules, AdmittedAs
    <3>2. Kept(i) => CommandOf(i) \in Command /\ CommandOf(i)[1] = i  BY KeptCommand
    <3>3. QED  BY <2>1, <3>1, <3>2 DEF Commands, AdmittedAs
  <2>5. QED  BY <2>3, <2>4
<1>3. QED  BY <1>1, <1>2, OutboxSteps

\* A step that moves deliveries on keeps the account of every item true.
LEMMA BooksMove ==
  ASSUME TypeOK, TypeOK', Deliveries, Commands, Books, Moves, NEW i \in Item, ItemStep(i)
  PROVE  /\ ledger'[i] \in {"canceled", "cleared"} =>
              \/ \E c \in AdmittedAs(i) : c # CommandOf(i)' /\ receipts[c] = "rejected"
              \/ Kept(i)' /\ delivery'[CommandOf(i)'].state = "abandoned"
              \/ row'[i].state = "deleted" /\ receipts[CommandOf(i)'] # "accepted"
         /\ ledger'[i] = "started" => AdmittedAs(i) # {}
<1>t. /\ row[i].command \in 0 .. MaxCommands /\ MaxCommands \in Nat
      /\ row'[i].command \in 0 .. MaxCommands
  BY BoundAssumption DEF TypeOK, Row
<1>c. \A c \in AdmittedAs(i) : c \in Command /\ c[1] = i /\ c[2] \in 1 .. MaxCommands /\ delivery[c].state # "none"
  BY CommandPairs DEF AdmittedAs
<1>o. CommandOf(i)' = <<i, row'[i].command>> /\ CommandOf(i) = <<i, row[i].command>>  BY DEF CommandOf
<1>g. Kept(i) /\ delivery[CommandOf(i)].state = "abandoned" => delivery'[CommandOf(i)].state = "abandoned"
  BY KeptCommand DEF Moves, Goes
<1>b. /\ ledger[i] \in {"canceled", "cleared"} =>
              \/ \E c \in AdmittedAs(i) : c # CommandOf(i) /\ receipts[c] = "rejected"
              \/ Kept(i) /\ delivery[CommandOf(i)].state = "abandoned"
              \/ row[i].state = "deleted" /\ receipts[CommandOf(i)] # "accepted"
      /\ ledger[i] = "started" => AdmittedAs(i) # {}
  BY DEF Books, Relinquished
<1>1. CASE Stays(i) \/ Discarded(i) \/ Taken(i) \/ GivenBack(i)
  <2>1. row'[i].command = row[i].command /\ (Kept(i) => Kept(i)')
        /\ (row'[i].state = row[i].state \/ Discarded(i))
    BY <1>1 DEF Stays, Discarded, Taken, GivenBack, Same, Kept, IsLive
  <2>2. CommandOf(i)' = CommandOf(i)  BY <1>o, <2>1
  <2>3. Accounts(i)  BY <1>1 DEF Stays, Discarded, Taken, GivenBack, Accounts
  <2>4. CASE Discarded(i)
    BY <1>g, <1>b, <2>2, <2>3, <2>4 DEF Discarded, Kept, IsLive, Accounts
  <2>5. CASE row'[i].state = row[i].state
    BY <1>g, <1>b, <2>1, <2>2, <2>3, <2>5 DEF Accounts
  <2>6. QED  BY <2>1, <2>4, <2>5
<1>2. CASE Enters(i) \/ Restored(i)
  BY <1>2 DEF Enters, Restored
<1>3. CASE Changed(i)
  <2>1. Kept(i) /\ row'[i].command = row[i].command + 1 /\ ~Protected(i) /\ ledger'[i] = ledger[i]
        /\ row[i].state # "deleted"
    BY <1>3 DEF Changed, Kept, IsLive
  <2>2. CommandOf(i) # CommandOf(i)'  BY <1>t, <1>o, <2>1
  <2>3. \A c \in AdmittedAs(i) : c # CommandOf(i)'
    <3>1. \A c \in AdmittedAs(i) : c[2] <= row[i].command  BY <2>1 DEF Commands, Kept
    <3>2. QED  BY <1>t, <1>c, <1>o, <2>1, <3>1
  <2>4. delivery[CommandOf(i)].state = "abandoned"
          => CommandOf(i) \in AdmittedAs(i) /\ receipts[CommandOf(i)] = "rejected"
    <3>1. CommandOf(i) \in Command /\ CommandOf(i)[1] = i  BY <2>1, KeptCommand
    <3>2. receipts[CommandOf(i)] # "accepted"  BY <2>1, NotAdmitted
    <3>3. QED  BY <3>1, <3>2, OutboxTypes DEF AdmittedAs, Deliveries
  <2>5. QED  BY <1>b, <2>1, <2>2, <2>3, <2>4
<1>4. CASE Deleted(i)
  <2>1. Kept(i) /\ ~Protected(i)  BY <1>4 DEF Deleted, Kept, IsLive
  <2>2. CommandOf(i)' = CommandOf(i)  BY <1>4, <1>o DEF Deleted, Same
  <2>3. QED  BY <1>4, <2>1, <2>2, NotAdmitted DEF Deleted
<1>5. CASE Completed(i)
  <2>1. \A c \in AdmittedAs(i) : c # CommandOf(i)'  BY <1>5, <1>c, <1>o DEF Completed
  <2>2. QED  BY <1>5, <1>b, <2>1 DEF Completed, IsLive, Accounts
<1>6. CASE Retired(i)
  <2>1. CommandOf(i)' = CommandOf(i) /\ Kept(i)' /\ delivery'[CommandOf(i)].state = "abandoned"
    BY <1>6, <1>o DEF Retired, Same, Kept
  <2>2. QED  BY <1>6, <1>b, <2>1 DEF Retired
<1>7. QED  BY <1>1, <1>2, <1>3, <1>4, <1>5, <1>6 DEF ItemStep

\* Every step keeps the accounts true.
LEMMA BooksStep ==
  ASSUME TypeOK, TypeOK', Deliveries, Commands, Claimed, Messages, Books, [Next]_vars
  PROVE  Books'
<1> SUFFICES ASSUME NEW i \in Item
             PROVE  /\ ledger'[i] \in {"canceled", "cleared"} =>
                         \/ \E c \in AdmittedAs(i)' : c # CommandOf(i)' /\ receipts'[c] = "rejected"
                         \/ Kept(i)' /\ delivery'[CommandOf(i)'].state = "abandoned"
                         \/ row'[i].state = "deleted" /\ receipts'[CommandOf(i)'] # "accepted"
                    /\ ledger'[i] = "started" => AdmittedAs(i)' # {}
  BY DEF Books, Relinquished
<1>1. CASE Moves
  <2>1. AdmittedAs(i)' = AdmittedAs(i) /\ receipts' = receipts  BY <1>1, SameAdmitted DEF Moves
  <2>2. QED  BY <1>1, <2>1, ItemSteps, BooksMove
<1>2. CASE (Admits \/ Overrules) /\ UNCHANGED store
  <2>1. ledger' = ledger /\ row' = row /\ Kept(i)' = Kept(i) /\ CommandOf(i)' = CommandOf(i)
    BY <1>2 DEF store, Kept, CommandOf
  <2>2. /\ worker.item \in Item /\ Seen \in Command /\ Carries(worker.item, Seen)
        /\ Seen[1] = worker.item /\ delivery[Seen].state # "abandoned"
    BY <1>2, Sendable, SeenFacts DEF Admits, Overrules
  <2>3. AdmittedAs(i) \subseteq AdmittedAs(i)'
    BY <1>2, <2>2, OutboxTypes DEF Admits, Overrules, AdmittedAs
  <2>4. \A c \in Command : c # Seen => receipts'[c] = receipts[c] /\ delivery'[c] = delivery[c]
    BY <1>2, <2>2, OutboxTypes DEF Admits, Overrules
  <2>5. CASE i = worker.item
    <3>1. IsLive(i) /\ CommandOf(i) = Seen  BY <2>2, <2>5 DEF Carries
    <3>2. QED  BY <2>1, <2>2, <2>3, <2>4, <3>1 DEF Books, Relinquished, AdmittedAs, IsLive
  <2>6. CASE i # worker.item
    <3>1. Kept(i) => CommandOf(i) \in Command /\ CommandOf(i) # Seen  BY <2>2, <2>6, KeptCommand
    <3>2. \A c \in AdmittedAs(i) : c \in Command /\ c # Seen  BY <2>2, <2>6 DEF AdmittedAs
    <3>3. row[i].state = "deleted" => Kept(i)  BY DEF Kept
    <3>4. QED  BY <2>1, <2>3, <2>4, <3>1, <3>2, <3>3 DEF Books, Relinquished
  <2>7. QED  BY <2>5, <2>6
<1>3. QED  BY <1>1, <1>2, OutboxSteps

------------------------------------------------------------------------------
(* What a step may do to the worker.                                            *)

Resting == {"idle", "lift", "hold", "pick"}

Workers == [pc : {"idle", "lift", "hold", "pick", "gate", "autoPause", "recover", "claim",
                  "claimed", "checked", "sending", "sent"},
            item : Item \cup {NoItem}, seen : Row, found : Found]

Waits    == worker' = worker /\ active' = active
Rests    == worker'.pc \in Resting /\ worker' \in Workers
Picks    == \E i \in Item : IsLive(i) /\ worker' = [pc |-> "gate", item |-> i, seen |-> row[i], found |-> "none"]
TurnsAway  == worker.pc = "gate" /\ worker' = [worker EXCEPT !.pc = "autoPause"]
Opens    == /\ worker.pc = "gate" /\ UNCHANGED delivery
            /\ \/ worker' = [worker EXCEPT !.pc = "claim", !.found = delivery[Seen].state]
               \/ AlreadyAdmitted /\ worker' = [worker EXCEPT !.pc = "recover", !.found = delivery[Seen].state]
Takes    == /\ worker.pc = "claim" /\ Claims(worker.item) /\ UNCHANGED <<receipts, delivery>>
            /\ row' = [row EXCEPT ![worker.item].status = "dispatching", ![worker.item].owner = "worker",
                                  ![worker.item].attempt = row[worker.item].attempt + 1]
            /\ active' = active \cup {worker.item}
            /\ worker' = [worker EXCEPT !.pc = "claimed", !.seen = row'[worker.item]]
Proceeds == /\ worker.pc = "claimed" /\ worker' = [worker EXCEPT !.pc = "checked"]
            /\ paused = "none" /\ UNCHANGED <<row, hold, active, receipts, delivery>>
Hands    == /\ worker.pc = "checked" /\ worker' = [worker EXCEPT !.pc = "sending"]
            /\ UNCHANGED <<row, active, receipts, delivery>>
Replies  == /\ worker.pc = "sending" /\ UNCHANGED <<row, receipts, delivery>>
            /\ \/ \E found \in {"retry", "failed", "error", "steerRefused"} : Answered(found)
               \/ Answered("ok") /\ receipts[Seen] = "accepted"

WorkerStepKinds ==
  Waits \/ Rests \/ Picks \/ TurnsAway \/ Opens \/ Takes \/ Proceeds \/ Hands \/ Replies
  \/ (Admits /\ UNCHANGED store) \/ (Overrules /\ UNCHANGED store)

\* The row of an item that was never submitted is a row.
LEMMA NoRowTyped == NoRow \in Row
<1>1. 0 \in 0 .. MaxCommands  BY BoundAssumption
<1>2. QED  BY <1>1 DEF NoRow, Row

\* A worker that is done rests.
LEMMA Idles == Done => Rests
BY NoRowTyped DEF Done, Rests, Resting, Idle, Workers, Found

\* Reading the list picks an item or rests.
LEMMA PickKinds ==
  ASSUME TypeOK, PickFrom
  PROVE  Rests \/ Picks
<1>1. worker \in Workers  BY DEF TypeOK, Workers
<1>2. GoTo("hold") => Rests  BY <1>1 DEF GoTo, Rests, Resting, Workers
<1>4. QED  BY <1>2, Idles DEF PickFrom, Picks, IsNext, Runnable, Open

\* What the steps that write the rows do to the worker,
LEMMA WritesKinds ==
  ASSUME TypeOK, Writes
  PROVE  WorkerStepKinds
<1>t. worker \in Workers  BY DEF TypeOK, Workers
<1>1. ASSUME NEW i \in Item,
             \/ Submits(i) \/ Edit(i) \/ SoftDelete(i) \/ Restore(i) \/ SetSteer(i)
             \/ (\E promote \in BOOLEAN : Reorder(i, promote)) \/ Reclaim(i) \/ AnswerQueued(i)
      PROVE  Waits
  BY <1>1 DEF Waits, Submits, Submit, Edit, SoftDelete, Restore, SetSteer, Reorder, Reclaim, AnswerQueued, Changes, memory
<1>2. Clear \/ HandleOutcome \/ HandlerRejects \/ HandlerReconciles \/ RouteSettlesRow => Waits
  BY DEF Waits, Clear, HandleOutcome, HandlerRejects, HandlerReconciles, HandlerOnly, RouteSettlesRow,
         RouteOnly, Changes
<1>3. CASE Look
  <2>1. CASE PickFrom
    BY <2>1, PickKinds DEF WorkerStepKinds
  <2>2. CASE GoTo(IF Lifts THEN "lift" ELSE IF Reconciled = {} /\ FailedRows # {} THEN "hold" ELSE "pick")
    BY <2>2, <1>t DEF GoTo, Rests, Resting, Workers, WorkerStepKinds
  <2>3. QED  BY <1>3, <2>1, <2>2 DEF Look
<1>4. Recover \/ SettleDispatch => Rests  BY Idles DEF Recover, SettleDispatch
<1>5. CASE Claim
  BY <1>5, Idles DEF Claim, Takes, WorkerStepKinds, WorkerOnly, outbox
<1>6. CASE Recheck
  BY <1>6, Idles DEF Recheck, PausedMeanwhile, hold, Proceeds, WorkerStepKinds, GoTo, WorkerOnly, outbox
<1>7. QED  BY <1>1, <1>2, <1>3, <1>4, <1>5, <1>6 DEF Writes, WorkerStepKinds

\* what those that write the outbox do,
LEMMA SendsKinds ==
  ASSUME TypeOK, Deliveries, Sends
  PROVE  WorkerStepKinds
<1>s. UNCHANGED store  BY SendsQuiet
<1>1. CASE \E c \in Command : Delivers(c) \/ RecheckDelivery(c) \/ RetryDelivery(c) \/ DiscardDelivery(c)
  BY <1>1 DEF Delivers, Deliver, RecheckDelivery, RetryDelivery, DiscardDelivery, Environment, memory,
              Waits, WorkerStepKinds
<1>2. CASE Acknowledge \/ TurnStarts \/ TurnEnds
  BY <1>2 DEF Acknowledge, TurnStarts, TurnEnds, Environment, memory, Waits, WorkerStepKinds
<1>3. CASE \E outcome \in {"ok", "error"} : EngineCommits(outcome)
  BY <1>3, <1>s DEF EngineCommits, Answers, Admits, Answered, WorkerStepKinds
<1>4. CASE EngineFails
  <2>1. CASE EngineCommits("error")
    BY <2>1, <1>3
  <2>2. CASE /\ worker.pc = "sending" /\ \E o \in {"retry", "failed", "error"} : Answers(o)
             /\ UNCHANGED outbox
    BY <2>2 DEF Answers, Answered, Replies, outbox, store, WorkerStepKinds
  <2>3. CASE /\ worker.pc = "sending" /\ ~Known
             /\ receipts' = [receipts EXCEPT ![Seen] = "rejected"]
             /\ Answers("failed") /\ UNCHANGED <<delivery, latest, projected, turn, handed>>
    BY <2>3, <1>s DEF Answers, Overrules, Answered, WorkerStepKinds
  <2>4. QED  BY <1>4, <2>1, <2>2, <2>3 DEF EngineFails
<1>5. QED  BY <1>1, <1>2, <1>3, <1>4 DEF Sends, EngineAccepts

\* what those that write both do,
LEMMA RetiresWait == Retires => Waits
<1>1. ASSUME NEW c \in Command, NEW claimed \in BOOLEAN, RetireScheduled(c, claimed)
      PROVE  Waits
  BY <1>1 DEF RetireScheduled, memory, Waits
<1>2. RetireContinuation => Waits  BY DEF RetireContinuation, HandlerOnly, Waits
<1>3. QED  BY <1>1, <1>2 DEF Retires

\* and what the rest do.
LEMMA RestKinds ==
  ASSUME TypeOK, Rest
  PROVE  WorkerStepKinds
<1>t. worker \in Workers  BY DEF TypeOK, Workers
<1>1. CASE (\E c \in Command : Replay(c)) \/ (\E reason \in {"manual", "none"} : PauseRequest(reason))
  BY <1>1 DEF Replay, Environment, PauseRequest, Changes, memory, Waits, WorkerStepKinds
<1>2. CASE Interrupt \/ ReactToInterrupt \/ RouteSettlesPause
  BY <1>2 DEF Interrupt, ReactToInterrupt, RouteSettlesPause, RouteOnly, memory, Waits, WorkerStepKinds
<1>3. CASE WorkerLifts
  BY <1>3, <1>t DEF WorkerLifts, GoTo, Rests, Resting, Workers, WorkerStepKinds
<1>4. CASE Pick
  BY <1>4, PickKinds DEF Pick, WorkerStepKinds
<1>5. HoldForDelivery \/ GateWaits \/ AutoPause => Rests
  BY Idles DEF HoldForDelivery, GateWaits, AutoPause
<1>6. CASE GatePauses
  BY <1>6 DEF GatePauses, GoTo, TurnsAway, WorkerStepKinds
<1>7. CASE GateOpens
  BY <1>7 DEF GateOpens, Opens, WorkerStepKinds, WorkerOnly, outbox
<1>8. CASE EngineReplays
  BY <1>8 DEF EngineReplays, Answers, Answered, Replies, WorkerStepKinds, outbox, store
<1>9. CASE EngineDeclines
  BY <1>9 DEF EngineDeclines, Answers, Answered, Replies, WorkerStepKinds, outbox, store
<1>10. CrashAndRestart => Rests  BY Idles DEF CrashAndRestart, Done
<1>11. CASE HandOver
  BY <1>11 DEF HandOver, GoTo, WorkerOnly, Hands, WorkerStepKinds, outbox, store
<1>12. HandlerPauses => Waits  BY DEF HandlerPauses, HandlerOnly, Waits
<1>13. QED
  BY <1>1, <1>2, <1>3, <1>4, <1>5, <1>6, <1>7, <1>8, <1>9, <1>10, <1>11, <1>12 DEF Rest, WorkerStepKinds

\* Every step is one of these to the worker.
LEMMA WorkerSteps ==
  ASSUME TypeOK, Deliveries, [Next]_vars
  PROVE  WorkerStepKinds
<1>1. UNCHANGED vars => Waits  BY DEF vars, memory, Waits
<1>2. QED  BY <1>1, Kinds, WritesKinds, SendsKinds, RetiresWait, RestKinds DEF WorkerStepKinds

\* The row the worker took, while the worker waits for the engine.
LEMMA ClaimedWaits ==
  ASSUME TypeOK, TypeOK', Deliveries, Commands, Claimed, Messages, [Next]_vars, Waits, Moves
  PROVE  Claimed'
<1>w. worker' = worker /\ active' = active /\ Seen' = Seen  BY DEF Waits, Seen
<1>m. /\ receipts' = receipts
      /\ Seen \in Command => /\ delivery'[Seen].state = "none" <=> delivery[Seen].state = "none"
                             /\ delivery[Seen].state = "accepted" => delivery'[Seen].state = "accepted"
  BY DEF Moves, Goes
<1>1. CASE worker.pc \in Claiming \cup {"sent"}
  <2>0. worker.item \in Item /\ Seen \in Command  BY <1>1 DEF Claimed, Claiming
  <2>i. PICK i \in Item : i = worker.item  BY <2>0
  <2>1. i = worker'.item /\ Seen \in Command  BY <1>w, <2>0, <2>i
  <2>s. ItemStep(i)  BY ItemSteps
  <2>t. /\ row[i].command \in Nat /\ row'[i].command \in Nat /\ worker.seen.command \in Nat
        /\ worker.seen.command > 0
    <3>1. Seen[2] \in 1 .. MaxCommands /\ MaxCommands \in Nat
      BY <2>1, CommandPairs, BoundAssumption
    <3>2. row[i] \in Row /\ row'[i] \in Row /\ worker.seen \in Row  BY DEF TypeOK
    <3>3. QED  BY <3>1, <3>2 DEF Row, Seen
  <2>n. ~Taken(i) /\ ~GivenBack(i)
    BY <1>1, <1>w DEF Taken, GivenBack, Claiming, Idle
  <2>c. /\ row[i].state = "gone" \/ (Kept(i) /\ row[i].command >= worker.seen.command)
        /\ row[i].command = worker.seen.command => row[i].attempt = worker.seen.attempt
        /\ Holds(i) => row[i].command = worker.seen.command
    BY <1>1, <2>i DEF Claimed
  <2>2. /\ row'[i].state = "gone" \/ (Kept(i)' /\ row'[i].command >= worker.seen.command)
        /\ row'[i].command = worker.seen.command => row'[i].attempt = worker.seen.attempt
        /\ Holds(i)' => row'[i].command = worker.seen.command
    <3>1. CASE Stays(i)
      BY <2>c, <3>1 DEF Stays, Same, Kept
    <3>2. CASE Changed(i)
      BY <2>c, <2>t, <3>2 DEF Changed, IsLive, Kept
    <3>3. CASE Deleted(i) \/ Restored(i) \/ Discarded(i) \/ Retired(i)
      BY <2>c, <3>3 DEF Deleted, Restored, Discarded, Retired, Same, Kept, IsLive
    <3>4. CASE Completed(i)
      BY <2>t, <3>4 DEF Completed
    <3>5. CASE Enters(i)
      BY <2>c, <3>5 DEF Enters, Kept
    <3>6. QED  BY <2>s, <2>n, <3>1, <3>2, <3>3, <3>4, <3>5 DEF ItemStep
  <2>3. ASSUME worker.pc \in Claiming, delivery'[Seen].state = "none"
        PROVE  row'[i] = row[i] /\ Carries(i, Seen) /\ Holds(i)
    <3>1. delivery[Seen].state = "none"  BY <1>m, <2>1, <2>3
    <3>2. Undisturbed(i)  BY <2>s DEF ItemStep
    <3>3. Carries(i, Seen) /\ Holds(i)  BY <2>i, <2>3, <3>1 DEF Claimed
    <3>4. QED  BY <1>w, <2>i, <2>3, <3>1, <3>2, <3>3 DEF Undisturbed
  <2>4. worker.pc \in Claiming /\ delivery'[Seen].state = "none" => Carries(i, Seen)' /\ Holds(i)'
    BY <1>w, <2>3 DEF Carries, IsLive, CommandOf, Holds
  <2>5. QED
    BY <1>w, <1>m, <1>1, <2>i, <2>1, <2>2, <2>4 DEF Claimed, Claiming
<1>2. CASE worker.pc \notin Claiming \cup {"sent"}
  <2>1. worker.pc = "recover" => Seen \in Command  BY DEF Claimed
  <2>2. QED  BY <1>w, <1>m, <1>2, <2>1 DEF Claimed, Claiming
<1>3. QED  BY <1>1, <1>2

\* The claim reads the row it takes.
LEMMA ClaimedTakes ==
  ASSUME TypeOK, TypeOK', Deliveries, Commands, Claimed, Takes
  PROVE  Claimed'
<1>0. PICK i \in Item : i = worker.item  BY DEF Takes, Claimed
<1>t. /\ worker \in [pc : {"idle", "lift", "hold", "pick", "gate", "autoPause", "recover", "claim",
                           "claimed", "checked", "sending", "sent"},
                     item : Item \cup {NoItem}, seen : Row, found : Found]
      /\ row \in [Item -> Row]
  BY DEF TypeOK
<1>1. IsLive(i) /\ Kept(i)  BY <1>0, LiveKept DEF Takes, Claims
<1>2. row'[i] = [row[i] EXCEPT !.status = "dispatching", !.owner = "worker", !.attempt = row[i].attempt + 1]
  BY <1>t, <1>0 DEF Takes
<1>3. worker'.pc = "claimed" /\ worker'.item = i /\ worker'.seen = row'[i]  BY <1>t, <1>0 DEF Takes
<1>4. /\ row'[i].state = "live" /\ row'[i].command = row[i].command /\ row'[i].status = "dispatching"
      /\ row'[i].owner = "worker" /\ row'[i].attempt = row[i].attempt + 1 /\ row[i].attempt \in Nat
      /\ row[i].command \in Nat
  BY <1>t, <1>1, <1>2 DEF IsLive, Row
<1>5. Seen' = CommandOf(i) /\ CommandOf(i) \in Command
  BY <1>1, <1>3, <1>4, KeptCommand DEF Seen, CommandOf
<1>6. receipts[CommandOf(i)] = "accepted" => row[i].attempt > 0  BY <1>1 DEF Commands
<1>7. receipts' = receipts /\ delivery' = delivery /\ i \in active'  BY <1>0 DEF Takes
<1>8. Carries(i, Seen)' /\ Holds(i)' /\ Kept(i)'
  BY <1>3, <1>4, <1>5 DEF Carries, IsLive, CommandOf, Holds, Kept
<1>9. /\ worker'.seen.attempt > 0 /\ row'[i].attempt = worker'.seen.attempt
      /\ row'[i].command = worker'.seen.command /\ row'[i].command >= worker'.seen.command
      /\ receipts'[Seen'] = "accepted" => worker'.seen.attempt > 1
  BY <1>3, <1>4, <1>5, <1>6, <1>7
<1>10. QED  BY <1>3, <1>5, <1>7, <1>8, <1>9 DEF Claimed, Claiming

\* Every step keeps what the worker may assume of the row it claimed.
LEMMA ClaimedStep ==
  ASSUME TypeOK, TypeOK', Deliveries, Commands, Claimed, Messages, [Next]_vars
  PROVE  Claimed'
<1>t. worker \in [pc : {"idle", "lift", "hold", "pick", "gate", "autoPause", "recover", "claim",
                       "claimed", "checked", "sending", "sent"},
                  item : Item \cup {NoItem}, seen : Row, found : Found]
  BY DEF TypeOK
<1>1. CASE Waits
  <2>1. ~Admits /\ ~Overrules
    <3>1. \A found : Answered(found) => worker'.pc = "sent"  BY <1>t DEF Answered
    <3>2. QED  BY <1>1, <3>1 DEF Waits, Admits, Overrules
  <2>2. QED  BY <1>1, <2>1, OutboxSteps, ClaimedWaits
<1>2. CASE Rests
  BY <1>2 DEF Rests, Resting, Claimed, Claiming
<1>3. CASE Picks
  <2>1. PICK i \in Item : IsLive(i) /\ worker' = [pc |-> "gate", item |-> i, seen |-> row[i], found |-> "none"]
    BY <1>3 DEF Picks
  <2>2. Seen' = CommandOf(i) /\ CommandOf(i) \in Command
    BY <2>1, LiveKept, KeptCommand DEF Seen, CommandOf
  <2>3. QED  BY <2>1, <2>2 DEF Claimed, Claiming
<1>4. CASE TurnsAway
  <2>1. worker'.pc = "autoPause" /\ worker'.item = worker.item /\ Seen' = Seen
    BY <1>4, <1>t DEF TurnsAway, Seen
  <2>2. QED  BY <1>4, <2>1 DEF TurnsAway, Claimed, Claiming
<1>5. CASE Opens
  <2>1. /\ worker'.pc \in {"claim", "recover"} /\ worker'.item = worker.item /\ Seen' = Seen
        /\ worker'.found = delivery[Seen].state /\ delivery' = delivery
        /\ worker'.pc = "recover" => AlreadyAdmitted
    BY <1>5, <1>t DEF Opens, Seen
  <2>2. worker.item \in Item /\ Seen \in Command  BY <1>5 DEF Opens, Claimed
  <2>3. worker'.pc = "recover" => delivery[Seen].state # "none"
    BY <2>1, <2>2 DEF AlreadyAdmitted, Deliveries
  <2>4. QED  BY <2>1, <2>2, <2>3 DEF Claimed, Claiming
<1>6. CASE Takes  BY <1>6, ClaimedTakes
<1>7. CASE Proceeds \/ Hands
  <2>1. /\ worker.pc \in {"claimed", "checked"} /\ worker'.pc \in {"checked", "sending"}
        /\ worker'.item = worker.item /\ worker'.seen = worker.seen /\ Seen' = Seen
        /\ row' = row /\ active' = active /\ receipts' = receipts /\ delivery' = delivery
    BY <1>7, <1>t DEF Proceeds, Hands, Seen
  <2>2. QED  BY <2>1 DEF Claimed, Claiming, Holds, Kept, Carries, IsLive, CommandOf
<1>8. CASE Replies \/ (Admits /\ UNCHANGED store) \/ (Overrules /\ UNCHANGED store)
  <2>1. PICK found \in {"ok", "retry", "failed", "error", "steerRefused"} :
          worker.pc = "sending" /\ Answered(found)
    BY <1>8 DEF Replies, Admits, Overrules
  <2>2. /\ worker'.pc = "sent" /\ worker'.item = worker.item /\ worker'.found = found
        /\ worker'.seen = worker.seen /\ Seen' = Seen
    BY <2>1, <1>t DEF Answered, Seen
  <2>3. row' = row  BY <1>8 DEF Replies, store
  <2>4. worker.item \in Item /\ Seen \in Command  BY <2>1 DEF Claimed
  <2>5. found = "ok" => delivery'[Seen].state # "none"
    <3>1. CASE Replies
      <4>1. found = "ok" => receipts[Seen] = "accepted"
        BY <2>2, <3>1, <1>t DEF Replies, Answered
      <4>2. QED  BY <2>4, <3>1, <4>1 DEF Replies, Deliveries
    <3>2. CASE Admits
      BY <2>4, <3>2, OutboxTypes DEF Admits
    <3>3. CASE Overrules
      BY <2>2, <3>3, <1>t DEF Overrules, Answered
    <3>4. QED  BY <1>8, <3>1, <3>2, <3>3
  <2>6. found = "retry" => receipts' = receipts
    BY <1>8, <2>2, <1>t DEF Replies, Admits, Overrules, Answered
  <2>7. QED
    BY <2>1, <2>2, <2>3, <2>4, <2>5, <2>6 DEF Claimed, Claiming, Holds, Kept
<1>9. QED  BY <1>1, <1>2, <1>3, <1>4, <1>5, <1>6, <1>7, <1>8, WorkerSteps DEF WorkerStepKinds

------------------------------------------------------------------------------
(* Messages: outcomes, and requests between two transactions.                   *)

Outcomes == [of : Command, state : Terminal \cup {"abandoned"}]

\* Deliveries are not forgotten, and two of their states are final.
LEMMA Lasting ==
  ASSUME TypeOK, Deliveries, Claimed, [Next]_vars, NEW c \in Command
  PROVE  /\ delivery[c].state # "none" => delivery'[c].state # "none"
         /\ delivery[c].state \in {"accepted", "abandoned"} => delivery'[c].state = delivery[c].state
<1>1. CASE Moves  BY <1>1 DEF Moves, Goes
<1>2. CASE Admits
  <2>1. Seen \in Command /\ delivery[Seen].state \in {"none", "rejected"}
    BY <1>2, Sendable DEF Admits
  <2>2. QED  BY <1>2, <2>1, OutboxTypes DEF Admits
<1>3. CASE Overrules  BY <1>3 DEF Overrules
<1>4. QED  BY <1>1, <1>2, <1>3, OutboxSteps

Publishes(o) == /\ outcomes' = Append(outcomes, o) /\ handler' = handler
                /\ delivery'[o.of].state # "none"
                /\ o.state = "accepted" => delivery'[o.of].state = "accepted"
Consumes     == outcomes # <<>> /\ outcomes' = Tail(outcomes) /\ handler'.pc = "idle"
Handles      == /\ outcomes # <<>> /\ outcomes' = outcomes /\ handler'.of = Head(outcomes).of
Continues    == outcomes' = outcomes /\ handler.pc # "idle" /\ handler'.of = handler.of
Republishes  == /\ handler'.pc = "idle" /\ delivery' = delivery /\ outcomes' \in Seq(Outcomes)
                /\ \A n \in 1 .. Len(outcomes') :
                     /\ delivery[outcomes'[n].of].state # "none"
                     /\ outcomes'[n].state = "accepted" => delivery[outcomes'[n].of].state = "accepted"

Handlers == [pc : {"idle", "retire", "fallback", "fail", "pause", "reconcile", "lift", "done"},
             of : Command \cup {NoCommand}]

OutcomeStep ==
  \/ outcomes' = outcomes /\ handler' = handler
  \/ \E o \in Outcomes : Publishes(o)
  \/ Consumes \/ Handles \/ Continues \/ Republishes

\* There are finitely many commands.
LEMMA CommandsFinite == IsFiniteSet(Command)
<1>1. IsFiniteSet(Item) /\ MaxCommands \in Nat
  BY ItemAssumption, BoundAssumption
<1>2. IsFiniteSet(1 .. MaxCommands)  BY <1>1, FS_Interval
<1>3. QED  BY <1>1, <1>2, FS_Product DEF Command

\* After a crash outcomes of settled deliveries are published again.
LEMMA CrashRepublishes ==
  ASSUME TypeOK, CrashAndRestart
  PROVE  Republishes
<1> DEFINE again == {c \in Command \ projected : delivery[c].state \in Terminal}
           S == {[of |-> c, state |-> delivery[c].state] : c \in again}
<1>1. outcomes' \in SetToSeqs(S) /\ handler'.pc = "idle" /\ delivery' = delivery
  BY DEF CrashAndRestart, outbox
<1>2. IsFiniteSet(again)  BY CommandsFinite, FS_Subset
<1>3. IsFiniteSet(S)
  <2> DEFINE f == [c \in again |-> [of |-> c, state |-> delivery[c].state]]
  <2>1. f \in Surjection(again, S)  BY DEF Surjection
  <2>2. QED  BY <1>2, <2>1, FS_Surjection
<1>4. \A o \in S : /\ o \in Outcomes /\ delivery[o.of].state # "none"
                   /\ o.state = "accepted" => delivery[o.of].state = "accepted"
  BY DEF Outcomes, Terminal
<1> HIDE DEF S
<1>5. Cardinality(S) \in Nat  BY <1>3, FS_CardinalityType
<1>6. outcomes' \in [1 .. Cardinality(S) -> S]  BY <1>1 DEF SetToSeqs
<1>7. outcomes' \in Seq(S)  BY <1>5, <1>6
<1>8. \A n \in 1 .. Len(outcomes') : outcomes'[n] \in S  BY <1>7
<1>9. outcomes' \in Seq(Outcomes)
  <2>1. S \subseteq Outcomes  BY <1>4
  <2>2. outcomes' \in [1 .. Cardinality(S) -> Outcomes]  BY <1>6, <2>1
  <2>3. QED  BY <1>5, <2>2
<1>10. QED  BY <1>1, <1>4, <1>8, <1>9 DEF Republishes

\* Every step does one of these to the published outcomes.
LEMMA OutcomeSteps ==
  ASSUME TypeOK, Messages, [Next]_vars
  PROVE  OutcomeStep
<1>t. delivery \in [Command -> [state : {"none", "pending", "abandoned"} \cup Terminal,
                                kind : {"start", "steer"}]]
  BY OutboxTypes
<1>q. incoming' = incoming /\ handler' = handler => OutcomeStep  BY DEF incoming, OutcomeStep
<1>h. \A pc : HandlerTo(pc) => handler'.of = handler.of
  <2>1. handler \in Handlers  BY DEF TypeOK, Handlers
  <2>2. QED  BY <2>1 DEF HandlerTo, Handlers
<1>1. CASE Writes
  <2>1. ASSUME NEW i \in Item,
               \/ Submits(i) \/ Edit(i) \/ SoftDelete(i) \/ Restore(i) \/ SetSteer(i)
               \/ (\E promote \in BOOLEAN : Reorder(i, promote)) \/ Reclaim(i) \/ AnswerQueued(i)
        PROVE  OutcomeStep
    BY <1>q, <2>1 DEF Submits, Submit, Edit, SoftDelete, Restore, SetSteer, Reorder, Reclaim, AnswerQueued,
                     Changes, memory
  <2>2. Clear \/ RouteSettlesRow => OutcomeStep  BY <1>q DEF Clear, RouteSettlesRow, Changes, RouteOnly
  <2>3. Look \/ Recover \/ Claim \/ Recheck \/ SettleDispatch => OutcomeStep
    BY <1>q DEF Look, Recover, Claim, Recheck, SettleDispatch, WorkerOnly
  <2>4. HandleOutcome => OutcomeStep
    BY DEF HandleOutcome, HandlerOnly, OutcomeStep, Handles, incoming
  <2>5. HandlerRejects \/ HandlerReconciles => OutcomeStep
    BY <1>h DEF HandlerRejects, HandlerReconciles, HandlerOnly, OutcomeStep, Continues, incoming
  <2>6. QED  BY <1>1, <2>1, <2>2, <2>3, <2>4, <2>5 DEF Writes
<1>2. CASE Sends
  <2>1. ASSUME NEW c \in Command, Delivers(c)
        PROVE  OutcomeStep
    <3>1. PICK result \in Terminal :
            /\ delivery' = [delivery EXCEPT ![c].state = result]
            /\ outcomes' = Append(outcomes, [of |-> c, state |-> result])
            /\ handler' = handler
      BY <2>1 DEF Delivers, Deliver, Environment, memory
    <3>2. [of |-> c, state |-> result] \in Outcomes  BY DEF Outcomes
    <3>3. delivery'[c].state = result  BY <1>t, <3>1
    <3>4. QED  BY <3>1, <3>2, <3>3 DEF OutcomeStep, Publishes, Terminal
  <2>2. ASSUME NEW c \in Command, RecheckDelivery(c)
        PROVE  OutcomeStep
    <3>1. /\ delivery' = [delivery EXCEPT ![c].state = "accepted"]
          /\ outcomes' = Append(outcomes, [of |-> c, state |-> "accepted"])
          /\ handler' = handler
      BY <2>2 DEF RecheckDelivery, Environment, memory
    <3>2. [of |-> c, state |-> "accepted"] \in Outcomes  BY DEF Outcomes, Terminal
    <3>3. delivery'[c].state = "accepted"  BY <1>t, <3>1
    <3>4. QED  BY <3>1, <3>2, <3>3 DEF OutcomeStep, Publishes
  <2>3. ASSUME NEW c \in Command, RetryDelivery(c) \/ DiscardDelivery(c)
        PROVE  OutcomeStep
    BY <1>q, <2>3 DEF RetryDelivery, DiscardDelivery
  <2>4. Acknowledge => OutcomeStep
    BY DEF Acknowledge, OutcomeStep, Consumes, Messages
  <2>5. TurnStarts \/ TurnEnds => OutcomeStep
    BY <1>q DEF TurnStarts, TurnEnds, Environment, memory
  <2>6. (\E outcome \in {"ok", "error"} : EngineCommits(outcome)) \/ EngineFails => OutcomeStep
    BY <1>q DEF EngineCommits, EngineFails, Answers
  <2>7. QED  BY <1>2, <2>1, <2>2, <2>3, <2>4, <2>5, <2>6 DEF Sends, EngineAccepts
<1>3. CASE Rest
  <2>1. ASSUME NEW c \in Command, Replay(c)
        PROVE  OutcomeStep
    <3>1. /\ delivery' = delivery /\ delivery[c].state \in Terminal
          /\ outcomes' = Append(outcomes, [of |-> c, state |-> delivery[c].state])
          /\ handler' = handler
      BY <2>1 DEF Replay, Environment, memory, outbox
    <3>2. [of |-> c, state |-> delivery[c].state] \in Outcomes  BY <3>1 DEF Outcomes
    <3>3. QED  BY <3>1, <3>2 DEF OutcomeStep, Publishes, Terminal
  <2>2. (\E reason \in {"manual", "none"} : PauseRequest(reason)) => OutcomeStep
    BY <1>q DEF PauseRequest, Changes
  <2>3. Interrupt \/ ReactToInterrupt => OutcomeStep
    BY DEF Interrupt, ReactToInterrupt, memory, OutcomeStep
  <2>4. WorkerLifts \/ Pick \/ HoldForDelivery \/ GateWaits \/ AutoPause \/ GateOpens => OutcomeStep
    BY <1>q DEF WorkerLifts, Pick, HoldForDelivery, GateWaits, AutoPause, GateOpens, WorkerOnly
  <2>5. GatePauses \/ EngineReplays \/ EngineDeclines \/ RouteSettlesPause => OutcomeStep
    BY <1>q DEF GatePauses, EngineReplays, EngineDeclines, Answers, RouteSettlesPause, RouteOnly
  <2>6. CrashAndRestart => OutcomeStep  BY CrashRepublishes DEF OutcomeStep
  <2>7. HandOver => OutcomeStep  BY <1>q DEF HandOver, WorkerOnly
  <2>8. HandlerPauses => OutcomeStep
    BY <1>h DEF HandlerPauses, HandlerOnly, OutcomeStep, Continues, incoming
  <2>9. QED  BY <1>3, <2>1, <2>2, <2>3, <2>4, <2>5, <2>6, <2>7, <2>8 DEF Rest
<1>4. CASE Retires
  <2>1. ASSUME NEW c \in Command, NEW claimed \in BOOLEAN, RetireScheduled(c, claimed)
        PROVE  OutcomeStep
    <3>1. handler' = handler /\ delivery' = [delivery EXCEPT ![c].state = "abandoned"]
      BY <2>1 DEF RetireScheduled, memory
    <3>2. delivery'[c].state = "abandoned"  BY <1>t, <3>1
    <3>3. [of |-> c, state |-> "abandoned"] \in Outcomes  BY DEF Outcomes
    <3>4. outcomes' \in {outcomes, Append(outcomes, [of |-> c, state |-> "abandoned"])}
      BY <2>1 DEF RetireScheduled
    <3>5. QED  BY <3>1, <3>2, <3>3, <3>4 DEF OutcomeStep, Publishes
  <2>2. RetireContinuation => OutcomeStep
    BY <1>h DEF RetireContinuation, HandlerOnly, OutcomeStep, Continues, incoming
  <2>3. QED  BY <1>4, <2>1, <2>2 DEF Retires
<1>5. CASE UNCHANGED vars
  BY <1>5, <1>q DEF vars, memory
<1>6. QED  BY <1>1, <1>2, <1>3, <1>4, <1>5, Kinds

\* Every step keeps outcomes about admitted commands.
LEMMA OutcomesStep ==
  ASSUME TypeOK, Deliveries, Claimed, Messages, [Next]_vars
  PROVE  /\ outcomes' \in Seq(Outcomes)
         /\ \A n \in 1 .. Len(outcomes') :
              /\ delivery'[outcomes'[n].of].state # "none"
              /\ outcomes'[n].state = "accepted" => delivery'[outcomes'[n].of].state = "accepted"
         /\ handler'.pc # "idle" =>
              outcomes' # <<>> /\ handler'.of \in Command /\ delivery'[handler'.of].state # "none"
<1>t. outcomes \in Seq(Outcomes)  BY DEF TypeOK, Outcomes
<1>n. \A n \in 1 .. Len(outcomes) : outcomes[n] \in Outcomes  BY <1>t
<1>e. \A n \in 1 .. Len(outcomes) : outcomes[n] \in Outcomes /\ outcomes[n].of \in Command
  BY <1>n DEF Outcomes
<1>l. \A n \in 1 .. Len(outcomes) :
        /\ delivery'[outcomes[n].of].state # "none"
        /\ outcomes[n].state = "accepted" => delivery'[outcomes[n].of].state = "accepted"
  BY <1>e, Lasting DEF Messages
<1>h. handler.pc # "idle" =>
        outcomes # <<>> /\ handler.of \in Command /\ delivery'[handler.of].state # "none"
  BY Lasting DEF Messages
<1>1. CASE outcomes' = outcomes /\ handler' = handler
  BY <1>1, <1>t, <1>l, <1>h
<1>2. CASE \E o \in Outcomes : Publishes(o)
  <2>1. PICK o \in Outcomes : Publishes(o)  BY <1>2
  <2>2. /\ outcomes' \in Seq(Outcomes) /\ Len(outcomes') = Len(outcomes) + 1 /\ Len(outcomes) \in Nat
        /\ \A n \in 1 .. Len(outcomes') : outcomes'[n] = IF n <= Len(outcomes) THEN outcomes[n] ELSE o
    BY <1>t, <2>1 DEF Publishes
  <2>3. ASSUME NEW n \in 1 .. Len(outcomes')
        PROVE  /\ delivery'[outcomes'[n].of].state # "none"
               /\ outcomes'[n].state = "accepted" => delivery'[outcomes'[n].of].state = "accepted"
    <3>1. CASE n \in 1 .. Len(outcomes)  BY <1>l, <2>2, <3>1
    <3>2. CASE n \notin 1 .. Len(outcomes)  BY <2>1, <2>2, <3>2 DEF Publishes
    <3>3. QED  BY <3>1, <3>2
  <2>4. outcomes' # <<>>  BY <2>2
  <2>5. handler' = handler  BY <2>1 DEF Publishes
  <2>6. QED  BY <1>h, <2>2, <2>3, <2>4, <2>5
<1>3. CASE Consumes
  <2>1. /\ outcomes' \in Seq(Outcomes) /\ Len(outcomes') = Len(outcomes) - 1 /\ Len(outcomes) \in Nat
        /\ \A n \in 1 .. Len(outcomes') : outcomes'[n] = outcomes[n + 1]
    BY <1>t, <1>3 DEF Consumes
  <2>2. \A n \in 1 .. Len(outcomes') : n + 1 \in 1 .. Len(outcomes)  BY <2>1
  <2>3. QED  BY <1>3, <1>l, <2>1, <2>2 DEF Consumes
<1>4. CASE Handles
  <2>1. outcomes # <<>> /\ outcomes' = outcomes /\ handler'.of = outcomes[1] .of /\ 1 \in 1 .. Len(outcomes)
    BY <1>t, <1>4 DEF Handles
  <2>2. QED  BY <1>t, <1>e, <1>l, <2>1
<1>5. CASE Republishes
  BY <1>5 DEF Republishes
<1>6. CASE Continues
  BY <1>6, <1>t, <1>l, <1>h DEF Continues
<1>7. QED  BY <1>1, <1>2, <1>3, <1>4, <1>5, <1>6, OutcomeSteps DEF OutcomeStep

\* Every step keeps requests between their transactions about admitted commands.
LEMMA RouteStepOK ==
  ASSUME TypeOK, Deliveries, Claimed, Messages, [Next]_vars
  PROVE  /\ route'.pc \in {"retried", "discarded"} => route'.of \in Command
         /\ route'.pc = "retried" => delivery'[route'.of].state # "none"
         /\ route'.pc = "discarded" => delivery'[route'.of].state = "abandoned"
<1>t. /\ delivery \in [Command -> [state : {"none", "pending", "abandoned"} \cup Terminal,
                                   kind : {"start", "steer"}]]
      /\ route \in [pc : {"none", "retried", "unpausing", "discarded", "holding", "promoting"},
                    of : Command \cup {NoCommand}]
  BY OutboxTypes DEF TypeOK
<1>s. CASE route' = route
  BY <1>s, Lasting DEF Messages
<1>o. CASE route'.pc \notin {"retried", "discarded"}
  BY <1>o
<1>1. CASE Writes
  <2>1. ASSUME NEW i \in Item,
               \/ Submits(i) \/ Edit(i) \/ SoftDelete(i) \/ Restore(i) \/ SetSteer(i)
               \/ Reclaim(i) \/ AnswerQueued(i)
        PROVE  route' = route
    BY <2>1 DEF Submits, Submit, Edit, SoftDelete, Restore, SetSteer, Reclaim, AnswerQueued, memory
  <2>2. ASSUME NEW i \in Item, NEW promote \in BOOLEAN, Reorder(i, promote)
        PROVE  route' = route \/ route'.pc = "promoting"
    BY <1>t, <2>2 DEF Reorder
  <2>3. Clear \/ HandleOutcome \/ HandlerRejects \/ HandlerReconciles => route' = route
    BY DEF Clear, HandleOutcome, HandlerRejects, HandlerReconciles, HandlerOnly
  <2>4. Look \/ Recover \/ Claim \/ Recheck \/ SettleDispatch => route' = route
    BY DEF Look, Recover, Claim, Recheck, SettleDispatch, WorkerOnly
  <2>5. RouteSettlesRow => route'.pc \in {"unpausing", "holding"}
    BY <1>t DEF RouteSettlesRow, RouteTo
  <2>6. QED  BY <1>1, <1>s, <1>o, <2>1, <2>2, <2>3, <2>4, <2>5 DEF Writes
<1>2. CASE Sends
  <2>1. ASSUME NEW c \in Command, Delivers(c) \/ RecheckDelivery(c)
        PROVE  route' = route
    BY <2>1 DEF Delivers, Deliver, RecheckDelivery, Environment, memory
  <2>2. ASSUME NEW c \in Command, RetryDelivery(c)
        PROVE  route'.pc = "retried" /\ route'.of = c /\ delivery'[c].state = "pending"
    BY <1>t, <2>2 DEF RetryDelivery
  <2>3. ASSUME NEW c \in Command, DiscardDelivery(c)
        PROVE  route'.pc = "discarded" /\ route'.of = c /\ delivery'[c].state = "abandoned"
    BY <1>t, <2>3 DEF DiscardDelivery
  <2>4. Acknowledge \/ TurnStarts \/ TurnEnds => route' = route
    BY DEF Acknowledge, TurnStarts, TurnEnds, Environment, memory
  <2>5. (\E outcome \in {"ok", "error"} : EngineCommits(outcome)) \/ EngineFails => route' = route
    BY DEF EngineCommits, EngineFails, Answers
  <2>6. QED  BY <1>2, <1>s, <2>1, <2>2, <2>3, <2>4, <2>5 DEF Sends, EngineAccepts
<1>3. CASE Rest
  <2>1. (\E c \in Command : Replay(c)) \/ (\E reason \in {"manual", "none"} : PauseRequest(reason))
          => route' = route
    BY DEF Replay, PauseRequest, Environment, memory
  <2>2. Interrupt \/ ReactToInterrupt \/ EngineReplays \/ EngineDeclines => route' = route
    BY DEF Interrupt, ReactToInterrupt, EngineReplays, EngineDeclines, Answers, memory
  <2>3. WorkerLifts \/ Pick \/ HoldForDelivery \/ GateWaits \/ GatePauses \/ AutoPause \/ GateOpens
          => route' = route
    BY DEF WorkerLifts, Pick, HoldForDelivery, GateWaits, GatePauses, AutoPause, GateOpens, WorkerOnly
  <2>4. RouteSettlesPause \/ CrashAndRestart => route'.pc = "none"
    BY DEF RouteSettlesPause, RouteEnds, CrashAndRestart
  <2>5. HandOver \/ HandlerPauses => route' = route
    BY DEF HandOver, WorkerOnly, HandlerPauses, HandlerOnly
  <2>6. QED  BY <1>3, <1>s, <1>o, <2>1, <2>2, <2>3, <2>4, <2>5 DEF Rest
<1>4. CASE Retires
  <2>1. ASSUME NEW c \in Command, NEW claimed \in BOOLEAN, RetireScheduled(c, claimed)
        PROVE  route' = route
    BY <2>1 DEF RetireScheduled, memory
  <2>2. RetireContinuation => route' = route  BY DEF RetireContinuation, HandlerOnly
  <2>3. QED  BY <1>4, <1>s, <2>1, <2>2 DEF Retires
<1>5. CASE UNCHANGED vars
  BY <1>5, <1>s DEF vars, memory
<1>6. QED  BY <1>1, <1>2, <1>3, <1>4, <1>5, Kinds

\* Every step keeps Messages.
LEMMA MessagesStep ==
  ASSUME TypeOK, Deliveries, Claimed, Messages, [Next]_vars
  PROVE  Messages'
BY OutcomesStep, RouteStepOK DEF Messages

------------------------------------------------------------------------------
(* Pauses.                                                                      *)

\* The parts of a sequence that is not empty.
LEMMA HeadAndTail ==
  ASSUME NEW S, NEW s \in Seq(S), s # <<>>
  PROVE  Head(s) \in S /\ Tail(s) \in Seq(S)
OBVIOUS

\* An interrupt that is newer than the last message of the user.
Interrupts == /\ Pausing("interrupted") /\ lastSend < heldBy' /\ heldBy' \in 0 .. MaxInterrupts
              /\ lastSend' = lastSend
Resumes    == /\ \/ Pausing("none") /\ heldBy' = 0
                 \/ paused \notin {"manual", "interrupted"} /\ UNCHANGED <<paused, heldBy, inHand, slipped>>
              /\ lastSend' = clock

HoldStep ==
  \/ UNCHANGED hold /\ (worker'.pc = "checked" => worker.pc = "checked" \/ paused = "none")
  \/ /\ worker'.pc = "checked" => worker.pc = "checked"
     /\ \/ \E reason \in {"none", "manual", "delivery", "gate"} : SetPaused(reason)
        \/ Interrupts \/ Resumes
  \/ HandOver

\* The worker gets past its last look at the pause only while nothing pauses the queue.
LEMMA StaysChecked ==
  ASSUME TypeOK, Deliveries, [Next]_vars
  PROVE  worker'.pc = "checked" => worker.pc = "checked" \/ (paused = "none" /\ UNCHANGED hold)
<1>t. worker \in Workers  BY DEF TypeOK, Workers
<1>1. Waits \/ Rests \/ Picks => (worker'.pc = "checked" => worker.pc = "checked")
  BY DEF Waits, Rests, Resting, Picks
<1>2. TurnsAway \/ Opens \/ Takes \/ Hands => worker'.pc # "checked"
  BY <1>t DEF TurnsAway, Opens, Takes, Hands, Workers
<1>3. Replies \/ Admits \/ Overrules => worker'.pc # "checked"
  BY <1>t DEF Replies, Admits, Overrules, Answered, Workers
<1>4. QED  BY <1>1, <1>2, <1>3, WorkerSteps DEF WorkerStepKinds, Proceeds

\* Of the steps that write the rows only a submission touches the pause.
LEMMA WritesHold ==
  ASSUME Writes
  PROVE  UNCHANGED hold \/ (worker' = worker /\ Resumes)
<1>1. ASSUME NEW i \in Item, Submits(i)
      PROVE  UNCHANGED hold \/ (worker' = worker /\ Resumes)
  <2>1. PICK intent \in IntentsOf[i] : Submit(i, intent)  BY <1>1 DEF Submits
  <2>2. worker' = worker  BY <2>1 DEF Submit
  <2>3. CASE intent = "auto" /\ paused \in {"manual", "interrupted"}
    BY <2>1, <2>2, <2>3 DEF Submit, Resumes
  <2>4. CASE intent = "auto" /\ paused \notin {"manual", "interrupted"}
    BY <2>1, <2>2, <2>4 DEF Submit, Resumes
  <2>5. CASE intent # "auto"
    BY <2>1, <2>5 DEF Submit, hold
  <2>6. QED  BY <2>3, <2>4, <2>5
<1>2. ASSUME NEW i \in Item,
             \/ Edit(i) \/ SoftDelete(i) \/ Restore(i) \/ SetSteer(i)
             \/ (\E promote \in BOOLEAN : Reorder(i, promote)) \/ Reclaim(i) \/ AnswerQueued(i)
      PROVE  UNCHANGED hold
  BY <1>2 DEF Edit, SoftDelete, Restore, SetSteer, Reorder, Reclaim, AnswerQueued
<1>3. Clear \/ Look \/ Recover \/ Claim \/ Recheck \/ SettleDispatch => UNCHANGED hold
  BY DEF Clear, Look, Recover, Claim, Recheck, SettleDispatch
<1>4. HandleOutcome \/ HandlerRejects \/ HandlerReconciles \/ RouteSettlesRow => UNCHANGED hold
  BY DEF HandleOutcome, HandlerRejects, HandlerReconciles, RouteSettlesRow
<1>5. QED  BY <1>1, <1>2, <1>3, <1>4 DEF Writes

\* The steps that write the outbox leave the pause alone.
LEMMA SendsHold ==
  ASSUME Sends \/ Retires
  PROVE  UNCHANGED hold
<1>1. CASE \E c \in Command : Delivers(c) \/ RecheckDelivery(c) \/ RetryDelivery(c) \/ DiscardDelivery(c)
  BY <1>1 DEF Delivers, Deliver, RecheckDelivery, RetryDelivery, DiscardDelivery, Environment
<1>2. CASE TurnStarts \/ TurnEnds \/ Acknowledge
  BY <1>2 DEF TurnStarts, TurnEnds, Acknowledge, Environment
<1>3. CASE (\E outcome \in {"ok", "error"} : EngineCommits(outcome)) \/ EngineFails
  BY <1>3 DEF EngineCommits, EngineFails, Answers
<1>4. CASE Retires
  BY <1>4 DEF Retires, RetireContinuation, RetireScheduled
<1>5. QED  BY <1>1, <1>2, <1>3, <1>4 DEF Sends, EngineAccepts

Repauses == UNCHANGED hold \/ \E reason \in {"none", "manual", "delivery", "gate"} : SetPaused(reason)

\* Lifting a pause sets it or leaves it.
LEMMA LiftRepauses == ASSUME NEW actor, Lift(actor) PROVE Repauses
BY DEF Lift, Repauses

\* What the rest do to the pause.
LEMMA RestHold ==
  ASSUME TypeOK, Rest
  PROVE  Repauses \/ (worker' = worker /\ Interrupts) \/ HandOver
<1>1. CASE (\E c \in Command : Replay(c)) \/ (\E reason \in {"manual", "none"} : PauseRequest(reason))
  BY <1>1 DEF Replay, Environment, PauseRequest, Repauses
<1>2. CASE Interrupt \/ EngineReplays \/ EngineDeclines \/ Pick \/ GateWaits \/ GatePauses \/ GateOpens
  BY <1>2 DEF Interrupt, EngineReplays, EngineDeclines, Pick, GateWaits, GatePauses, GateOpens, Answers, Repauses
<1>3. CASE WorkerLifts
  BY <1>3, LiftRepauses DEF WorkerLifts
<1>4. CASE HoldForDelivery \/ AutoPause
  BY <1>4 DEF HoldForDelivery, AutoPause, Repauses
<1>5. CASE RouteSettlesPause
  BY <1>5 DEF RouteSettlesPause, Repauses
<1>6. CASE CrashAndRestart
  BY <1>6 DEF CrashAndRestart, Repauses
<1>7. CASE ReactToInterrupt
  <2>1. CASE InterruptHolds(Head(stream))
    <3>1. Head(stream) \in 0 .. MaxInterrupts
      <4>1. stream \in Seq(1 .. MaxInterrupts) /\ stream # <<>>  BY <1>7 DEF TypeOK, ReactToInterrupt
      <4>2. Head(stream) \in 1 .. MaxInterrupts  BY <4>1, HeadAndTail
      <4>3. QED  BY <4>2, BoundAssumption
    <3>2. QED  BY <1>7, <2>1, <3>1 DEF ReactToInterrupt, InterruptHolds, Interrupts
  <2>2. CASE ~InterruptHolds(Head(stream))
    BY <1>7, <2>2 DEF ReactToInterrupt, Repauses
  <2>3. QED  BY <2>1, <2>2
<1>8. CASE HandlerPauses
  BY <1>8, LiftRepauses DEF HandlerPauses, Repauses
<1>9. QED  BY <1>1, <1>2, <1>3, <1>4, <1>5, <1>6, <1>7, <1>8 DEF Rest

\* Every step is one of these to the pause.
LEMMA HoldSteps ==
  ASSUME TypeOK, Deliveries, [Next]_vars
  PROVE  HoldStep
<1>1. Repauses \/ (worker' = worker /\ (Interrupts \/ Resumes)) \/ HandOver
  <2>1. UNCHANGED vars => Repauses  BY DEF vars, Repauses
  <2>2. QED  BY <2>1, Kinds, WritesHold, SendsHold, RestHold DEF Repauses
<1>2. CASE HandOver  BY <1>2 DEF HoldStep
<1>3. CASE worker' = worker /\ (Interrupts \/ Resumes)  BY <1>3 DEF HoldStep
<1>4. CASE UNCHANGED hold  BY <1>4, StaysChecked DEF HoldStep
<1>5. CASE ~UNCHANGED hold /\ Repauses  BY <1>5, StaysChecked DEF HoldStep, Repauses
<1>6. QED  BY <1>1, <1>2, <1>3, <1>4, <1>5

\* A new reason keeps the account of what the pause has let go.
LEMMA PausingFacts ==
  ASSUME inHand \in BOOLEAN, slipped \in Nat, NEW reason, Pausing(reason)
  PROVE  /\ paused' = reason /\ inHand' \in BOOLEAN /\ slipped' \in Nat
         /\ reason = "none" => slipped' = 0 /\ ~inHand'
         /\ reason # "none" /\ paused = "none" => slipped' = 0 /\ (inHand' <=> worker.pc = "checked")
         /\ reason # "none" /\ paused # "none" => slipped' = slipped /\ (inHand' <=> inHand)
<1>1. CASE reason = "none"  BY <1>1 DEF Pausing
<1>2. CASE reason # "none" /\ paused = "none"  BY <1>2 DEF Pausing
<1>3. CASE reason # "none" /\ paused # "none"  BY <1>3 DEF Pausing
<1>4. QED  BY <1>1, <1>2, <1>3

\* Every step keeps the types of the pause.
LEMMA HoldTyped ==
  ASSUME TypeOK, Deliveries, [Next]_vars
  PROVE  /\ paused' \in {"none", "manual", "interrupted", "delivery", "gate"}
         /\ lastSend' \in 0 .. MaxInterrupts /\ heldBy' \in 0 .. MaxInterrupts
         /\ inHand' \in BOOLEAN /\ slipped' \in Nat
<1>t. /\ paused \in {"none", "manual", "interrupted", "delivery", "gate"}
      /\ inHand \in BOOLEAN /\ slipped \in Nat
      /\ lastSend \in 0 .. MaxInterrupts /\ heldBy \in 0 .. MaxInterrupts /\ clock \in 0 .. MaxInterrupts
  BY DEF TypeOK
<1>z. 0 \in 0 .. MaxInterrupts  BY BoundAssumption
<1>1. CASE UNCHANGED hold  BY <1>1, <1>t DEF hold
<1>2. CASE \E reason \in {"none", "manual", "delivery", "gate"} : SetPaused(reason)
  BY <1>2, <1>t, <1>z, PausingFacts DEF SetPaused
<1>3. CASE Interrupts  BY <1>3, <1>t, PausingFacts DEF Interrupts
<1>4. CASE Resumes  BY <1>4, <1>t, <1>z, PausingFacts DEF Resumes
<1>5. CASE HandOver
  <2>1. slipped' = slipped \/ slipped' = slipped + 1  BY <1>5, <1>t DEF HandOver
  <2>2. UNCHANGED <<paused, lastSend, heldBy, inHand>>  BY <1>5 DEF HandOver
  <2>3. QED  BY <1>t, <2>1, <2>2
<1>6. QED  BY <1>1, <1>2, <1>3, <1>4, <1>5, HoldSteps DEF HoldStep

\* A new reason keeps what a pause means.
LEMMA PausingKeeps ==
  ASSUME TypeOK, Pauses, NEW reason, Pausing(reason), worker'.pc = "checked" => worker.pc = "checked",
         reason = "interrupted" => heldBy' > lastSend'
  PROVE  Pauses'
<1>t. inHand \in BOOLEAN /\ slipped \in Nat  BY DEF TypeOK
<1>1. CASE reason = "none"  BY <1>t, <1>1, PausingFacts DEF Pauses
<1>2. CASE reason # "none" /\ paused = "none"  BY <1>t, <1>2, PausingFacts DEF Pauses
<1>3. CASE reason # "none" /\ paused # "none"  BY <1>t, <1>3, PausingFacts DEF Pauses
<1>4. QED  BY <1>1, <1>2, <1>3

\* Every step keeps what a pause means.
LEMMA PausesStep ==
  ASSUME TypeOK, Deliveries, Pauses, [Next]_vars
  PROVE  Pauses'
<1>t. /\ lastSend \in 0 .. MaxInterrupts /\ heldBy \in 0 .. MaxInterrupts /\ clock \in 0 .. MaxInterrupts
      /\ inHand \in BOOLEAN /\ slipped \in Nat /\ worker \in Workers
  BY DEF TypeOK, Workers
<1>1. CASE UNCHANGED hold /\ (worker'.pc = "checked" => worker.pc = "checked" \/ paused = "none")
  BY <1>1 DEF Pauses, hold
<1>2. CASE /\ worker'.pc = "checked" => worker.pc = "checked"
           /\ \E reason \in {"none", "manual", "delivery", "gate"} : SetPaused(reason)
  BY <1>2, PausingKeeps DEF SetPaused
<1>3. CASE (worker'.pc = "checked" => worker.pc = "checked") /\ Interrupts
  <2>1. heldBy' > lastSend'  BY <1>3, <1>t DEF Interrupts
  <2>2. QED  BY <1>3, <2>1, PausingKeeps DEF Interrupts
<1>4. CASE (worker'.pc = "checked" => worker.pc = "checked") /\ Resumes
  <2>1. CASE Pausing("none")  BY <1>4, <2>1, PausingKeeps
  <2>2. CASE paused \notin {"manual", "interrupted"} /\ UNCHANGED <<paused, heldBy, inHand, slipped>>
    BY <1>4, <2>2 DEF Pauses
  <2>3. QED  BY <1>4, <2>1, <2>2 DEF Resumes
<1>5. CASE HandOver
  <2>1. /\ worker.pc = "checked" /\ worker'.pc = "sending"
        /\ paused' = paused /\ lastSend' = lastSend /\ heldBy' = heldBy /\ inHand' = inHand
        /\ slipped' = slipped + (IF paused = "none" THEN 0 ELSE 1)
    BY <1>5, <1>t DEF HandOver, GoTo, Workers
  <2>2. CASE paused = "none"
    <3>1. slipped' = slipped  BY <1>t, <2>1, <2>2
    <3>2. QED  BY <2>1, <2>2, <3>1 DEF Pauses
  <2>3. CASE paused # "none"
    <3>1. slipped = 0 /\ inHand  BY <2>1, <2>3 DEF Pauses
    <3>2. slipped' = 1  BY <2>1, <2>3, <3>1
    <3>3. QED  BY <2>1, <2>3, <3>1, <3>2 DEF Pauses
  <2>4. QED  BY <2>2, <2>3
<1>6. QED  BY <1>1, <1>2, <1>3, <1>4, <1>5, HoldSteps DEF HoldStep

------------------------------------------------------------------------------
(* The types of the store.                                                      *)

Dispositions == {"none", "pending", "queued", "started", "canceled", "cleared"}

\* The fields of a row.
LEMMA RowTypes ==
  ASSUME NEW r \in Row
  PROVE  /\ r.state \in {"none", "live", "deleted", "gone"} /\ r.attempt \in Nat
         /\ r.command \in 0 .. MaxCommands /\ Requeued(r) \in Row
         /\ \A c \in {"none", "steer_queued", "delivery", "other"} : [r EXCEPT !.code = c] \in Row
BY DEF Row, Requeued

\* The three ways the order of the queue changes with its rows.
Ordering ==
  \/ ahead' = ahead /\ Open' = Open
  \/ \E S \in SUBSET Item : ahead' = Without(S) /\ Open' = Open \ S
  \/ \E i \in Item : ahead' \in {ToHead(i), ToTail(i)} /\ Open' = Open \cup {i}

Stored == row' \in [Item -> Row] /\ ledger' \in [Item -> Dispositions] /\ Ordering

\* Each of the three keeps a strict total order of the rows in the queue.
LEMMA OrderKept ==
  ASSUME Orders(ahead, Open), Ordering
  PROVE  Orders(ahead', Open')
<1>o. /\ ahead \subseteq Open \X Open
      /\ \A i, j \in Open : <<i, j>> \in ahead <=> i # j /\ <<j, i>> \notin ahead
      /\ \A i, j, k \in Open : <<i, j>> \in ahead /\ <<j, k>> \in ahead => <<i, k>> \in ahead
  BY DEF Orders
<1>w. ASSUME NEW S
      PROVE  Orders(Without(S), Open \ S)
  <2>1. \A i, j : <<i, j>> \in Without(S) <=> <<i, j>> \in ahead /\ i \notin S /\ j \notin S
    BY DEF Without
  <2>2. Without(S) \subseteq (Open \ S) \X (Open \ S)
    <3>1. ASSUME NEW p \in Without(S)
          PROVE  p \in (Open \ S) \X (Open \ S)
      BY <1>o, <3>1 DEF Without
    <3>2. QED  BY <3>1
  <2>3. QED  BY <1>o, <2>1, <2>2 DEF Orders
<1>a. ASSUME NEW i \in Item, NEW r, r \in {ToHead(i), ToTail(i)}
      PROVE  Orders(r, Open \cup {i})
  <2> DEFINE W == Without({i})   O == Open \ {i}
  <2>1. Orders(W, O)  BY <1>w
  <2>2. r = W \cup ({i} \X O) \/ r = W \cup (O \X {i})  BY <1>a DEF ToHead, ToTail
  <2> HIDE DEF W, O
  <2>3. /\ W \subseteq O \X O
        /\ \A j, k \in O : <<j, k>> \in W <=> j # k /\ <<k, j>> \notin W
        /\ \A j, k, l \in O : <<j, k>> \in W /\ <<k, l>> \in W => <<j, l>> \in W
    BY <2>1 DEF Orders
  <2>4. i \notin O /\ Open \cup {i} = O \cup {i}  BY DEF O
  <2>5. CASE r = W \cup ({i} \X O)
    <3>1. \A j, k : <<j, k>> \in r <=> <<j, k>> \in W \/ (j = i /\ k \in O)  BY <2>5
    <3>2. r \subseteq (O \cup {i}) \X (O \cup {i})  BY <2>3, <2>5
    <3>3. \A j, k : <<j, k>> \in W => j \in O /\ k \in O  BY <2>3
    <3>4. \A j, k \in O \cup {i} : <<j, k>> \in r <=> j # k /\ <<k, j>> \notin r
      BY <2>3, <2>4, <3>1, <3>3
    <3>5. \A j, k, l \in O \cup {i} : <<j, k>> \in r /\ <<k, l>> \in r => <<j, l>> \in r
      BY <2>3, <2>4, <3>1, <3>3
    <3>6. QED  BY <2>4, <3>2, <3>4, <3>5 DEF Orders
  <2>6. CASE r = W \cup (O \X {i})
    <3>1. \A j, k : <<j, k>> \in r <=> <<j, k>> \in W \/ (j \in O /\ k = i)  BY <2>6
    <3>2. r \subseteq (O \cup {i}) \X (O \cup {i})  BY <2>3, <2>6
    <3>3. \A j, k : <<j, k>> \in W => j \in O /\ k \in O  BY <2>3
    <3>4. \A j, k \in O \cup {i} : <<j, k>> \in r <=> j # k /\ <<k, j>> \notin r
      BY <2>3, <2>4, <3>1, <3>3
    <3>5. \A j, k, l \in O \cup {i} : <<j, k>> \in r /\ <<k, l>> \in r => <<j, l>> \in r
      BY <2>3, <2>4, <3>1, <3>3
    <3>6. QED  BY <2>4, <3>2, <3>4, <3>5 DEF Orders
  <2>7. QED  BY <2>2, <2>5, <2>6
<1>1. CASE ahead' = ahead /\ Open' = Open  BY <1>1
<1>2. CASE \E S \in SUBSET Item : ahead' = Without(S) /\ Open' = Open \ S
  BY <1>2, <1>w
<1>3. CASE \E i \in Item : ahead' \in {ToHead(i), ToTail(i)} /\ Open' = Open \cup {i}
  BY <1>3, <1>a
<1>4. QED  BY <1>1, <1>2, <1>3 DEF Ordering

\* One row is written.
LEMMA OneRow ==
  ASSUME row \in [Item -> Row], NEW i \in Item, NEW r \in Row, row' = [row EXCEPT ![i] = r]
  PROVE  /\ row' \in [Item -> Row]
         /\ r.state = "live" => Open' = Open \cup {i}
         /\ r.state # "live" => Open' = Open \ {i}
         /\ r.state = row[i].state => Open' = Open
<1>1. \A j \in Item : row'[j] = IF j = i THEN r ELSE row[j]  OBVIOUS
<1>2. Open' = {j \in Item : row'[j].state = "live"}  BY DEF Open, IsLive
<1>3. QED  BY <1>1, <1>2 DEF Open, IsLive

\* Every row is written, and none leaves or enters the queue.
LEMMA AllRows ==
  ASSUME row' \in [Item -> Row], \A j \in Item : row'[j].state = row[j].state
  PROVE  Open' = Open
BY DEF Open, IsLive

\* One account is written.
LEMMA OneAccount ==
  ASSUME ledger \in [Item -> Dispositions], NEW i, NEW d \in Dispositions, ledger' = [ledger EXCEPT ![i] = d]
  PROVE  ledger' \in [Item -> Dispositions]
OBVIOUS

\* The types of the store.
LEMMA StoreTypes ==
  ASSUME TypeOK
  PROVE  row \in [Item -> Row] /\ ledger \in [Item -> Dispositions] /\ Orders(ahead, Open)
BY DEF TypeOK, Dispositions, Open, IsLive

\* What requests of the user, a reclaimed lease and an answer do to the store.
LEMMA UserStores ==
  ASSUME TypeOK, NEW i \in Item,
         \/ Submits(i) \/ Edit(i) \/ SoftDelete(i) \/ Restore(i) \/ SetSteer(i)
         \/ (\E promote \in BOOLEAN : Reorder(i, promote)) \/ Reclaim(i) \/ AnswerQueued(i)
  PROVE  Stored
<1> USE StoreTypes
<1>r. row[i] \in Row  OBVIOUS
<1>q. ahead' = ahead /\ Open' = Open => Ordering  BY DEF Ordering
<1>a. ahead' \in {ToHead(i), ToTail(i)} /\ Open' = Open \cup {i} => Ordering  BY DEF Ordering
<1>1. CASE Submits(i)
  <2>0. PICK intent \in IntentsOf[i] : Submit(i, intent)  BY <1>1 DEF Submits
  <2> DEFINE r == [NoRow EXCEPT !.state = "live", !.command = 1, !.steer = (intent = "steer"),
                                !.source = IF intent \in {"continuation", "scheduled"} THEN intent ELSE "user"]
  <2>1. r \in Row /\ r.state = "live"
    <3>1. 1 \in 0 .. MaxCommands  BY BoundAssumption
    <3>2. QED  BY <3>1, NoRowTyped DEF Row, NoRow
  <2>2. row' = [row EXCEPT ![i] = r] /\ ahead' \in {ToHead(i), ToTail(i)} /\ ledger' = [ledger EXCEPT ![i] = "pending"]
    BY <2>0 DEF Submit
  <2> HIDE DEF r
  <2>3. row' \in [Item -> Row] /\ Open' = Open \cup {i}  BY <2>1, <2>2, OneRow
  <2>4. QED  BY <1>a, <2>2, <2>3 DEF Stored, Dispositions
<1>2. CASE Edit(i)
  <2> DEFINE r == [Requeued(row[i]) EXCEPT !.command = row[i].command + 1, !.attempt = 0, !.code = "none"]
  <2>1. r \in Row /\ r.state = row[i].state
    <3>1. row[i].command + 1 \in 0 .. MaxCommands
      <4>1. row[i].command < MaxCommands /\ row[i].command \in 0 .. MaxCommands
        BY <1>2, <1>r DEF Edit, Row
      <4>2. MaxCommands \in Nat  BY BoundAssumption
      <4>3. QED  BY <4>1, <4>2
    <3>2. QED  BY <1>r, <3>1 DEF Row, Requeued
  <2>2. row' = [row EXCEPT ![i] = r] /\ ahead' = ahead /\ ledger' = ledger  BY <1>2 DEF Edit
  <2> HIDE DEF r
  <2>3. row' \in [Item -> Row] /\ Open' = Open  BY <2>1, <2>2, OneRow
  <2>4. QED  BY <1>q, <2>2, <2>3 DEF Stored
<1>3. CASE SoftDelete(i)
  <2> DEFINE r == [row[i] EXCEPT !.state = "deleted"]
  <2>1. r \in Row /\ r.state # "live"  BY <1>r DEF Row
  <2>2. row' = [row EXCEPT ![i] = r] /\ ahead' = Without({i}) /\ ledger' = [ledger EXCEPT ![i] = "canceled"]
    BY <1>3 DEF SoftDelete
  <2> HIDE DEF r
  <2>3. row' \in [Item -> Row] /\ Open' = Open \ {i}  BY <2>1, <2>2, OneRow
  <2>4. Ordering  BY <2>2, <2>3 DEF Ordering
  <2>5. QED  BY <2>2, <2>3, <2>4 DEF Stored, Dispositions
<1>4. CASE Restore(i)
  <2> DEFINE r == [row[i] EXCEPT !.state = "live", !.status = "queued", !.code = "none"]
  <2>1. r \in Row /\ r.state = "live"  BY <1>r DEF Row
  <2>2. row' = [row EXCEPT ![i] = r] /\ ahead' = ToTail(i) /\ ledger' = [ledger EXCEPT ![i] = "queued"]
    BY <1>4 DEF Restore
  <2> HIDE DEF r
  <2>3. row' \in [Item -> Row] /\ Open' = Open \cup {i}  BY <2>1, <2>2, OneRow
  <2>4. QED  BY <1>a, <2>2, <2>3 DEF Stored, Dispositions
<1>5. CASE SetSteer(i)
  <2> DEFINE r == [row[i] EXCEPT !.steer = TRUE]
  <2>1. r \in Row /\ r.state = "live"  BY <1>r, <1>5 DEF Row, SetSteer, IsLive
  <2>2. row' = [row EXCEPT ![i] = r] /\ ahead' = ToHead(i) /\ ledger' = ledger  BY <1>5 DEF SetSteer
  <2> HIDE DEF r
  <2>3. row' \in [Item -> Row] /\ Open' = Open \cup {i}  BY <2>1, <2>2, OneRow
  <2>4. QED  BY <1>a, <2>2, <2>3 DEF Stored
<1>6. CASE \E promote \in BOOLEAN : Reorder(i, promote)
  <2>1. row' = row /\ ahead' = ToHead(i) /\ ledger' = ledger /\ IsLive(i)  BY <1>6 DEF Reorder
  <2>2. Open' = Open \cup {i}  BY <2>1 DEF Open, IsLive
  <2>3. QED  BY <1>a, <2>1, <2>2 DEF Stored
<1>7. CASE Reclaim(i)
  <2>1. Requeued(row[i]) \in Row /\ Requeued(row[i]).state = row[i].state  BY <1>r DEF Row, Requeued
  <2>2. row' = [row EXCEPT ![i] = Requeued(row[i])] /\ ahead' = ahead /\ ledger' = ledger
    BY <1>7 DEF Reclaim
  <2>3. row' \in [Item -> Row] /\ Open' = Open  BY <2>1, <2>2, OneRow
  <2>4. QED  BY <1>q, <2>2, <2>3 DEF Stored
<1>8. CASE AnswerQueued(i)
  <2>1. row' = row /\ ahead' = ahead /\ ledger' = [ledger EXCEPT ![i] = "queued"]
    BY <1>8 DEF AnswerQueued
  <2>2. Open' = Open  BY <2>1 DEF Open, IsLive
  <2>3. QED  BY <1>q, <2>1, <2>2 DEF Stored, Dispositions
<1>9. QED  BY <1>1, <1>2, <1>3, <1>4, <1>5, <1>6, <1>7, <1>8

\* Clear takes its rows out of the order.
LEMMA ClearStores ==
  ASSUME TypeOK, Clear
  PROVE  Stored
<1>1. PICK scope \in {Open, {j \in Open : row[j].status = "failed"}} :
        /\ row' = [j \in Item |-> IF j \in scope THEN [row[j] EXCEPT !.state = "deleted"] ELSE row[j]]
        /\ ahead' = Without(scope)
        /\ ledger' = [j \in Item |-> IF j \in scope THEN "cleared" ELSE ledger[j]]
  BY DEF Clear
<1>2. \A j \in Item : [row[j] EXCEPT !.state = "deleted"] \in Row  BY StoreTypes DEF Row
<1>3. row' \in [Item -> Row]  BY <1>1, <1>2, StoreTypes
<1>4. Open' = Open \ scope
  <2>1. \A j \in Item : row'[j].state = "live" <=> row[j].state = "live" /\ j \notin scope
    <3>1. \A j \in Item : [row[j] EXCEPT !.state = "deleted"].state = "deleted"  BY StoreTypes DEF Row
    <3>2. QED  BY <1>1, <3>1
  <2>2. QED  BY <2>1 DEF Open, IsLive
<1>5. scope \in SUBSET Item  BY <1>1 DEF Open
<1>6. Ordering  BY <1>1, <1>4, <1>5 DEF Ordering
<1>7. ledger' \in [Item -> Dispositions]  BY <1>1, StoreTypes DEF Dispositions
<1>8. QED  BY <1>3, <1>6, <1>7 DEF Stored

\* Closing takes the completed and the deleted rows out of the order.
LEMMA ClosingStores ==
  ASSUME TypeOK, NEW done \in SUBSET Open, NEW dropped \in SUBSET Open, Closing(done, dropped)
  PROVE  Stored
<1> DEFINE lost == {j \in dropped \ done : row[j].status = "failed"}
<1>1. row' = [j \in Item |-> IF j \in done THEN [NoRow EXCEPT !.state = "gone"]
                             ELSE IF j \in lost THEN [row[j] EXCEPT !.state = "deleted"] ELSE row[j]]
  BY DEF Closing
<1>2. ahead' = Without(done \cup lost)  BY DEF Closing
<1>3. ledger' \in [Item -> Dispositions]  BY StoreTypes DEF Closing, Dispositions
<1>4. done \cup lost \in SUBSET Item  BY DEF Open
<1> HIDE DEF lost
<1>5. /\ [NoRow EXCEPT !.state = "gone"] \in Row /\ [NoRow EXCEPT !.state = "gone"].state = "gone"
      /\ \A j \in Item : /\ [row[j] EXCEPT !.state = "deleted"] \in Row
                         /\ [row[j] EXCEPT !.state = "deleted"].state = "deleted"
  BY NoRowTyped, StoreTypes DEF Row
<1>6. row' \in [Item -> Row]  BY <1>1, <1>5, StoreTypes
<1>7. Open' = Open \ (done \cup lost)
  <2>1. \A j \in Item : row'[j].state = "live" <=> row[j].state = "live" /\ j \notin done \cup lost
    BY <1>1, <1>5
  <2>2. QED  BY <2>1 DEF Open, IsLive
<1>8. Ordering  BY <1>2, <1>4, <1>7 DEF Ordering
<1>9. QED  BY <1>3, <1>6, <1>8 DEF Stored

\* Reconciling the pause closes rows in the queue.
LEMMA ReconcileStores ==
  ASSUME TypeOK, Reconcile
  PROVE  Stored
<1>1. Closing(ResolvedRows("accepted"), ResolvedRows("abandoned"))  BY DEF Reconcile
<1>2. ResolvedRows("accepted") \in SUBSET Open /\ ResolvedRows("abandoned") \in SUBSET Open
  BY ResolvedFacts DEF Open
<1>3. QED  BY <1>1, <1>2, ClosingStores

\* Marking a row leaves the order alone.
LEMMA CarriedStores ==
  ASSUME TypeOK, NEW c, MarkDeliveryFailed(c) \/ RetryRow(c), UNCHANGED <<ahead, ledger>>
  PROVE  Stored
<1>1. \A j \in Item : row[j] \in Row  BY StoreTypes
<1>2. row' \in [Item -> Row] /\ \A j \in Item : row'[j].state = row[j].state
  <2>1. CASE MarkDeliveryFailed(c)  BY <1>1, <2>1, ZenonT(60) DEF MarkDeliveryFailed, Row
  <2>2. CASE RetryRow(c)  BY <1>1, <2>2, ZenonT(60) DEF RetryRow, Row
  <2>3. QED  BY <2>1, <2>2
<1>3. Open' = Open  BY <1>2, AllRows
<1>4. QED  BY <1>2, <1>3, StoreTypes DEF Stored, Ordering

\* A steer that falls back goes to the head.
LEMMA FallbackStores ==
  ASSUME TypeOK, NEW c, FallbackSteer(c), ledger' = ledger
  PROVE  Stored
<1>1. CASE UNCHANGED <<row, ahead>>
  BY <1>1, StoreTypes DEF Stored, Ordering, Open, IsLive
<1>2. CASE ~UNCHANGED <<row, ahead>>
  <2>1. PICK j \in SteersOf(c) :
          /\ row' = [row EXCEPT ![j] = [Requeued(row[j]) EXCEPT !.steer = FALSE, !.code = "steer_queued"]]
          /\ ahead' = ToHead(j)
    BY <1>2 DEF FallbackSteer
  <2>2. j \in Item /\ IsLive(j)  BY CarrierFacts DEF SteersOf
  <2> DEFINE r == [Requeued(row[j]) EXCEPT !.steer = FALSE, !.code = "steer_queued"]
  <2>3. r \in Row /\ r.state = "live"  BY <2>2, StoreTypes DEF Row, Requeued, IsLive
  <2>4. row' = [row EXCEPT ![j] = r]  BY <2>1
  <2> HIDE DEF r
  <2>5. row' \in [Item -> Row] /\ Open' = Open \cup {j}  BY <2>2, <2>3, <2>4, OneRow, StoreTypes
  <2>6. QED  BY <2>1, <2>2, <2>5, StoreTypes DEF Stored, Ordering
<1>3. QED  BY <1>1, <1>2

\* A claim that is given back had used an attempt.
LEMMA ReleasedTyped ==
  ASSUME TypeOK, Claimed, worker.pc \in {"claimed", "sent"}, NEW consume \in BOOLEAN
  PROVE  /\ Released(row[worker.item], consume) \in Row
         /\ Released(row[worker.item], consume).state = row[worker.item].state
<1> DEFINE r == row[worker.item]
<1>1. r \in Row  BY StoreTypes DEF Claimed
<1>2. Holds(worker.item) => r.attempt > 0
  BY DEF Claimed, Claiming
<1>3. Holds(worker.item) => (IF consume THEN r.attempt ELSE r.attempt - 1) \in Nat
  <2>1. r.attempt \in Nat  BY <1>1 DEF Row
  <2> HIDE DEF r
  <2>2. CASE Holds(worker.item)
    <3>1. r.attempt - 1 \in Nat  BY <1>2, <2>1, <2>2
    <3>2. QED  BY <2>1, <3>1
  <2>3. QED  BY <2>2
<1>4. QED  BY <1>1, <1>3, ZenonT(60) DEF Released, Requeued, Row, Holds

\* What the worker does to the store.
LEMMA WorkerStores ==
  ASSUME TypeOK, Claimed, Look \/ Recover \/ Claim \/ Recheck \/ SettleDispatch
  PROVE  Stored
<1> USE StoreTypes
<1>q. UNCHANGED store => Stored  BY DEF Stored, Ordering, Open, IsLive, store
<1>1. CASE Look
  <2>1. CASE Reconcile
    BY <2>1, ReconcileStores
  <2>2. CASE UNCHANGED store  BY <2>2, <1>q
  <2>3. QED  BY <1>1, <2>1, <2>2 DEF Look
<1>2. CASE Recover
  <2>1. CASE Closing(CarriersOf({Seen}), {})
    <3>1. CarriersOf({Seen}) \in SUBSET Open /\ {} \in SUBSET Open  BY DEF CarriersOf
    <3>2. QED  BY <2>1, <3>1, ClosingStores
  <2>2. CASE (MarkDeliveryFailed(Seen) \/ RetryRow(Seen)) /\ UNCHANGED <<ahead, ledger>>
    BY <2>2, CarriedStores
  <2>3. QED  BY <1>2, <2>1, <2>2 DEF Recover
<1>3. CASE Claim
  <2>1. CASE Claims(worker.item)
    <3> DEFINE r == [row[worker.item] EXCEPT !.status = "dispatching", !.owner = "worker",
                                             !.attempt = row[worker.item].attempt + 1]
    <3>1. worker.item \in Item  BY <1>3 DEF Claim, Claimed
    <3>2. r \in Row /\ r.state = row[worker.item].state
      <4>1. row[worker.item] \in Row  BY <3>1
      <4>2. row[worker.item].attempt \in Nat  BY <4>1 DEF Row
      <4>3. row[worker.item].attempt + 1 \in Nat  BY <4>2
      <4>4. QED  BY <4>1, <4>3 DEF Row
    <3>3. row' = [row EXCEPT ![worker.item] = r] /\ UNCHANGED <<ahead, ledger>>
      BY <1>3, <2>1, <3>1 DEF Claim
    <3> HIDE DEF r
    <3>4. row' \in [Item -> Row] /\ Open' = Open  BY <3>1, <3>2, <3>3, OneRow
    <3>5. QED  BY <3>3, <3>4 DEF Stored, Ordering
  <2>2. CASE ~Claims(worker.item)
    BY <1>3, <2>2, <1>q DEF Claim, store
  <2>3. QED  BY <2>1, <2>2
<1>4. CASE Recheck
  <2>1. CASE PausedMeanwhile
    <3> DEFINE r == Released(row[worker.item], FALSE)
    <3>1. worker.item \in Item  BY <1>4 DEF Recheck, Claimed
    <3>2. r \in Row /\ r.state = row[worker.item].state  BY <1>4, ReleasedTyped DEF Recheck
    <3>3. row' = [row EXCEPT ![worker.item] = r] /\ UNCHANGED <<ahead, ledger>>
      BY <1>4, <2>1 DEF Recheck
    <3> HIDE DEF r
    <3>4. row' \in [Item -> Row] /\ Open' = Open  BY <3>1, <3>2, <3>3, OneRow
    <3>5. QED  BY <3>3, <3>4 DEF Stored, Ordering
  <2>2. CASE ~PausedMeanwhile
    BY <1>4, <2>2, <1>q DEF Recheck, store
  <2>3. QED  BY <2>1, <2>2
<1>5. CASE SettleDispatch
  <2>0. worker.pc = "sent" /\ worker.item \in Item /\ row[worker.item] \in Row  BY <1>5 DEF SettleDispatch, Claimed
  <2>1. CASE worker.found = "ok"
    <3> DEFINE mine == row[worker.item].status = "dispatching" /\ row[worker.item].owner = "worker"
               r == [row[worker.item] EXCEPT !.owner = IF mine THEN "delivery" ELSE row[worker.item].owner]
               d == IF IsLive(worker.item) /\ ledger[worker.item] \in Unsettled THEN "started" ELSE ledger[worker.item]
    <3>1. r \in Row /\ r.state = row[worker.item].state /\ d \in Dispositions
      BY <2>0 DEF Row, Dispositions
    <3>2. row' = [row EXCEPT ![worker.item] = r] /\ ahead' = ahead /\ ledger' = [ledger EXCEPT ![worker.item] = d]
      BY <1>5, <2>1, <2>0 DEF SettleDispatch
    <3> HIDE DEF r, d
    <3>3. row' \in [Item -> Row] /\ Open' = Open  BY <2>0, <3>1, <3>2, OneRow
    <3>4. ledger' \in [Item -> Dispositions]  BY <3>1, <3>2
    <3>5. QED  BY <3>2, <3>3, <3>4 DEF Stored, Ordering
  <2>2. CASE worker.found = "steerRefused"
    BY <1>5, <2>2, FallbackStores DEF SettleDispatch
  <2>3. CASE worker.found \notin {"ok", "steerRefused"}
    <3> DEFINE mine == row[worker.item].status = "dispatching" /\ row[worker.item].owner = "worker"
               failed == [row[worker.item] EXCEPT !.status = "failed", !.owner = "none", !.code = "other"]
               given == Released(row[worker.item], worker.found = "error")
               r == IF worker.found = "failed" \/ (worker.found = "error" /\ Exhausted(worker.seen))
                    THEN IF mine THEN failed ELSE row[worker.item]
                    ELSE given
    <3>1. failed \in Row /\ failed.state = row[worker.item].state  BY <2>0 DEF Row
    <3>2. given \in Row /\ given.state = row[worker.item].state  BY <2>0, ReleasedTyped
    <3>3. row' = [row EXCEPT ![worker.item] = r] /\ UNCHANGED <<ahead, ledger>>
      BY <1>5, <2>3 DEF SettleDispatch
    <3> HIDE DEF failed, given, mine
    <3>4. r \in Row /\ r.state = row[worker.item].state  BY <2>0, <3>1, <3>2
    <3> HIDE DEF r
    <3>5. row' \in [Item -> Row] /\ Open' = Open  BY <2>0, <3>3, <3>4, OneRow
    <3>6. QED  BY <3>3, <3>5 DEF Stored, Ordering
  <2>4. QED  BY <2>1, <2>2, <2>3
<1>6. QED  BY <1>1, <1>2, <1>3, <1>4, <1>5

\* What a delivery outcome and a resolving request do to the store.
LEMMA OutcomeStores ==
  ASSUME TypeOK, HandleOutcome \/ HandlerRejects \/ HandlerReconciles \/ RouteSettlesRow
  PROVE  Stored
<1>c. ASSUME NEW c, Completes(c) \/ Closing({}, CarriersOf({c}))
      PROVE  Stored
  <2>1. {} \in SUBSET Open /\ CarriersOf({c}) \in SUBSET Open  BY DEF CarriersOf
  <2>2. QED  BY <1>c, <2>1, ClosingStores DEF Completes
<1>f. ASSUME NEW c, Fails(c)
      PROVE  Stored
  BY <1>f, CarriedStores DEF Fails
<1>1. CASE HandleOutcome
  <2>1. UNCHANGED store => Stored  BY StoreTypes DEF Stored, Ordering, Open, IsLive, store
  <2>2. QED  BY <1>1, <1>c, <1>f, <2>1 DEF HandleOutcome
<1>2. CASE HandlerRejects
  <2>1. CASE FallbackSteer(handler.of) /\ UNCHANGED ledger  BY <2>1, FallbackStores
  <2>2. QED  BY <1>2, <1>f, <2>1 DEF HandlerRejects
<1>3. CASE HandlerReconciles
  BY <1>3, ReconcileStores DEF HandlerReconciles
<1>4. CASE RouteSettlesRow
  <2>1. CASE RetryRow(route.of) /\ UNCHANGED <<ahead, ledger>>  BY <2>1, CarriedStores
  <2>2. QED  BY <1>4, <1>c, <2>1 DEF RouteSettlesRow
<1>5. QED  BY <1>1, <1>2, <1>3, <1>4

\* What retires a delivery takes the deleted rows out of the order.
LEMMA RetiredStores ==
  ASSUME TypeOK, Retires
  PROVE  Stored
<1> USE StoreTypes
<1>1. CASE RetireContinuation
  <2> DEFINE lost == CarriersOf({handler.of})
             left(r) == [r EXCEPT !.state = "deleted", !.status = "failed", !.owner = "none", !.code = "delivery"]
  <2>1. CASE delivery[handler.of].state = "rejected"
    <3>1. /\ row' = [j \in Item |-> IF j \in lost THEN left(row[j]) ELSE row[j]]
          /\ ahead' = Without(lost)
          /\ ledger' = [j \in Item |-> IF j \in lost /\ ledger[j] # "started" THEN "canceled" ELSE ledger[j]]
      BY <1>1, <2>1 DEF RetireContinuation
    <3>2. \A j \in Item : left(row[j]) \in Row /\ left(row[j]).state = "deleted"
      <4>1. \A r \in Row : left(r) \in Row /\ left(r).state = "deleted"  BY ZenonT(60) DEF Row
      <4>2. QED  BY <4>1
    <3>3. lost \in SUBSET Item  BY DEF CarriersOf, Open
    <3> HIDE DEF lost, left
    <3>4. row' \in [Item -> Row] /\ ledger' \in [Item -> Dispositions]  BY <3>1, <3>2 DEF Dispositions
    <3>5. Open' = Open \ lost
      <4>1. \A j \in Item : row'[j].state = "live" <=> row[j].state = "live" /\ j \notin lost
        BY <3>1, <3>2
      <4>2. QED  BY <4>1 DEF Open, IsLive
    <3>6. QED  BY <3>1, <3>3, <3>4, <3>5 DEF Stored, Ordering
  <2>2. CASE delivery[handler.of].state # "rejected"
    BY <1>1, <2>2 DEF RetireContinuation, Stored, Ordering, Open, IsLive, store
  <2>3. QED  BY <2>1, <2>2
<1>2. ASSUME NEW c \in Command, NEW claimed \in BOOLEAN, RetireScheduled(c, claimed)
      PROVE  Stored
  <2> DEFINE i == c[1]
             r == [row[i] EXCEPT !.state = "deleted", !.owner = "none"]
             d == IF ledger[i] \in {"pending", "queued"} THEN "canceled" ELSE ledger[i]
  <2>0. i \in Item  BY CommandPairs
  <2>1. r \in Row /\ r.state = "deleted" /\ d \in Dispositions
    <3>1. row[i] \in Row /\ ledger[i] \in Dispositions  BY <2>0
    <3> HIDE DEF i
    <3>2. r \in Row /\ r.state = "deleted"  BY <3>1 DEF Row
    <3>3. d \in Dispositions  BY <3>1 DEF Dispositions
    <3>4. QED  BY <3>2, <3>3
  <2>2. row' = [row EXCEPT ![i] = r] /\ ahead' = Without({i}) /\ ledger' = [ledger EXCEPT ![i] = d]
    BY <1>2, <2>0 DEF RetireScheduled
  <2> HIDE DEF i, r, d
  <2>3. row' \in [Item -> Row] /\ Open' = Open \ {i}  BY <2>0, <2>1, <2>2, OneRow
  <2>4. ledger' \in [Item -> Dispositions]  BY <2>1, <2>2
  <2>5. QED  BY <2>0, <2>2, <2>3, <2>4 DEF Stored, Ordering
<1>3. QED  BY <1>1, <1>2 DEF Retires

\* Every step keeps the types of the store, the order included.
LEMMA StoreTyped ==
  ASSUME TypeOK, Claimed, [Next]_vars
  PROVE  /\ row' \in [Item -> Row] /\ Orders(ahead', {i \in Item : row'[i].state = "live"})
         /\ ledger' \in [Item -> {"none", "pending", "queued", "started", "canceled", "cleared"}]
<1>1. Stored
  <2>1. UNCHANGED store => Stored  BY StoreTypes DEF Stored, Ordering, Open, IsLive, store
  <2>2. Writes => Stored  BY UserStores, ClearStores, WorkerStores, OutcomeStores DEF Writes
  <2>3. QED  BY <2>1, <2>2, RetiredStores, Kinds, SendsQuiet, RestQuiet DEF vars
<1>2. Orders(ahead', Open')  BY <1>1, StoreTypes, OrderKept DEF Stored
<1>3. Open' = {i \in Item : row'[i].state = "live"}  BY DEF Open, IsLive
<1>4. QED  BY <1>1, <1>2, <1>3 DEF Stored, Dispositions

------------------------------------------------------------------------------
(* The types of everything else.                                                *)

OutboxTyped ==
  /\ receipts \in [Command -> {"none", "accepted", "rejected"}]
  /\ delivery \in [Command -> [state : {"none", "pending", "abandoned"} \cup Terminal,
                               kind : {"start", "steer"}]]
  /\ latest \in Command \cup {NoCommand} /\ projected \subseteq Command
  /\ turn \in [state : {"idle", "pending", "running"}, of : Command \cup {NoCommand}]
  /\ handed \in [Command -> Nat]

\* A blocking delivery has failed.
LEMMA BlockingCommand ==
  ASSUME TypeOK, NEW c \in Command, c \in BlockedBy(FailedRows)
  PROVE  delivery[c].state \in {"rejected", "ambiguous"}
BY DEF BlockedBy, Unresolved

\* What writes the outbox keeps its types.
LEMMA OutboxStep ==
  ASSUME TypeOK, Deliveries, Claimed, Messages, Sends \/ Retires
  PROVE  OutboxTyped'
<1>t. OutboxTyped  BY DEF TypeOK, OutboxTyped
<1>n. NoCommand \in Command \cup {NoCommand}  OBVIOUS
<1>d. ASSUME NEW c \in Command, NEW s \in {"none", "pending", "abandoned"} \cup Terminal
      PROVE  [delivery EXCEPT ![c].state = s]
               \in [Command -> [state : {"none", "pending", "abandoned"} \cup Terminal,
                                kind : {"start", "steer"}]]
  BY <1>t DEF OutboxTyped
<1>1. ASSUME NEW c \in Command, Delivers(c)
      PROVE  OutboxTyped'
  <2>1. PICK result \in Terminal : Deliver(c, result)  BY <1>1 DEF Delivers
  <2>2. handed' \in [Command -> Nat]
    <3>1. handed[c] + 1 \in Nat  BY <1>t DEF OutboxTyped
    <3>2. handed' = handed \/ handed' = [handed EXCEPT ![c] = handed[c] + 1]  BY <2>1 DEF Deliver
    <3>3. QED  BY <1>t, <3>1, <3>2 DEF OutboxTyped
  <2>3. turn' \in [state : {"idle", "pending", "running"}, of : Command \cup {NoCommand}]
    BY <1>t, <2>1 DEF Deliver, OutboxTyped
  <2>4. QED  BY <1>t, <1>d, <2>1, <2>2, <2>3 DEF Deliver, OutboxTyped
<1>2. ASSUME NEW c \in Command, RecheckDelivery(c)
      PROVE  OutboxTyped'
  BY <1>t, <1>d, <1>2 DEF RecheckDelivery, OutboxTyped, Terminal
<1>3. ASSUME NEW c \in Command, RetryDelivery(c)
      PROVE  OutboxTyped'
  <2>1. handed' \in [Command -> Nat]
    <3>1. CASE delivery[c].state = "ambiguous"
      <4>1. handed[c] = 1  BY <3>1 DEF Deliveries
      <4>2. handed' = [handed EXCEPT ![c] = 0]  BY <1>3, <3>1, <4>1 DEF RetryDelivery
      <4>3. QED  BY <1>t, <4>2 DEF OutboxTyped
    <3>2. CASE delivery[c].state # "ambiguous"
      BY <1>t, <1>3, <3>2 DEF RetryDelivery, OutboxTyped
    <3>3. QED  BY <3>1, <3>2
  <2>2. QED  BY <1>t, <1>d, <1>3, <2>1 DEF RetryDelivery, OutboxTyped
<1>4. ASSUME NEW c \in Command, DiscardDelivery(c)
      PROVE  OutboxTyped'
  <2>1. turn' \in [state : {"idle", "pending", "running"}, of : Command \cup {NoCommand}]
    BY <1>t, <1>4 DEF DiscardDelivery, OutboxTyped
  <2>2. QED  BY <1>t, <1>d, <1>4, <2>1 DEF DiscardDelivery, OutboxTyped
<1>5. CASE Acknowledge
  <2>1. handler.of \in Command  BY <1>5 DEF Acknowledge, Messages
  <2>2. projected' \subseteq Command  BY <1>t, <1>5, <2>1 DEF Acknowledge, OutboxTyped
  <2>3. QED  BY <1>t, <1>5, <2>2 DEF Acknowledge, OutboxTyped
<1>6. CASE TurnStarts \/ TurnEnds
  <2>1. turn' \in [state : {"idle", "pending", "running"}, of : Command \cup {NoCommand}]
    BY <1>t, <1>6 DEF TurnStarts, TurnEnds, OutboxTyped
  <2>2. QED  BY <1>t, <1>6, <2>1 DEF TurnStarts, TurnEnds, OutboxTyped
<1>7. ASSUME NEW outcome \in {"ok", "error"}, EngineCommits(outcome)
      PROVE  OutboxTyped'
  <2>1. Seen \in Command  BY <1>7 DEF EngineCommits, Claimed
  <2>2. receipts' \in [Command -> {"none", "accepted", "rejected"}]
    BY <1>t, <1>7 DEF EngineCommits, OutboxTyped
  <2>3. delivery' \in [Command -> [state : {"none", "pending", "abandoned"} \cup Terminal,
                                   kind : {"start", "steer"}]]
    BY <1>t, <1>7 DEF EngineCommits, OutboxTyped, Kind
  <2>4. latest' \in Command \cup {NoCommand} /\ projected' \subseteq Command
    BY <1>t, <1>7, <2>1 DEF EngineCommits, OutboxTyped
  <2>5. turn' \in [state : {"idle", "pending", "running"}, of : Command \cup {NoCommand}]
    BY <1>t, <1>7, <2>1 DEF EngineCommits, OutboxTyped
  <2>6. handed' = handed  BY <1>7 DEF EngineCommits
  <2>7. QED  BY <1>t, <2>2, <2>3, <2>4, <2>5, <2>6 DEF OutboxTyped
<1>8. CASE EngineFails
  <2>1. CASE UNCHANGED outbox  BY <1>t, <2>1 DEF OutboxTyped, outbox
  <2>2. CASE EngineCommits("error")  BY <1>7, <2>2
  <2>3. CASE /\ receipts' = [receipts EXCEPT ![Seen] = "rejected"]
             /\ UNCHANGED <<delivery, latest, projected, turn, handed>>
    BY <1>t, <2>3 DEF OutboxTyped
  <2>4. QED  BY <1>8, <2>1, <2>2, <2>3 DEF EngineFails
<1>9. CASE RetireContinuation
  <2>1. handler.of \in Command  BY <1>9 DEF RetireContinuation, Messages
  <2>2. CASE delivery[handler.of].state = "rejected"
    <3>1. /\ delivery' = [delivery EXCEPT ![handler.of].state = "abandoned"]
          /\ projected' = projected \cup {handler.of}
          /\ UNCHANGED <<receipts, latest, turn, handed>>
      BY <1>9, <2>2 DEF RetireContinuation
    <3>2. delivery' \in [Command -> [state : {"none", "pending", "abandoned"} \cup Terminal,
                                     kind : {"start", "steer"}]]
      BY <1>d, <2>1, <3>1
    <3>3. projected' \subseteq Command  BY <1>t, <2>1, <3>1 DEF OutboxTyped
    <3>4. QED  BY <1>t, <3>1, <3>2, <3>3 DEF OutboxTyped
  <2>3. CASE delivery[handler.of].state # "rejected"
    BY <1>t, <1>9, <2>3 DEF RetireContinuation, OutboxTyped
  <2>4. QED  BY <2>2, <2>3
<1>10. ASSUME NEW c \in Command, NEW claimed \in BOOLEAN, RetireScheduled(c, claimed)
       PROVE  OutboxTyped'
  <2>1. turn' \in [state : {"idle", "pending", "running"}, of : Command \cup {NoCommand}]
    BY <1>t, <1>10 DEF RetireScheduled, OutboxTyped
  <2>2. projected' \subseteq Command  BY <1>t, <1>10 DEF RetireScheduled, OutboxTyped
  <2>3. QED  BY <1>t, <1>d, <1>10, <2>1, <2>2 DEF RetireScheduled, OutboxTyped
<1>11. QED
  BY <1>1, <1>2, <1>3, <1>4, <1>5, <1>6, <1>7, <1>8, <1>9, <1>10 DEF Sends, Retires, EngineAccepts

\* Every step keeps the type of the worker.
LEMMA WorkerTyped ==
  ASSUME TypeOK, row' \in [Item -> Row], Deliveries, Claimed, [Next]_vars
  PROVE  worker' \in Workers
<1>t. worker \in Workers /\ row \in [Item -> Row]  BY DEF TypeOK, Workers
<1>1. Waits \/ Rests \/ Picks => worker' \in Workers
  BY <1>t DEF Waits, Rests, Picks, Workers, Found
<1>2. TurnsAway \/ Proceeds \/ Hands => worker' \in Workers
  BY <1>t DEF TurnsAway, Proceeds, Hands, Workers
<1>3. CASE Opens
  <2>1. Seen \in Command  BY <1>3 DEF Opens, Claimed
  <2>2. delivery[Seen].state \in Found  BY <2>1, OutboxTypes DEF Found
  <2>3. QED  BY <1>t, <1>3, <2>2 DEF Opens, Workers
<1>4. CASE Takes
  <2>1. worker.item \in Item  BY <1>4 DEF Takes, Claimed
  <2>2. row'[worker.item] \in Row  BY <2>1
  <2>3. QED  BY <1>t, <1>4, <2>2 DEF Takes, Workers
<1>5. CASE Replies \/ Admits \/ Overrules
  <2>1. \A found \in {"ok", "retry", "failed", "error", "steerRefused"} : Answered(found) => worker' \in Workers
    BY <1>t DEF Answered, Workers, Found
  <2>2. QED  BY <1>5, <2>1 DEF Replies, Admits, Overrules
<1>6. QED  BY <1>1, <1>2, <1>3, <1>4, <1>5, WorkerSteps DEF WorkerStepKinds

Readers  == {"worker", "handler"}
Routes   == [pc : {"none", "retried", "unpausing", "discarded", "holding", "promoting"},
             of : Command \cup {NoCommand}]
Remembers == active' \subseteq Item /\ current' \subseteq Readers /\ handler' \in Handlers /\ route' \in Routes

\* Lifting a pause leaves readers among the readings.
LEMMA LiftReaders == ASSUME current \subseteq Readers, NEW actor, Lift(actor) PROVE current' \subseteq Readers
BY DEF Lift, Bump

\* What the steps that write the rows keep in memory,
LEMMA WritesRemember ==
  ASSUME TypeOK, Claimed, Writes
  PROVE  Remembers
<1>t. active \subseteq Item /\ current \subseteq Readers /\ handler \in Handlers /\ route \in Routes
  BY DEF TypeOK, Readers, Handlers, Routes
<1>b. Bump \/ (\E S : BumpFor(S)) => current' \subseteq Readers  BY <1>t DEF Bump, BumpFor
<1>h. \A pc : HandlerTo(pc) /\ pc \in {"done", "pause", "lift", "reconcile"} => handler' \in Handlers
  BY <1>t DEF HandlerTo, Handlers
<1>1. ASSUME NEW i \in Item,
             \/ Submits(i) \/ Edit(i) \/ SoftDelete(i) \/ Restore(i) \/ SetSteer(i)
             \/ Reclaim(i) \/ AnswerQueued(i)
      PROVE  Remembers
  BY <1>1, <1>t, <1>b DEF Submits, Submit, Edit, SoftDelete, Restore, SetSteer, Reclaim, AnswerQueued, Changes,
                          memory, Remembers
<1>2. ASSUME NEW i \in Item, NEW promote \in BOOLEAN, Reorder(i, promote)
      PROVE  Remembers
  <2>1. route' \in Routes  BY <1>2, <1>t DEF Reorder, Routes
  <2>2. QED  BY <1>2, <1>t, <1>b, <2>1 DEF Reorder, Changes, Remembers
<1>3. CASE Clear  BY <1>3, <1>t, <1>b DEF Clear, Changes, Remembers
<1>4. CASE Look
  <2>1. current' \subseteq Readers  BY <1>4, <1>t DEF Look, PickFrom, Readers
  <2>2. QED  BY <1>4, <1>t, <2>1 DEF Look, WorkerOnly, Remembers
<1>5. CASE Recover \/ SettleDispatch
  BY <1>5, <1>t, <1>b DEF Recover, SettleDispatch, WorkerOnly, Remembers
<1>6. CASE Claim
  <2>1. worker.item \in Item  BY <1>6 DEF Claim, Claimed
  <2>2. active' \subseteq Item /\ current' \subseteq Readers  BY <1>6, <1>t, <1>b, <2>1 DEF Claim
  <2>3. QED  BY <1>6, <1>t, <2>2 DEF Claim, WorkerOnly, Remembers
<1>7. CASE Recheck
  <2>1. active' \subseteq Item /\ current' \subseteq Readers  BY <1>7, <1>t, <1>b DEF Recheck
  <2>2. QED  BY <1>7, <1>t, <2>1 DEF Recheck, WorkerOnly, Remembers
<1>8. CASE HandleOutcome
  <2>1. Head(outcomes).of \in Command
    <3>1. outcomes \in Seq(Outcomes) /\ outcomes # <<>>  BY <1>8 DEF HandleOutcome, TypeOK, Outcomes
    <3>2. Head(outcomes) \in Outcomes  BY <3>1, HeadAndTail
    <3>3. QED  BY <3>2 DEF Outcomes
  <2>2. handler' \in Handlers  BY <1>8, <2>1 DEF HandleOutcome, Handlers
  <2>3. current' \subseteq Readers  BY <1>8, <1>t, <1>b DEF HandleOutcome, Completes, Fails
  <2>4. QED  BY <1>8, <1>t, <2>2, <2>3 DEF HandleOutcome, HandlerOnly, Remembers
<1>9. CASE RouteSettlesRow
  <2>1. route' \in Routes  BY <1>9, <1>t DEF RouteSettlesRow, RouteTo, Routes
  <2>2. QED  BY <1>9, <1>t, <1>b, <2>1 DEF RouteSettlesRow, RouteOnly, Remembers
<1>10. CASE HandlerRejects
  <2>1. handler' \in Handlers /\ current' \subseteq Readers
    BY <1>10, <1>b, <1>h DEF HandlerRejects, Fails
  <2>2. QED  BY <1>10, <1>t, <2>1 DEF HandlerRejects, HandlerOnly, Remembers
<1>11. CASE HandlerReconciles
  <2>1. handler' \in Handlers  BY <1>11, <1>h DEF HandlerReconciles
  <2>2. current' \subseteq Readers  BY <1>11, <1>t DEF HandlerReconciles, Readers
  <2>3. QED  BY <1>11, <1>t, <2>1, <2>2 DEF HandlerReconciles, HandlerOnly, Remembers
<1>12. QED  BY <1>1, <1>2, <1>3, <1>4, <1>5, <1>6, <1>7, <1>8, <1>9, <1>10, <1>11 DEF Writes

\* what those that write the outbox keep there,
LEMMA SendsRemember ==
  ASSUME TypeOK, Sends \/ Retires
  PROVE  Remembers
<1>t. active \subseteq Item /\ current \subseteq Readers /\ handler \in Handlers /\ route \in Routes
  BY DEF TypeOK, Readers, Handlers, Routes
<1>1. ASSUME NEW c \in Command, Delivers(c) \/ RecheckDelivery(c)
      PROVE  Remembers
  BY <1>1, <1>t DEF Delivers, Deliver, RecheckDelivery, Environment, memory, Remembers
<1>2. ASSUME NEW c \in Command, RetryDelivery(c) \/ DiscardDelivery(c)
      PROVE  Remembers
  <2>1. route' \in Routes  BY <1>2 DEF RetryDelivery, DiscardDelivery, Routes
  <2>2. QED  BY <1>2, <1>t, <2>1 DEF RetryDelivery, DiscardDelivery, Remembers
<1>3. CASE Acknowledge
  <2>1. handler' \in Handlers  BY <1>3 DEF Acknowledge, Handlers
  <2>2. QED  BY <1>3, <1>t, <2>1 DEF Acknowledge, Remembers
<1>4. CASE TurnStarts \/ TurnEnds
  BY <1>4, <1>t DEF TurnStarts, TurnEnds, Environment, memory, Remembers
<1>5. CASE (\E outcome \in {"ok", "error"} : EngineCommits(outcome)) \/ EngineFails
  BY <1>5, <1>t DEF EngineCommits, EngineFails, Answers, Remembers
<1>6. CASE RetireContinuation
  <2>1. handler' \in Handlers  BY <1>6, <1>t DEF RetireContinuation, HandlerTo, Handlers
  <2>2. current' \subseteq Readers  BY <1>6, <1>t DEF RetireContinuation, BumpFor
  <2>3. QED  BY <1>6, <1>t, <2>1, <2>2 DEF RetireContinuation, HandlerOnly, Remembers
<1>7. ASSUME NEW c \in Command, NEW claimed \in BOOLEAN, RetireScheduled(c, claimed)
      PROVE  Remembers
  BY <1>7, <1>t DEF RetireScheduled, memory, Remembers
<1>8. QED  BY <1>1, <1>2, <1>3, <1>4, <1>5, <1>6, <1>7 DEF Sends, Retires, EngineAccepts

\* and what the rest keep there.
LEMMA RestRemember ==
  ASSUME TypeOK, Rest
  PROVE  Remembers
<1>t. active \subseteq Item /\ current \subseteq Readers /\ handler \in Handlers /\ route \in Routes
  BY DEF TypeOK, Readers, Handlers, Routes
<1>b. Bump => current' \subseteq Readers  BY DEF Bump
<1>n. [pc |-> "none", of |-> NoCommand] \in Routes /\ [pc |-> "idle", of |-> NoCommand] \in Handlers
  BY DEF Routes, Handlers
<1>1. CASE (\E c \in Command : Replay(c)) \/ (\E reason \in {"manual", "none"} : PauseRequest(reason))
  BY <1>1, <1>t, <1>b DEF Replay, Environment, memory, PauseRequest, Changes, Remembers
<1>2. CASE Interrupt \/ ReactToInterrupt
  BY <1>2, <1>t, <1>b DEF Interrupt, ReactToInterrupt, memory, Remembers
<1>3. CASE WorkerLifts
  BY <1>3, <1>t, LiftReaders DEF WorkerLifts, WorkerOnly, Remembers
<1>4. CASE Pick
  <2>1. current' \subseteq Readers  BY <1>4, <1>t DEF Pick, PickFrom, Readers
  <2>2. QED  BY <1>4, <1>t, <2>1 DEF Pick, WorkerOnly, Remembers
<1>5. CASE HoldForDelivery \/ GateWaits \/ AutoPause \/ GateOpens
  BY <1>5, <1>t, <1>b DEF HoldForDelivery, GateWaits, AutoPause, GateOpens, WorkerOnly, Remembers
<1>6. CASE GatePauses \/ EngineReplays \/ EngineDeclines
  BY <1>6, <1>t DEF GatePauses, EngineReplays, EngineDeclines, Answers, Remembers
<1>7. CASE RouteSettlesPause
  BY <1>7, <1>t, <1>b, <1>n DEF RouteSettlesPause, RouteEnds, RouteOnly, Remembers
<1>8. CASE CrashAndRestart
  BY <1>8, <1>n DEF CrashAndRestart, Remembers
<1>9. CASE HandOver
  BY <1>9, <1>t DEF HandOver, WorkerOnly, Remembers
<1>10. CASE HandlerPauses
  <2>1. handler' \in Handlers  BY <1>10, <1>t DEF HandlerPauses, HandlerTo, Handlers
  <2>2. current' \subseteq Readers  BY <1>10, <1>t, <1>b, LiftReaders DEF HandlerPauses
  <2>3. QED  BY <1>10, <1>t, <2>1, <2>2 DEF HandlerPauses, HandlerOnly, Remembers
<1>11. QED  BY <1>1, <1>2, <1>3, <1>4, <1>5, <1>6, <1>7, <1>8, <1>9, <1>10 DEF Rest

Stream == stream \in Seq(1 .. MaxInterrupts)
Bounded == clock \in 0 .. MaxInterrupts /\ spent \in 0 .. MaxDisturbances

\* A disturbance stays within its bound.
LEMMA DisturbsBounded ==
  ASSUME TypeOK
  PROVE  /\ UNCHANGED bounds => Bounded'
         /\ Disturbs => Bounded'
<1>1. clock \in 0 .. MaxInterrupts /\ spent \in 0 .. MaxDisturbances  BY DEF TypeOK
<1>2. MaxDisturbances \in Nat  BY BoundAssumption
<1>3. spent < MaxDisturbances => spent + 1 \in 0 .. MaxDisturbances  BY <1>1, <1>2
<1>4. QED  BY <1>1, <1>3 DEF Bounded, Disturbs, bounds

\* Every step keeps the bounds.
LEMMA BoundsTyped ==
  ASSUME TypeOK, [Next]_vars
  PROVE  Bounded'
<1> USE DisturbsBounded
<1>1. CASE Writes
  <2>1. ASSUME NEW i \in Item,
               \/ Submits(i) \/ Edit(i) \/ SoftDelete(i) \/ Restore(i) \/ SetSteer(i)
               \/ (\E promote \in BOOLEAN : Reorder(i, promote)) \/ Reclaim(i) \/ AnswerQueued(i)
        PROVE  Bounded'
    BY <2>1 DEF Submits, Submit, Edit, SoftDelete, Restore, SetSteer, Reorder, Reclaim, AnswerQueued
  <2>2. Clear => Bounded'  BY DEF Clear
  <2>3. Look \/ Recover \/ Claim \/ Recheck \/ SettleDispatch => Bounded'
    BY DEF Look, Recover, Claim, Recheck, SettleDispatch, WorkerOnly
  <2>4. HandleOutcome \/ HandlerRejects \/ HandlerReconciles \/ RouteSettlesRow => Bounded'
    BY DEF HandleOutcome, HandlerRejects, HandlerReconciles, RouteSettlesRow, RouteOnly
  <2>5. QED  BY <1>1, <2>1, <2>2, <2>3, <2>4 DEF Writes
<1>2. CASE Sends
  <2>1. ASSUME NEW c \in Command, Delivers(c) \/ RecheckDelivery(c) \/ RetryDelivery(c) \/ DiscardDelivery(c)
        PROVE  Bounded'
    BY <2>1 DEF Delivers, Deliver, RecheckDelivery, RetryDelivery, DiscardDelivery
  <2>2. Acknowledge \/ TurnStarts \/ TurnEnds => Bounded'
    BY DEF Acknowledge, TurnStarts, TurnEnds
  <2>3. EngineFails \/ EngineAccepts => Bounded'
    BY DEF EngineFails, EngineAccepts
  <2>4. QED  BY <1>2, <2>1, <2>2, <2>3 DEF Sends
<1>3. CASE Rest
  <2>1. (\E c \in Command : Replay(c)) \/ (\E reason \in {"manual", "none"} : PauseRequest(reason)) => Bounded'
    BY DEF Replay, PauseRequest
  <2>2. CASE Interrupt
    <3>1. /\ clock \in 0 .. MaxInterrupts /\ clock < MaxInterrupts /\ clock' = clock + 1
          /\ spent \in 0 .. MaxDisturbances /\ spent < MaxDisturbances /\ spent' = spent + 1
      BY <2>2 DEF Interrupt, TypeOK
    <3>2. MaxInterrupts \in Nat /\ MaxDisturbances \in Nat  BY BoundAssumption
    <3>3. clock' \in 0 .. MaxInterrupts /\ spent' \in 0 .. MaxDisturbances  BY <3>1, <3>2
    <3>4. QED  BY <3>3 DEF Bounded
  <2>3. ReactToInterrupt \/ RouteSettlesPause \/ CrashAndRestart => Bounded'
    BY DEF ReactToInterrupt, RouteSettlesPause, RouteOnly, CrashAndRestart
  <2>4. WorkerLifts \/ Pick \/ HoldForDelivery \/ GateWaits \/ GatePauses \/ AutoPause \/ GateOpens => Bounded'
    BY DEF WorkerLifts, Pick, HoldForDelivery, GateWaits, GatePauses, AutoPause, GateOpens, WorkerOnly
  <2>5. EngineReplays \/ EngineDeclines => Bounded'  BY DEF EngineReplays, EngineDeclines
  <2>6. HandOver \/ HandlerPauses => Bounded'  BY DEF HandOver, WorkerOnly, HandlerPauses
  <2>7. QED  BY <1>3, <2>1, <2>2, <2>3, <2>4, <2>5, <2>6 DEF Rest
<1>4. CASE Retires
  <2>1. ASSUME NEW c \in Command, NEW claimed \in BOOLEAN, RetireScheduled(c, claimed)
        PROVE  Bounded'
    BY <2>1 DEF RetireScheduled
  <2>2. RetireContinuation => Bounded'  BY DEF RetireContinuation
  <2>3. QED  BY <1>4, <2>1, <2>2 DEF Retires
<1>5. CASE UNCHANGED vars  BY <1>5 DEF vars
<1>6. QED  BY <1>1, <1>2, <1>3, <1>4, <1>5, Kinds

\* Every step keeps the type of the interrupts under way.
LEMMA StreamTyped ==
  ASSUME TypeOK, [Next]_vars
  PROVE  stream' \in Seq(1 .. MaxInterrupts)
<1>t. stream \in Seq(1 .. MaxInterrupts)  BY DEF TypeOK
<1>q. stream' = stream => stream' \in Seq(1 .. MaxInterrupts)  BY <1>t
<1>1. CASE Interrupt
  <2>1. clock \in 0 .. MaxInterrupts /\ clock < MaxInterrupts /\ stream' = Append(stream, clock + 1)
    BY <1>1 DEF Interrupt, TypeOK
  <2>2. clock + 1 \in 1 .. MaxInterrupts  BY <2>1, BoundAssumption
  <2>3. QED  BY <1>t, <2>1, <2>2
<1>2. CASE ReactToInterrupt
  BY <1>2, <1>t, HeadAndTail DEF ReactToInterrupt
<1>3. CASE CrashAndRestart
  BY <1>3 DEF CrashAndRestart
<1>4. CASE Writes
  <2>1. ASSUME NEW i \in Item,
               \/ Submits(i) \/ Edit(i) \/ SoftDelete(i) \/ Restore(i) \/ SetSteer(i)
               \/ (\E promote \in BOOLEAN : Reorder(i, promote)) \/ Reclaim(i) \/ AnswerQueued(i)
        PROVE  stream' = stream
    BY <2>1 DEF Submits, Submit, Edit, SoftDelete, Restore, SetSteer, Reorder, Reclaim, AnswerQueued, Changes, incoming
  <2>2. Clear \/ HandleOutcome \/ HandlerRejects \/ HandlerReconciles \/ RouteSettlesRow => stream' = stream
    BY DEF Clear, Changes, HandleOutcome, HandlerRejects, HandlerReconciles, HandlerOnly, RouteSettlesRow,
           RouteOnly, incoming
  <2>3. Look \/ Recover \/ Claim \/ Recheck \/ SettleDispatch => stream' = stream
    BY DEF Look, Recover, Claim, Recheck, SettleDispatch, WorkerOnly, incoming
  <2>4. QED  BY <1>4, <1>q, <2>1, <2>2, <2>3 DEF Writes
<1>5. CASE Sends
  <2>1. ASSUME NEW c \in Command, Delivers(c) \/ RecheckDelivery(c) \/ RetryDelivery(c) \/ DiscardDelivery(c)
        PROVE  stream' = stream
    BY <2>1 DEF Delivers, Deliver, RecheckDelivery, RetryDelivery, DiscardDelivery, incoming
  <2>2. Acknowledge \/ TurnStarts \/ TurnEnds => stream' = stream
    BY DEF Acknowledge, TurnStarts, TurnEnds, incoming
  <2>3. EngineFails \/ EngineAccepts => stream' = stream
    BY DEF EngineFails, EngineAccepts, EngineCommits, Answers, incoming
  <2>4. QED  BY <1>5, <1>q, <2>1, <2>2, <2>3 DEF Sends
<1>6. CASE Rest
  <2>1. (\E c \in Command : Replay(c)) \/ (\E reason \in {"manual", "none"} : PauseRequest(reason)) => stream' = stream
    BY DEF Replay, PauseRequest, Changes, incoming
  <2>2. WorkerLifts \/ Pick \/ HoldForDelivery \/ GateWaits \/ GatePauses \/ AutoPause \/ GateOpens => stream' = stream
    BY DEF WorkerLifts, Pick, HoldForDelivery, GateWaits, GatePauses, AutoPause, GateOpens, WorkerOnly, incoming
  <2>3. EngineReplays \/ EngineDeclines \/ RouteSettlesPause => stream' = stream
    BY DEF EngineReplays, EngineDeclines, Answers, RouteSettlesPause, RouteOnly, incoming
  <2>4. HandOver \/ HandlerPauses => stream' = stream
    BY DEF HandOver, WorkerOnly, HandlerPauses, HandlerOnly, incoming
  <2>5. QED  BY <1>6, <1>q, <1>1, <1>2, <1>3, <2>1, <2>2, <2>3, <2>4 DEF Rest
<1>7. CASE Retires
  <2>1. ASSUME NEW c \in Command, NEW claimed \in BOOLEAN, RetireScheduled(c, claimed)
        PROVE  stream' = stream
    BY <2>1 DEF RetireScheduled
  <2>2. RetireContinuation => stream' = stream  BY DEF RetireContinuation, HandlerOnly, incoming
  <2>3. QED  BY <1>7, <1>q, <2>1, <2>2 DEF Retires
<1>8. CASE UNCHANGED vars  BY <1>8, <1>q DEF vars, incoming
<1>9. QED  BY <1>4, <1>5, <1>6, <1>7, <1>8, Kinds

\* Every step keeps the types.
LEMMA TypeStep ==
  ASSUME IInv, [Next]_vars
  PROVE  TypeOK'
<1>i. TypeOK /\ Deliveries /\ Commands /\ Claimed /\ Messages  BY DEF IInv
<1>1. /\ row' \in [Item -> Row] /\ Orders(ahead', {i \in Item : row'[i].state = "live"})
      /\ ledger' \in [Item -> {"none", "pending", "queued", "started", "canceled", "cleared"}]
  BY <1>i, StoreTyped
<1>2. /\ paused' \in {"none", "manual", "interrupted", "delivery", "gate"}
      /\ lastSend' \in 0 .. MaxInterrupts /\ heldBy' \in 0 .. MaxInterrupts
      /\ inHand' \in BOOLEAN /\ slipped' \in Nat
  BY <1>i, HoldTyped
<1>3. OutboxTyped'
  <2>1. OutboxTyped  BY <1>i DEF TypeOK, OutboxTyped
  <2>2. UNCHANGED outbox => OutboxTyped'  BY <2>1 DEF OutboxTyped, outbox
  <2>3. Sends \/ Retires => OutboxTyped'  BY <1>i, OutboxStep
  <2>4. QED  BY <2>2, <2>3, Kinds, WritesQuiet, RestQuiet DEF vars
<1>4. worker' \in Workers  BY <1>i, <1>1, WorkerTyped
<1>5. Remembers
  <2>1. UNCHANGED memory => Remembers
    BY <1>i DEF TypeOK, memory, Remembers, Readers, Handlers, Routes
  <2>2. QED  BY <1>i, <2>1, Kinds, WritesRemember, SendsRemember, RestRemember DEF vars
<1>6. outcomes' \in Seq(Outcomes)  BY <1>i, OutcomesStep
<1>7. stream' \in Seq(1 .. MaxInterrupts)  BY <1>i, StreamTyped
<1>8. Bounded'  BY <1>i, BoundsTyped
<1>9. QED
  BY <1>1, <1>2, <1>3, <1>4, <1>5, <1>6, <1>7, <1>8
     DEF TypeOK, OutboxTyped, Workers, Remembers, Readers, Handlers, Routes, Outcomes, Bounded

------------------------------------------------------------------------------
(* The theorems.                                                                *)

\* The invariant holds at the start,
LEMMA IInvInit ==
  ASSUME Init
  PROVE  IInv
<1> USE DEF Init
<1>1. TypeOK
  <2>1. row \in [Item -> Row]  BY NoRowTyped
  <2>2. {i \in Item : row[i].state = "live"} = {}  BY DEF NoRow
  <2>3. Orders(ahead, {i \in Item : row[i].state = "live"})  BY <2>2 DEF Orders
  <2>4. 0 \in 0 .. MaxInterrupts /\ 0 \in 0 .. MaxDisturbances  BY BoundAssumption
  <2>5. worker \in [pc : {"idle", "lift", "hold", "pick", "gate", "autoPause", "recover", "claim",
                          "claimed", "checked", "sending", "sent"},
                    item : Item \cup {NoItem}, seen : Row, found : Found]
    BY NoRowTyped DEF Idle, Found
  <2>6. outcomes \in Seq([of : Command, state : Terminal \cup {"abandoned"}]) /\ stream \in Seq(1 .. MaxInterrupts)
    OBVIOUS
  <2>7. handed \in [Command -> Nat]  OBVIOUS
  <2>8. /\ receipts \in [Command -> {"none", "accepted", "rejected"}]
        /\ delivery \in [Command -> [state : {"none", "pending", "abandoned"} \cup Terminal,
                                     kind : {"start", "steer"}]]
        /\ ledger \in [Item -> {"none", "pending", "queued", "started", "canceled", "cleared"}]
    OBVIOUS
  <2>9. QED  BY <2>1, <2>3, <2>4, <2>5, <2>6, <2>7, <2>8 DEF TypeOK
<1>2. Deliveries  BY DEF Deliveries
<1>3. Commands
  <2>1. \A i \in Item : ~Kept(i) /\ AdmittedAs(i) = {}  BY DEF Kept, NoRow, AdmittedAs
  <2>2. QED  BY <2>1 DEF Commands
<1>4. Claimed  BY DEF Claimed, Claiming, Idle
<1>5. Messages
  <2>1. Len(outcomes) = 0  OBVIOUS
  <2>2. QED  BY <2>1 DEF Messages
<1>6. Books  BY DEF Books
<1>7. Pauses  BY DEF Pauses, Idle
<1>8. QED  BY <1>1, <1>2, <1>3, <1>4, <1>5, <1>6, <1>7 DEF IInv

\* and every step keeps it.
LEMMA IInvStep ==
  ASSUME IInv, [Next]_vars
  PROVE  IInv'
<1>i. TypeOK /\ Deliveries /\ Commands /\ Claimed /\ Messages /\ Books /\ Pauses  BY DEF IInv
<1>1. TypeOK'  BY TypeStep
<1>2. Deliveries'  BY <1>i, DeliveriesStep
<1>3. Commands'  BY <1>i, <1>1, CommandsStep
<1>4. Claimed'  BY <1>i, <1>1, ClaimedStep
<1>5. Messages'  BY <1>i, MessagesStep
<1>6. Books'  BY <1>i, <1>1, BooksStep
<1>7. Pauses'  BY <1>i, PausesStep
<1>8. QED  BY <1>1, <1>2, <1>3, <1>4, <1>5, <1>6, <1>7 DEF IInv

\* The invariant that everything else follows from.
THEOREM Inductive == Spec => []IInv
<1>1. Init => IInv  BY IInvInit
<1>2. IInv /\ [Next]_vars => IInv'  BY IInvStep
<1>3. QED  BY <1>1, <1>2, PTL DEF Spec

\* Every variable keeps its type; in particular the positions of the rows stay a strict total
\* order of exactly the rows in the queue, through every insertion, removal and reordering.
THEOREM TypeCorrect == Spec => []TypeOK
<1>1. IInv => TypeOK  BY DEF IInv
<1>2. QED  BY <1>1, Inductive, PTL

\* The provider takes the prompt of a submission at most once, whatever edits, lost answers,
\* reclaimed leases, fallen back steers, retries and crashes do; a second command of an item
\* only once the first was overruled.
THEOREM HandedOnce == Spec => []SentOnce
<1>1. ASSUME IInv
      PROVE  SentOnce
  <2>i. Deliveries /\ TypeOK  BY <1>1 DEF IInv
  <2>1. ASSUME NEW c \in Command, NEW d \in Command
        PROVE  /\ handed[c] <= 1
               /\ c[1] = d[1] /\ handed[c] > 0 /\ handed[d] > 0 /\ ~Overruled(c[1]) => c = d
    <3>1. handed[c] <= 1  BY <2>i DEF Deliveries
    <3>2. ASSUME NEW e \in Command, e[1] = c[1], handed[e] > 0, ~Overruled(c[1])
          PROVE  delivery[e].state # "none" /\ receipts[e] # "rejected"
      <4>1. delivery[e].state # "none"
        <5>1. handed[e] # 0  BY <3>2
        <5>2. QED  BY <2>i, <5>1 DEF Deliveries
      <4>2. e \in AdmittedAs(c[1])  BY <3>2, <4>1 DEF AdmittedAs
      <4>3. QED  BY <3>2, <4>1, <4>2 DEF Overruled
    <3>3. QED  BY <2>i, <3>1, <3>2 DEF Deliveries
  <2>2. QED  BY <2>1 DEF SentOnce
<1>2. QED  BY <1>1, Inductive, PTL

\* The ledger a client replays its submission against tells the truth: a cancelled or cleared
\* submission is not with the provider and will not be, unless its acceptance was overruled;
\* a started one was admitted.
THEOREM LedgerHonest == Spec => []LedgerTells
<1>1. ASSUME IInv
      PROVE  LedgerTells
  <2>i. TypeOK /\ Deliveries /\ Commands /\ Books  BY <1>1 DEF IInv
  <2>1. ASSUME NEW i \in Item, ledger[i] \in {"canceled", "cleared"}, ~Overruled(i), NEW c \in AdmittedAs(i)
        PROVE  delivery[c].state = "abandoned"
    <3>1. \A d \in AdmittedAs(i) : receipts[d] # "rejected"  BY <2>1 DEF Overruled
    <3>2. c \in Command /\ delivery[c].state # "none"  BY DEF AdmittedAs
    <3>3. receipts[c] = "accepted"
      BY <2>i, <3>1, <3>2, OutboxTypes DEF Deliveries
    <3>4. \/ Kept(i) /\ delivery[CommandOf(i)].state = "abandoned"
          \/ row[i].state = "deleted" /\ receipts[CommandOf(i)] # "accepted"
      BY <2>i, <2>1, <3>1 DEF Books, Relinquished
    <3>5. Kept(i)  BY <3>4 DEF Kept
    <3>6. c = CommandOf(i)  BY <2>i, <3>1, <3>5 DEF Commands
    <3>7. QED  BY <3>3, <3>4, <3>6
  <2>2. \A i \in Item : ledger[i] = "started" => AdmittedAs(i) # {}  BY <2>i DEF Books
  <2>3. QED  BY <2>1, <2>2 DEF LedgerTells
<1>2. QED  BY <1>1, Inductive, PTL

\* A pause lets go at most the one command that the worker, past its last look at the pause, was
\* giving to the engine when the pause came; no item it had only picked or claimed, and no later
\* one, goes to the engine while the pause lasts.
THEOREM PauseHolds == Spec => []PauseLetsOneGo
<1>1. IInv => PauseLetsOneGo  BY DEF IInv, Pauses, PauseLetsOneGo
<1>2. QED  BY <1>1, Inductive, PTL

\* An interrupt the dispatcher hears of late never pauses the queue against a message the user
\* has sent since.
THEOREM NewerSendWins == Spec => []SendOutlivesInterrupt
<1>1. IInv => SendOutlivesInterrupt  BY DEF IInv, Pauses, SendOutlivesInterrupt
<1>2. QED  BY <1>1, Inductive, PTL
=============================================================================
