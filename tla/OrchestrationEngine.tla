------------------------- MODULE OrchestrationEngine -------------------------
(***************************************************************************)
(* The command engine of the server (OrchestrationEngine).  Callers        *)
(* dispatch commands; a control command (stop, interrupt, approval, answer *)
(* to a question) publishes a reservation under its command id, so that a  *)
(* duplicate joins it.  One worker takes the admitted commands, one at a   *)
(* time: it looks the command up among the receipts, decides it, appends   *)
(* its events with the receipt in one transaction, brings the in-memory    *)
(* read model up to date, publishes the events and answers the caller.  A  *)
(* committed control keeps its reservation until the provider reactor has  *)
(* claimed and completed it, or until the expiry loop has told the user    *)
(* that it was not sent.                                                   *)
(*                                                                         *)
(* One entry of `log` stands for the events of one call's command.  `log`, *)
(* `receipts` and `fallback` are durable, everything else lives in the     *)
(* server process.  The decider is a choice of verdicts, and the capacity  *)
(* of the admission queue (CommandAdmission) a choice of admitting or not; *)
(* the worker takes any admitted command, which includes the queue's order.*)
(* `carried`, `reported`, `behind` and `unreconciled` are history          *)
(* variables, `restarts`, `faults` and `foreigners` counters.              *)
(***************************************************************************)
EXTENDS Integers, Sequences, FiniteSets

CONSTANTS
  Request,       \* calls of dispatch
  Command,       \* command ids
  Thread,        \* aggregates
  CommandOf,     \* the command id a call carries
  AggregateOf,   \* the thread its command names
  KindOf,        \* what its command asks for
  NoticeOf,      \* the call with which the expiry loop reports a control
  ShutdownWork,  \* calls that finish accepted work (AcceptedShutdownWork)
  NoRequest,
  MaxFailures,   \* bound: database errors, crashes and restarts in a behaviour
  MaxForeigners  \* bound: events another server adds to a shared database

Kinds   == {"start", "steer", "stop", "respond", "notice", "other"}
Control == {r \in Request : KindOf[r] \in {"stop", "respond"}}   \* isControlCommand
Turns   == {r \in Request : KindOf[r] \in {"start", "steer"}}

ASSUME RequestAssumption ==
  /\ NoRequest \notin Request
  /\ CommandOf \in [Request -> Command]
  /\ AggregateOf \in [Request -> Thread]
  /\ KindOf \in [Request -> Kinds]
  /\ ShutdownWork \subseteq Request

ASSUME NoticeAssumption ==
  /\ NoticeOf \in [Control -> {r \in Request : KindOf[r] = "notice"}]
  /\ \A r, s \in Control : NoticeOf[r] = NoticeOf[s] => r = s
  /\ \A r \in Control : AggregateOf[NoticeOf[r]] = AggregateOf[r]

ASSUME BoundAssumption == MaxFailures \in Nat /\ MaxForeigners \in Nat

VARIABLES
  log,            \* orchestration_events: the calls that appended, NoRequest for another server
  receipts,       \* orchestration_command_receipts
  fallback,       \* commands whose steer came back unsent and queued as a start
  phase,          \* "running", "draining" (accepting = false) or "closed"
  env,            \* the CommandEnvelope and the caller of every dispatch
  admissionOrder,
  reservations,   \* controlReservations
  accepted,       \* envelopes that hold a place of the admission queue
  worker,         \* the worker fiber
  readModel,      \* snapshotSequence and the log entries applied
  published,      \* log entries published to the event PubSub since boot
  inbox,          \* control commands in the provider reactor's queue
  carried,        \* controls the reactor started to carry out, how often
  reported,       \* controls reported to the user as not sent
  behind,         \* starts and steers queued when a stop was ordered
  unreconciled,   \* a reconcile failed since boot
  restarts, faults, foreigners

durable == <<log, receipts, fallback>>
callers == <<env, admissionOrder, reservations, accepted>>
outputs == <<readModel, published, inbox>>
history == <<carried, reported, behind, unreconciled, restarts, faults, foreigners>>
vars    == <<durable, callers, phase, worker, outputs, history>>

Outcomes == {"none", "accepted", "rejected", "conflict", "previouslyRejected", "notReady",
             "error", "full", "closed", "superseded", "lost"}

Envelope == [pc : {"new", "prepared", "reserved", "joined", "queued", "taken", "done"},
             onto : Request \cup {NoRequest}, order : Nat, outcome : Outcomes,
             committed : BOOLEAN, claimed : BOOLEAN, expired : BOOLEAN]
NewEnvelope == [pc |-> "new", onto |-> NoRequest, order |-> 0, outcome |-> "none",
                committed |-> FALSE, claimed |-> FALSE, expired |-> FALSE]

\* A receipt keeps the aggregate of the call it was stored for.
Receipt   == [status : {"none", "accepted", "rejected"}, by : Request \cup {NoRequest}]
NoReceipt == [status |-> "none", by |-> NoRequest]

Idle == [pc |-> "idle", request |-> NoRequest, outcome |-> "none", appended |-> 0]

TypeOK ==
  /\ log \in Seq(Request \cup {NoRequest}) /\ receipts \in [Command -> Receipt] /\ fallback \subseteq Command
  /\ phase \in {"running", "draining", "closed"}
  /\ env \in [Request -> Envelope] /\ admissionOrder \in Nat
  /\ reservations \in [Command -> Control \cup {NoRequest}]
  /\ accepted \subseteq Request
  /\ worker \in [pc : {"idle", "deciding", "committing", "publishing", "failed", "answering"},
                 request : Request \cup {NoRequest}, outcome : Outcomes, appended : Nat]
  /\ readModel \in [sequence : Nat, applied : SUBSET Nat]
  /\ published \in Seq(Nat) /\ inbox \subseteq Command
  /\ carried \in [Command -> Nat] /\ reported \subseteq Command
  /\ behind \in [Request -> SUBSET Request]
  /\ unreconciled \in BOOLEAN
  /\ restarts \in Nat /\ faults \in Nat /\ foreigners \in Nat

Init ==
  /\ log = <<>> /\ receipts = [c \in Command |-> NoReceipt] /\ fallback = {}
  /\ phase = "running" /\ env = [r \in Request |-> NewEnvelope] /\ admissionOrder = 0
  /\ reservations = [c \in Command |-> NoRequest] /\ accepted = {}
  /\ worker = Idle /\ readModel = [sequence |-> 0, applied |-> {}]
  /\ published = <<>> /\ inbox = {}
  /\ carried = [c \in Command |-> 0] /\ reported = {} /\ behind = [r \in Request |-> {}]
  /\ unreconciled = FALSE
  /\ restarts = 0 /\ faults = 0 /\ foreigners = 0

DatabaseFails ==
  /\ faults + restarts < MaxFailures
  /\ faults' = faults + 1
  /\ UNCHANGED <<carried, reported, behind, restarts, foreigners>>

\* The server runs one fiber at a time, and the worker gives way to no other one from
\* the publication of its events to the answer, nor on its way to an answer for which
\* it stores no rejection.
Yields == ~(worker.pc = "answering" /\ worker.outcome # "rejected")

------------------------------------------------------------------------------
(* Results.  Every caller of a joined envelope awaits the same Deferred.        *)

AnsweredBy(r) == {r} \cup {s \in Request : env[s].pc = "joined" /\ env[s].onto = r}

\* Complete the Deferreds of the envelopes in `rs`; a completed one keeps its value.
Settled(rs, outcome) ==
  [s \in Request |->
     IF env[s].pc # "done" /\ \E r \in rs : s \in AnsweredBy(r)
     THEN [env[s] EXCEPT !.pc = "done", !.outcome = outcome]
     ELSE env[s]]

Existing(r) == IF r \in Control THEN reservations[CommandOf[r]] ELSE NoRequest

\* What a duplicate of a reserved control gets: the same result, now or later, or a
\* conflict when the command id belongs to another thread (controlCommandConflict).
Joined(r) ==
  LET e == Existing(r)
  IN  IF AggregateOf[e] # AggregateOf[r]
      THEN [env[r] EXCEPT !.pc = "done", !.outcome = "conflict"]
      ELSE IF env[e].pc = "done"
      THEN [env[r] EXCEPT !.pc = "done", !.outcome = env[e].outcome]
      ELSE [env[r] EXCEPT !.pc = "joined", !.onto = e]

------------------------------------------------------------------------------
(* dispatch                                                                     *)

SteerFallback(r) ==
  /\ r \in Turns /\ CommandOf[r] \in fallback /\ receipts[CommandOf[r]].status # "none"
  /\ AggregateOf[receipts[CommandOf[r]].by] = AggregateOf[r]

\* The queue holds one command per id: the steer until it comes back, then the start.
MayDispatch(r) ==
  /\ KindOf[r] # "notice"
  /\ KindOf[r] = "steer" => CommandOf[r] \notin fallback
  /\ KindOf[r] = "start" /\ (\E s \in Request : KindOf[s] = "steer" /\ CommandOf[s] = CommandOf[r])
       => CommandOf[r] \in fallback

\* Everything before admission: a worktree that is not ready, a scratch folder that
\* cannot be made and a failing lookup end the call without a receipt.
Dispatch(r) ==
  /\ Yields /\ phase # "closed" /\ env[r].pc = "new" /\ MayDispatch(r)
  /\ \/ /\ Existing(r) # NoRequest
        /\ env' = [env EXCEPT ![r] = Joined(r)]
        /\ UNCHANGED history
     \/ /\ Existing(r) = NoRequest
        /\ env' = [env EXCEPT ![r].pc = "prepared"]
        /\ UNCHANGED history
     \/ /\ \/ KindOf[r] = "other"
           \/ r \in Turns /\ (receipts[CommandOf[r]].status = "none" \/ SteerFallback(r))
        /\ \E o \in {"rejected"} \cup IF r \in Turns THEN {"notReady"} ELSE {} :
             env' = [env EXCEPT ![r].pc = "done", ![r].outcome = o]
        /\ UNCHANGED history
     \/ /\ r \in Control \cup Turns
        /\ DatabaseFails /\ UNCHANGED unreconciled
        /\ env' = [env EXCEPT ![r].pc = "done", ![r].outcome = "error"]
  /\ UNCHANGED <<durable, phase, admissionOrder, reservations, accepted, worker, outputs>>

\* A call made on behalf of a control that still holds its reservation.
Continues(r) == \E c \in Control : NoticeOf[c] = r /\ reservations[CommandOf[c]] = c

\* Mutant: ordinary commands are reserved as well.
ReserveAll(r) ==
  /\ Yields /\ env[r].pc = "prepared" /\ phase = "running" /\ Existing(r) = NoRequest
  /\ admissionOrder' = admissionOrder + 1
  /\ env' = [env EXCEPT ![r].pc = "reserved", ![r].order = admissionOrder + 1]
  /\ reservations' = [reservations EXCEPT ![CommandOf[r]] = r]
  /\ UNCHANGED <<durable, phase, accepted, worker, outputs, history>>

\* The uninterruptible part up to the admission: admission order and reservation.
Reserve(r) ==
  /\ Yields /\ env[r].pc = "prepared"
  /\ \/ /\ phase # "running" /\ r \notin ShutdownWork /\ ~Continues(r)
        /\ env' = [env EXCEPT ![r].pc = "done", ![r].outcome = "closed"]
        /\ UNCHANGED <<admissionOrder, reservations, behind>>
     \/ /\ phase = "running" \/ r \in ShutdownWork \/ Continues(r)
        /\ \/ /\ Existing(r) # NoRequest
              /\ env' = [env EXCEPT ![r] = Joined(r)]
              /\ UNCHANGED <<admissionOrder, reservations, behind>>
           \/ /\ Existing(r) = NoRequest
              /\ admissionOrder' = admissionOrder + 1
              /\ env' = [env EXCEPT ![r].pc = "reserved", ![r].order = admissionOrder + 1]
              /\ reservations' = IF r \in Control THEN [reservations EXCEPT ![CommandOf[r]] = r]
                                 ELSE reservations
              /\ behind' = IF KindOf[r] = "stop"
                           THEN [behind EXCEPT ![r] = {s \in Turns : env[s].pc = "queued"
                                                         /\ AggregateOf[s] = AggregateOf[r]}]
                           ELSE behind
  /\ UNCHANGED <<durable, phase, accepted, worker, outputs, carried, reported, unreconciled,
                 restarts, faults, foreigners>>

\* Mutant: a refused control leaves the duplicates that joined it waiting.
OfferForgetsDuplicates(r) ==
  /\ Yields /\ env[r].pc = "reserved"
  /\ \/ /\ phase # "closed"
        /\ env' = [env EXCEPT ![r].pc = "queued"]
        /\ accepted' = accepted \cup {r}
        /\ UNCHANGED reservations
     \/ /\ phase = "closed" \/ ~Continues(r)
        /\ env' = [env EXCEPT ![r].pc = "done", ![r].outcome = "full"]
        /\ reservations' = [c \in Command |-> IF reservations[c] = r THEN NoRequest ELSE reservations[c]]
        /\ UNCHANGED accepted
  /\ UNCHANGED <<durable, phase, admissionOrder, worker, outputs, history>>

\* admission.offer, enqueue or offerContinuation.  The continuation of a control uses
\* that control's place and cannot find the queue full.  A refusal takes the
\* reservation back and also settles the duplicates that joined it meanwhile.
Offer(r) ==
  /\ Yields /\ env[r].pc = "reserved"
  /\ \/ /\ phase # "closed"
        /\ env' = [env EXCEPT ![r].pc = "queued"]
        /\ accepted' = accepted \cup {r}
        /\ UNCHANGED reservations
     \/ /\ phase = "closed" \/ ~Continues(r)
        /\ env' = Settled({r}, IF phase = "closed" THEN "closed" ELSE "full")
        /\ reservations' = [c \in Command |-> IF reservations[c] = r THEN NoRequest ELSE reservations[c]]
        /\ UNCHANGED accepted
  /\ UNCHANGED <<durable, phase, admissionOrder, worker, outputs, history>>

------------------------------------------------------------------------------
(* The worker: admission.take and processEnvelope                               *)

Take(r) ==
  /\ phase # "closed" /\ worker = Idle /\ env[r].pc = "queued"
  /\ env' = [env EXCEPT ![r].pc = "taken"]
  /\ worker' = [Idle EXCEPT !.pc = "deciding", !.request = r]
  /\ UNCHANGED <<durable, phase, admissionOrder, reservations, accepted, outputs, history>>

Fails(outcome)   == worker' = [worker EXCEPT !.pc = "failed", !.outcome = outcome]
Accepts(outcome) == worker' = [worker EXCEPT !.pc = "answering", !.outcome = outcome]

\* Mutant: the aggregate of the receipt is not compared.
ReplayForAnyThread(r) ==
  /\ receipts[CommandOf[r]].status # "none" /\ ~SteerFallback(r)
  /\ \/ receipts[CommandOf[r]].status = "accepted" /\ Accepts("accepted")
     \/ receipts[CommandOf[r]].status = "rejected" /\ Fails("previouslyRejected")

\* A command with a receipt is answered from it, and never decided twice.
Replay(r) ==
  LET receipt == receipts[CommandOf[r]]
  IN  /\ receipt.status # "none" /\ ~SteerFallback(r)
      /\ \/ AggregateOf[receipt.by] # AggregateOf[r] /\ Fails("conflict")
         \/ AggregateOf[receipt.by] = AggregateOf[r] /\ receipt.status = "accepted" /\ Accepts("accepted")
         \/ AggregateOf[receipt.by] = AggregateOf[r] /\ receipt.status = "rejected"
              /\ Fails("previouslyRejected")

\* The barriers before the decider and the decider itself.
Verdict(r) ==
  /\ receipts[CommandOf[r]].status = "none" \/ SteerFallback(r)
  /\ \/ worker' = [worker EXCEPT !.pc = "committing"]
     \/ Fails("rejected")
     \/ r \in Turns /\ Fails("notReady")

Decide(r) ==
  /\ worker.pc = "deciding" /\ worker.request = r
  /\ \/ Replay(r) /\ UNCHANGED history
     \/ Verdict(r) /\ UNCHANGED history
     \/ Fails("error") /\ DatabaseFails /\ UNCHANGED unreconciled
  /\ UNCHANGED <<durable, callers, phase, outputs>>

\* Mutant: the receipt is stored after the transaction.
CommitBeforeReceipt(r) ==
  /\ worker.pc = "committing" /\ worker.request = r
  /\ log' = Append(log, r) /\ fallback' = fallback \ {CommandOf[r]}
  /\ \/ /\ worker' = [worker EXCEPT !.pc = "publishing", !.appended = Len(log) + 1]
        /\ receipts' = [receipts EXCEPT ![CommandOf[r]] = [status |-> "accepted", by |-> r]]
        /\ UNCHANGED history
     \/ /\ worker' = [worker EXCEPT !.pc = "failed", !.outcome = "error", !.appended = Len(log) + 1]
        /\ DatabaseFails /\ UNCHANGED <<receipts, unreconciled>>
  /\ UNCHANGED <<callers, phase, outputs>>

\* The transaction: events, their side effects and the receipt, all or nothing.  A
\* check inside it may still reject, it may roll back with an error, and it may report
\* an error although it took effect.
Commit(r) ==
  /\ worker.pc = "committing" /\ worker.request = r
  /\ \/ /\ log' = Append(log, r)
        /\ receipts' = [receipts EXCEPT ![CommandOf[r]] = [status |-> "accepted", by |-> r]]
        /\ fallback' = fallback \ {CommandOf[r]}
        /\ \/ /\ worker' = [worker EXCEPT !.pc = "publishing", !.appended = Len(log) + 1]
              /\ UNCHANGED history
           \/ /\ worker' = [worker EXCEPT !.pc = "failed", !.outcome = "error",
                                          !.appended = Len(log) + 1]
              /\ DatabaseFails /\ UNCHANGED unreconciled
     \/ Fails("rejected") /\ UNCHANGED <<durable, history>>
     \/ Fails("error") /\ DatabaseFails /\ UNCHANGED <<durable, unreconciled>>
  /\ UNCHANGED <<callers, phase, outputs>>

\* The provider reactor hears a published control unless it is not subscribed.
Hear(r) == inbox' = IF r \in Control THEN inbox \cup {CommandOf[r]} ELSE inbox
Heard(r) == Hear(r) \/ UNCHANGED inbox

\* Mutant: the admission order is compared the wrong way round.
SupersededLater(r) ==
  IF KindOf[r] = "stop"
  THEN {s \in Turns : /\ env[s].pc = "queued" /\ AggregateOf[s] = AggregateOf[r]
                      /\ env[s].order > env[r].order}
  ELSE {}

\* Starts and steers of the thread that were admitted before the stop `r`.
Superseded(r) ==
  IF KindOf[r] = "stop"
  THEN {s \in Turns : /\ env[s].pc = "queued" /\ AggregateOf[s] = AggregateOf[r]
                      /\ env[s].order < env[r].order}
  ELSE {}

\* After the transaction: read model, control flags, cancelled turns, PubSub.
Publish(r) ==
  /\ worker.pc = "publishing" /\ worker.request = r
  /\ readModel' = [sequence |-> worker.appended, applied |-> readModel.applied \cup {worker.appended}]
  /\ env' = [Settled(Superseded(r), "superseded") EXCEPT ![r].committed = (r \in Control)]
  /\ accepted' = accepted \ Superseded(r)
  /\ published' = Append(published, worker.appended)
  /\ Heard(r)
  /\ Accepts("accepted")
  /\ UNCHANGED <<durable, phase, admissionOrder, reservations, history>>

\* Mutant: everything found in the log is published, not only this dispatch's events.
ReconcileRepublishing(r) ==
  /\ worker.pc = "failed" /\ worker.request = r
  /\ readModel' = [sequence |-> Len(log),
                   applied |-> readModel.applied \cup (readModel.sequence + 1)..Len(log)]
  /\ published' = published \o [i \in 1..(Len(log) - readModel.sequence) |-> readModel.sequence + i]
  /\ worker' = [worker EXCEPT !.pc = "answering"]
  /\ UNCHANGED <<durable, callers, phase, inbox, history>>

\* Mutant: the events are published but not applied to the read model.
ReconcileWithoutModel(r) ==
  /\ worker.pc = "failed" /\ worker.request = r
  /\ published' = IF worker.appended = 0 THEN published ELSE Append(published, worker.appended)
  /\ worker' = [worker EXCEPT !.pc = "answering"]
  /\ UNCHANGED <<durable, callers, phase, readModel, inbox, history>>

\* reconcileReadModelAfterDispatchFailure: catch up with the log, and publish what
\* this dispatch appended, nothing of another server.
Reconcile(r) ==
  /\ worker.pc = "failed" /\ worker.request = r
  /\ worker.outcome \notin {"conflict", "previouslyRejected"}
  /\ \/ /\ readModel' = [sequence |-> Len(log),
                         applied |-> readModel.applied \cup (readModel.sequence + 1)..Len(log)]
        /\ \/ worker.appended = 0 /\ UNCHANGED <<published, inbox>>
           \/ worker.appended # 0 /\ published' = Append(published, worker.appended) /\ Heard(r)
        /\ UNCHANGED history
     \/ /\ DatabaseFails /\ unreconciled' = TRUE
        /\ UNCHANGED outputs
  /\ worker' = [worker EXCEPT !.pc = "answering"]
  /\ UNCHANGED <<durable, callers, phase>>

\* Mutant: the reservation goes, its place in the admission queue is kept.
ReleaseReservationOnly(c) ==
  /\ reservations' = [reservations EXCEPT ![c] = NoRequest]
  /\ UNCHANGED accepted

\* releaseControl, by command id.
ReleaseControl(c) ==
  /\ reservations' = [reservations EXCEPT ![c] = NoRequest]
  /\ accepted' = accepted \ {reservations[c]}

\* Mutant: a control that was not committed gives back its place, not its reservation.
ReleaseEnvelopeAsOrdinary(r) ==
  \/ env[r].committed /\ UNCHANGED <<reservations, accepted>>
  \/ ~env[r].committed /\ accepted' = accepted \ {r} /\ UNCHANGED reservations

\* releaseEnvelopeAdmission: a committed control keeps its reservation.
ReleaseEnvelope(r) ==
  \/ env[r].committed /\ UNCHANGED <<reservations, accepted>>
  \/ ~env[r].committed /\ r \in Control /\ ReleaseControl(CommandOf[r])
  \/ ~env[r].committed /\ r \notin Control /\ accepted' = accepted \ {r} /\ UNCHANGED reservations

\* Store a rejection (a steer's is not), release the admission, answer.  Storing may
\* fail silently.
Answer(r) ==
  /\ worker.request = r
  /\ \/ worker.pc = "answering"
     \/ worker.pc = "failed" /\ worker.outcome \in {"conflict", "previouslyRejected"}
  /\ \/ /\ receipts' = IF worker.outcome = "rejected" /\ KindOf[r] # "steer"
                       THEN [receipts EXCEPT ![CommandOf[r]] = [status |-> "rejected", by |-> r]]
                       ELSE receipts
        /\ UNCHANGED history
     \/ /\ worker.outcome = "rejected" /\ KindOf[r] # "steer"
        /\ DatabaseFails /\ UNCHANGED <<receipts, unreconciled>>
  /\ ReleaseEnvelope(r)
  /\ env' = Settled({r}, worker.outcome)
  /\ worker' = Idle
  /\ UNCHANGED <<log, fallback, phase, admissionOrder, outputs>>

------------------------------------------------------------------------------
(* Controls: the provider reactor and the expiry loop                           *)

\* Mutant: the expiry is not looked at.
ClaimExpired(c) ==
  LET r == reservations[c]
  IN  /\ Yields /\ phase # "closed" /\ c \in inbox
      /\ inbox' = inbox \ {c}
      /\ r # NoRequest /\ ~env[r].claimed
      /\ env' = [env EXCEPT ![r].claimed = TRUE]
      /\ carried' = [carried EXCEPT ![c] = @ + 1]
      /\ UNCHANGED <<durable, phase, admissionOrder, reservations, accepted, worker, readModel,
                     published, reported, behind, unreconciled, restarts, faults, foreigners>>

\* claimControl: an expired or released control is skipped.
Claim(c) ==
  LET r == reservations[c]
      owned == r # NoRequest /\ ~env[r].expired /\ ~env[r].claimed
  IN  /\ Yields /\ phase # "closed" /\ c \in inbox
      /\ inbox' = inbox \ {c}
      /\ \/ /\ owned
            /\ env' = [env EXCEPT ![r].claimed = TRUE]
            /\ carried' = [carried EXCEPT ![c] = @ + 1]
         \/ ~owned /\ UNCHANGED <<env, carried>>
      /\ UNCHANGED <<durable, phase, admissionOrder, reservations, accepted, worker, readModel,
                     published, reported, behind, unreconciled, restarts, faults, foreigners>>

\* The reactor has recorded the control's outcome and completes it (completeControl).
Complete(c) ==
  /\ Yields /\ phase # "closed"
  /\ reservations[c] # NoRequest /\ env[reservations[c]].claimed
  /\ ReleaseControl(c)
  /\ UNCHANGED <<durable, phase, env, admissionOrder, worker, outputs, history>>

\* Thirty seconds after the commit nobody has claimed the control.  The loop reports
\* one control at a time and waits for the report.
Expire(r) ==
  /\ Yields /\ phase # "closed"
  /\ r \in Control /\ reservations[CommandOf[r]] = r
  /\ env[r].committed /\ ~env[r].claimed /\ ~env[r].expired
  /\ \A s \in Control : reservations[CommandOf[s]] = s => ~env[s].expired
  /\ env' = [env EXCEPT ![r].expired = TRUE,
               ![NoticeOf[r]].pc = IF env[NoticeOf[r]].pc = "new" THEN "prepared" ELSE @]
  /\ reported' = reported \cup {CommandOf[r]}
  /\ UNCHANGED <<durable, phase, admissionOrder, reservations, accepted, worker, outputs, carried,
                 behind, unreconciled, restarts, faults, foreigners>>

ExpiryEnds(r) ==
  /\ Yields /\ phase # "closed"
  /\ r \in Control /\ reservations[CommandOf[r]] = r
  /\ env[r].expired /\ env[NoticeOf[r]].pc = "done"
  /\ ReleaseControl(CommandOf[r])
  /\ UNCHANGED <<durable, phase, env, admissionOrder, worker, outputs, history>>

------------------------------------------------------------------------------
(* The surroundings                                                             *)

\* The outbox proved that a steer was not sent and the queue takes it over as a start.
SteerComesBack(c) ==
  /\ Yields /\ phase # "closed" /\ c \notin fallback
  /\ \E i \in DOMAIN log : /\ log[i] # NoRequest /\ KindOf[log[i]] = "steer" /\ CommandOf[log[i]] = c
                           /\ \A j \in (i + 1)..Len(log) : log[j] # NoRequest => CommandOf[log[j]] # c
  /\ \A s \in Request : KindOf[s] = "steer" /\ CommandOf[s] = c => env[s].pc \in {"new", "done"}
  /\ fallback' = fallback \cup {c}
  /\ UNCHANGED <<log, receipts, callers, phase, worker, outputs, history>>

\* Another server on the same state directory appends an event.
AnotherServerAppends ==
  /\ foreigners < MaxForeigners
  /\ foreigners' = foreigners + 1
  /\ log' = Append(log, NoRequest)
  /\ UNCHANGED <<receipts, fallback, callers, phase, worker, outputs, carried, reported, behind,
                 unreconciled, restarts, faults>>

BeginShutdown ==
  /\ Yields /\ phase = "running"
  /\ phase' = "draining"
  /\ UNCHANGED <<durable, callers, worker, outputs, history>>

\* The scope closes: the worker is interrupted and gives up the place of the command it
\* was at, then the finalizer fails the pending envelopes and drops the reservations.
Close ==
  /\ Yields /\ phase = "draining"
  /\ phase' = "closed"
  /\ worker' = Idle
  /\ env' = Settled(accepted \ {worker.request}, "closed")
  /\ accepted' = {}
  /\ reservations' = [c \in Command |-> NoRequest]
  /\ UNCHANGED <<durable, admissionOrder, outputs, history>>

\* A crash, or the next start: the process state is gone, the read model is rebuilt
\* from the projections and the rest of the log.
Restart ==
  /\ faults + restarts < MaxFailures
  /\ restarts' = restarts + 1
  /\ phase' = "running" /\ worker' = Idle
  /\ env' = [r \in Request |-> IF env[r].pc \in {"new", "done"} THEN env[r]
                               ELSE [env[r] EXCEPT !.pc = "done", !.outcome = "lost"]]
  /\ admissionOrder' = 0 /\ accepted' = {} /\ reservations' = [c \in Command |-> NoRequest]
  /\ readModel' = [sequence |-> Len(log), applied |-> DOMAIN log]
  /\ published' = <<>> /\ inbox' = {} /\ unreconciled' = FALSE
  /\ UNCHANGED <<durable, carried, reported, behind, faults, foreigners>>

Work(r) ==
  Take(r) \/ Decide(r) \/ Commit(r) \/ Publish(r) \/ Reconcile(r) \/ Answer(r)

Next ==
  \/ \E r \in Request :
       Dispatch(r) \/ Reserve(r) \/ Offer(r) \/ Work(r) \/ Expire(r) \/ ExpiryEnds(r)
  \/ \E c \in Command : Claim(c) \/ Complete(c) \/ SteerComesBack(c)
  \/ AnotherServerAppends \/ BeginShutdown \/ Close \/ Restart

\* Callers' fibers, the worker, the reactor (whose provider calls end) and the expiry
\* loop keep running.
Fairness ==
  /\ \A r \in Request : WF_vars(Reserve(r)) /\ WF_vars(Offer(r))
  /\ WF_vars(\E r \in Request : Work(r))
  /\ \A r \in Request : WF_vars(Expire(r)) /\ WF_vars(ExpiryEnds(r))
  /\ \A c \in Command : WF_vars(Claim(c)) /\ WF_vars(Complete(c))

Spec == Init /\ [][Next]_vars /\ Fairness

------------------------------------------------------------------------------
(* Properties                                                                   *)

\* However often a command is sent, retried after a crash or after an error that hid
\* its commit, it is carried into the log once; only a steer that came back is followed
\* by the start the queue makes of it.
CommittedOnce ==
  \A i, j \in DOMAIN log :
    /\ log[i] # NoRequest /\ log[j] # NoRequest
    /\ CommandOf[log[i]] = CommandOf[log[j]] /\ KindOf[log[i]] = KindOf[log[j]]
    => i = j

\* Subscribers see the events of this server only, each once and in log order.
PublishedInOrder ==
  /\ \A i \in DOMAIN published : log[published[i]] # NoRequest
  /\ \A i, j \in DOMAIN published : i < j => published[i] < published[j]

\* Between two commands the read model has applied everything this server committed,
\* the commits hidden by an error included, unless a reconcile could not read the log.
ReadModelKeepsUp ==
  worker = Idle /\ phase # "closed" /\ ~unreconciled
    => \A i \in DOMAIN log : log[i] # NoRequest => i \in readModel.applied

\* An accepted answer is about the caller's own thread and durable, also when it comes
\* from a receipt or from a control the caller joined.
AcceptedIsCommitted ==
  \A r \in Request : env[r].outcome = "accepted" =>
    \E i \in DOMAIN log : /\ log[i] # NoRequest
                          /\ CommandOf[log[i]] = CommandOf[r] /\ AggregateOf[log[i]] = AggregateOf[r]

\* A caller who is told that its command was rejected, is not ready, did not fit or
\* was superseded may send it again: this call put nothing into the log, and never will.
RefusedIsNotCommitted ==
  \A r \in Request : env[r].outcome \in {"rejected", "notReady", "full", "superseded"} =>
    \A i \in DOMAIN log : log[i] # r

\* What a caller is told of its command is true of the log, for good.
AnswersTellTheTruth == AcceptedIsCommitted /\ RefusedIsNotCommitted

\* Once a stop was published, no start or steer that was already queued when the stop
\* was ordered is committed any more.
StopSupersedes ==
  [][\A r, s \in Request :
       /\ worker.pc = "committing" /\ worker.request = s /\ log' # log /\ log'[Len(log')] = s
       => ~(env[r].committed /\ s \in behind[r])]_vars

\* "expired/unowned events must never run late": a control reported as not sent is
\* never carried out, and none is carried out twice.
NotSentIsNotSent ==
  \A c \in Command : carried[c] <= 1 /\ (c \in reported => carried[c] = 0)

\* A place of the admission queue is held only by a command in progress or by a
\* control whose reservation stands.
NoSlotLeaks ==
  \A r \in accepted : env[r].pc \in {"queued", "taken"} \/ reservations[CommandOf[r]] = r

InFlight(r) == \/ env[r].pc = "taken"
               \/ env[r].pc = "joined" /\ env[env[r].onto].pc = "taken"

\* A repeated control whose reservation, and with it its place in the queue, was given
\* to the event of the first one.
Robbed(r) == env[r].claimed \/ (env[r].pc = "joined" /\ env[env[r].onto].claimed)

\* Every call of dispatch is answered, whatever becomes of its command.  A shutdown may
\* leave without an answer only the callers of the one command it interrupts and of a
\* repeated control whose reservation went to a late event of the first.
EveryDispatchAnswered ==
  \A r \in Request : env[r].pc \notin {"new", "done"} ~>
    env[r].pc = "done" \/ (phase = "closed" /\ (InFlight(r) \/ Robbed(r)))

\* Every reservation ends, so that the turns waiting in waitForControlProgress go on.
ControlsFinish ==
  \A c \in Command : reservations[c] # NoRequest ~> reservations[c] = NoRequest
==============================================================================
