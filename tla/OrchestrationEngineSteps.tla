---------------------- MODULE OrchestrationEngineSteps -----------------------
(*****************************************************************************)
(* Type correctness of the command engine; what its actions do to the        *)
(* envelopes, to the worker and to the log, in the terms the invariants are  *)
(* stated in; and the invariant that ties the worker to the command it has   *)
(* taken.                                                                    *)
(*****************************************************************************)
EXTENDS OrchestrationEngine, TLAPS

-----------------------------------------------------------------------------
(* Types. *)

PC == {"new", "prepared", "reserved", "joined", "queued", "taken", "done"}

\* An envelope stays one when a field of it changes.
LEMMA EnvelopeType ==
  ASSUME NEW e \in Envelope
  PROVE  /\ e.pc \in PC /\ e.onto \in Request \cup {NoRequest} /\ e.outcome \in Outcomes
         /\ \A pc \in PC : [e EXCEPT !.pc = pc] \in Envelope
         /\ \A pc \in PC, o \in Outcomes : [e EXCEPT !.pc = pc, !.outcome = o] \in Envelope
         /\ \A pc \in PC, n \in Nat : [e EXCEPT !.pc = pc, !.order = n] \in Envelope
         /\ \A pc \in PC, r \in Request : [e EXCEPT !.pc = pc, !.onto = r] \in Envelope
         /\ \A b \in BOOLEAN : /\ [e EXCEPT !.committed = b] \in Envelope
                               /\ [e EXCEPT !.claimed = b] \in Envelope
                               /\ [e EXCEPT !.expired = b] \in Envelope
  BY DEF Envelope, PC

\* Completing Deferreds leaves envelopes.
LEMMA SettledType ==
  ASSUME env \in [Request -> Envelope], NEW rs, NEW o \in Outcomes
  PROVE  Settled(rs, o) \in [Request -> Envelope]
<1>1. ASSUME NEW s \in Request
      PROVE  (IF env[s].pc # "done" /\ \E r \in rs : s \in AnsweredBy(r)
     THEN [env[s] EXCEPT !.pc = "done", !.outcome = o]
     ELSE env[s]) \in Envelope
  BY EnvelopeType DEF PC
<1>2. QED
  BY <1>1 DEF Settled

\* So does joining a reserved control.
LEMMA JoinedType ==
  ASSUME TypeOK, NEW r \in Request, Existing(r) # NoRequest
  PROVE  Joined(r) \in Envelope
<1>1. Existing(r) \in Request
  BY RequestAssumption DEF Existing, TypeOK, Control
<1>2. env[r] \in Envelope /\ env[Existing(r)] \in Envelope
  BY <1>1 DEF TypeOK
<1>3. "conflict" \in Outcomes
  BY DEF Outcomes
<1>4. QED
  BY <1>1, <1>2, <1>3, EnvelopeType DEF Joined, PC

\* The initial state is well typed; the lemmas that follow show it of each step.
LEMMA InitType == Init => TypeOK
<1> SUFFICES ASSUME Init PROVE TypeOK
  OBVIOUS
<1>1. NewEnvelope \in Envelope /\ NoReceipt \in Receipt /\ Idle.outcome \in Outcomes
  BY DEF NewEnvelope, Envelope, Outcomes, NoReceipt, Receipt, Idle
<1>2. /\ log \in Seq(Request \cup {NoRequest}) /\ receipts \in [Command -> Receipt]
      /\ env \in [Request -> Envelope] /\ published \in Seq(Nat)
      /\ readModel \in [sequence : Nat, applied : SUBSET Nat]
  BY <1>1 DEF Init
<1>3. /\ reservations \in [Command -> Control \cup {NoRequest}]
      /\ carried \in [Command -> Nat] /\ behind \in [Request -> SUBSET Request]
      /\ worker \in [pc : {"idle", "deciding", "committing", "publishing", "failed", "answering"},
                     request : Request \cup {NoRequest}, outcome : Outcomes, appended : Nat]
  BY <1>1 DEF Init, Idle
<1>4. QED
  BY <1>2, <1>3 DEF Init, TypeOK

\* A transition that leaves the history alone except for counting a database error.
LEMMA FaultType ==
  ASSUME TypeOK, UNCHANGED history \/ (DatabaseFails /\ unreconciled' \in BOOLEAN)
  PROVE  /\ carried' \in [Command -> Nat] /\ reported' \subseteq Command
         /\ behind' \in [Request -> SUBSET Request]
         /\ unreconciled' \in BOOLEAN
         /\ restarts' \in Nat /\ faults' \in Nat /\ foreigners' \in Nat
  BY DEF TypeOK, history, DatabaseFails

\* dispatch before the admission.
LEMMA DispatchType ==
  ASSUME TypeOK, NEW r \in Request, Dispatch(r) PROVE TypeOK'
<1>1. env \in [Request -> Envelope] /\ env[r] \in Envelope
  BY DEF TypeOK
<1>2. {"rejected", "notReady", "error"} \subseteq Outcomes
  BY DEF Outcomes
<1>3. env' \in [Request -> Envelope]
  <2>1. PICK e \in Envelope : env' = [env EXCEPT ![r] = e]
    BY <1>1, <1>2, JoinedType, EnvelopeType DEF Dispatch, PC
  <2>2. QED
    BY <1>1, <2>1
<1>4. UNCHANGED history \/ (DatabaseFails /\ unreconciled' \in BOOLEAN)
  BY DEF Dispatch, TypeOK
<1>5. QED
  BY <1>3, <1>4, FaultType DEF Dispatch, TypeOK, durable, outputs

\* The reservation.
LEMMA ReserveType ==
  ASSUME TypeOK, NEW r \in Request, Reserve(r) PROVE TypeOK'
<1>1. env \in [Request -> Envelope] /\ env[r] \in Envelope /\ admissionOrder + 1 \in Nat
  BY DEF TypeOK
<1>2. "closed" \in Outcomes
  BY DEF Outcomes
<1>3. env' \in [Request -> Envelope]
  <2>1. PICK e \in Envelope : env' = [env EXCEPT ![r] = e]
    BY <1>1, <1>2, JoinedType, EnvelopeType DEF Reserve, PC
  <2>2. QED
    BY <1>1, <2>1
<1>4. reservations' \in [Command -> Control \cup {NoRequest}]
  BY RequestAssumption DEF Reserve, TypeOK
<1>5. behind' \in [Request -> SUBSET Request]
  <2>1. behind \in [Request -> SUBSET Request]
    BY DEF TypeOK
  <2>2. PICK S \in SUBSET Request : behind' = behind \/ behind' = [behind EXCEPT ![r] = S]
    BY DEF Reserve, Turns
  <2>3. QED
    BY <2>1, <2>2
<1>6. admissionOrder' \in Nat
  BY DEF Reserve, TypeOK
<1>7. QED
  BY <1>3, <1>4, <1>5, <1>6 DEF Reserve, TypeOK, durable, outputs

\* admission.offer.
LEMMA OfferType ==
  ASSUME TypeOK, NEW r \in Request, Offer(r) PROVE TypeOK'
<1>1. env \in [Request -> Envelope] /\ env[r] \in Envelope
  BY DEF TypeOK
<1>2. "closed" \in Outcomes /\ "full" \in Outcomes
  BY DEF Outcomes
<1>3. env' \in [Request -> Envelope]
  <2>1. CASE env' = [env EXCEPT ![r].pc = "queued"]
    BY <1>1, <2>1, EnvelopeType DEF PC
  <2>2. CASE env' = Settled({r}, IF phase = "closed" THEN "closed" ELSE "full")
    BY <1>1, <1>2, <2>2, SettledType
  <2>3. QED
    BY <2>1, <2>2 DEF Offer
<1>4. reservations' \in [Command -> Control \cup {NoRequest}] /\ accepted' \subseteq Request
  BY DEF Offer, TypeOK
<1>5. QED
  BY <1>3, <1>4, SMTT(30) DEF Offer, TypeOK, durable, outputs, history

\* admission.take.
LEMMA TakeType ==
  ASSUME TypeOK, NEW r \in Request, Take(r) PROVE TypeOK'
<1>1. env \in [Request -> Envelope] /\ env[r] \in Envelope
  BY DEF TypeOK
<1>2. env' \in [Request -> Envelope]
  BY <1>1, EnvelopeType DEF Take, PC
<1>3. "none" \in Outcomes
  BY DEF Outcomes
<1>4. QED
  BY <1>2, <1>3 DEF Take, TypeOK, durable, outputs, history, Idle

\* The worker, as the types see it.
Worker == [pc : {"idle", "deciding", "committing", "publishing", "failed", "answering"},
           request : Request \cup {NoRequest}, outcome : Outcomes, appended : Nat]

\* The worker in each of the ways in which it goes on.
LEMMA WorkerType ==
  ASSUME worker \in Worker
  PROVE  /\ \A o \in Outcomes : Fails(o) => worker' \in Worker
         /\ \A o \in Outcomes : Accepts(o) => worker' \in Worker
         /\ \A pc \in {"committing", "answering"} :
              worker' = [worker EXCEPT !.pc = pc] => worker' \in Worker
         /\ \A n \in Nat : worker' = [worker EXCEPT !.pc = "publishing", !.appended = n] => worker' \in Worker
         /\ \A n \in Nat, o \in Outcomes :
              worker' = [worker EXCEPT !.pc = "failed", !.outcome = o, !.appended = n] => worker' \in Worker
         /\ worker' = Idle => worker' \in Worker
<1>1. "none" \in Outcomes
  BY DEF Outcomes
<1>2. \A o \in Outcomes : Fails(o) => worker' \in Worker
  BY DEF Worker, Fails
<1>3. \A o \in Outcomes : Accepts(o) => worker' \in Worker
  BY DEF Worker, Accepts
<1>4. \A pc \in {"committing", "answering"} :
              worker' = [worker EXCEPT !.pc = pc] => worker' \in Worker
  BY DEF Worker
<1>5. \A n \in Nat : worker' = [worker EXCEPT !.pc = "publishing", !.appended = n] => worker' \in Worker
  BY DEF Worker
<1>6. \A n \in Nat, o \in Outcomes :
         worker' = [worker EXCEPT !.pc = "failed", !.outcome = o, !.appended = n] => worker' \in Worker
  BY DEF Worker
<1>7. worker' = Idle => worker' \in Worker
  BY <1>1 DEF Worker, Idle
<1>8. QED
  BY <1>2, <1>3, <1>4, <1>5, <1>6, <1>7

\* The receipt, the barriers and the decider.
LEMMA DecideType ==
  ASSUME TypeOK, NEW r \in Request, Decide(r) PROVE TypeOK'
<1>1. worker \in Worker
  BY DEF TypeOK, Worker
<1>2. {"rejected", "notReady", "error", "conflict", "accepted", "previouslyRejected"} \subseteq Outcomes
  BY DEF Outcomes
<1>3. worker' \in Worker
  BY <1>1, <1>2, WorkerType DEF Decide, Replay, Verdict
<1>4. UNCHANGED history \/ (DatabaseFails /\ unreconciled' \in BOOLEAN)
  BY DEF Decide, TypeOK
<1>5. QED
  BY <1>3, <1>4, FaultType DEF Decide, TypeOK, Worker, durable, callers, outputs

\* The transaction.
LEMMA CommitType ==
  ASSUME TypeOK, NEW r \in Request, Commit(r) PROVE TypeOK'
<1>1. worker \in Worker /\ Len(log) + 1 \in Nat
  BY DEF TypeOK, Worker
<1>2. "rejected" \in Outcomes /\ "error" \in Outcomes
  BY DEF Outcomes
<1>3. worker' \in Worker
  BY <1>1, <1>2, WorkerType DEF Commit
<1>4. UNCHANGED history \/ (DatabaseFails /\ unreconciled' \in BOOLEAN)
  BY DEF Commit, TypeOK
<1>5. log' \in Seq(Request \cup {NoRequest}) /\ fallback' \subseteq Command
  <2>1. log \in Seq(Request \cup {NoRequest}) /\ fallback \subseteq Command
    BY DEF TypeOK
  <2>2. log' = Append(log, r) \/ log' = log
    BY DEF Commit, durable
  <2>3. fallback' \subseteq fallback
    BY DEF Commit, durable
  <2>4. QED
    BY <2>1, <2>2, <2>3
<1>6. receipts' \in [Command -> Receipt]
  BY RequestAssumption DEF Commit, TypeOK, durable, Receipt
<1>7. QED
  BY <1>3, <1>4, <1>5, <1>6, FaultType DEF Commit, TypeOK, Worker, callers, outputs

\* What the reactor hears.
LEMMA HeardType ==
  ASSUME TypeOK, NEW r \in Request, Heard(r) PROVE inbox' \subseteq Command
  BY RequestAssumption DEF TypeOK, Heard, Hear

\* After the transaction.
LEMMA PublishType ==
  ASSUME TypeOK, NEW r \in Request, Publish(r) PROVE TypeOK'
<1>1. worker \in Worker /\ env \in [Request -> Envelope]
  BY DEF TypeOK, Worker
<1>2. "superseded" \in Outcomes /\ "accepted" \in Outcomes
  BY DEF Outcomes
<1>3. worker' \in Worker
  BY <1>1, <1>2, WorkerType DEF Publish
<1>4. env' \in [Request -> Envelope]
  <2>1. Settled(Superseded(r), "superseded") \in [Request -> Envelope]
    BY <1>1, <1>2, SettledType
  <2>2. (r \in Control) \in BOOLEAN
    OBVIOUS
  <2>3. QED
    BY <2>1, <2>2, EnvelopeType DEF Publish
<1>5. readModel' \in [sequence : Nat, applied : SUBSET Nat] /\ published' \in Seq(Nat)
  BY DEF Publish, TypeOK
<1>6. QED
  BY <1>3, <1>4, <1>5, HeardType DEF Publish, TypeOK, Worker, durable, history

\* reconcileReadModelAfterDispatchFailure.
LEMMA ReconcileType ==
  ASSUME TypeOK, NEW r \in Request, Reconcile(r) PROVE TypeOK'
<1>1. worker \in Worker
  BY DEF TypeOK, Worker
<1>2. worker' \in Worker
  BY <1>1, WorkerType DEF Reconcile
<1>3. UNCHANGED history \/ (DatabaseFails /\ unreconciled' \in BOOLEAN)
  BY DEF Reconcile, TypeOK
<1>4. readModel' \in [sequence : Nat, applied : SUBSET Nat]
  BY DEF Reconcile, TypeOK, outputs
<1>5. published' \in Seq(Nat)
  <2>1. published \in Seq(Nat) /\ worker.appended \in Nat
    BY DEF TypeOK
  <2>2. published' = published \/ published' = Append(published, worker.appended)
    BY DEF Reconcile, outputs
  <2>3. QED
    BY <2>1, <2>2
<1>6. inbox' \subseteq Command
  BY HeardType DEF Reconcile, TypeOK, outputs
<1>7. QED
  BY <1>2, <1>3, <1>4, <1>5, <1>6, FaultType DEF Reconcile, TypeOK, Worker, durable, callers

\* The answer.
LEMMA AnswerType ==
  ASSUME TypeOK, NEW r \in Request, Answer(r) PROVE TypeOK'
<1>1. worker \in Worker /\ env \in [Request -> Envelope]
  BY DEF TypeOK, Worker
<1>2. worker' \in Worker
  BY <1>1, WorkerType DEF Answer
<1>3. env' \in [Request -> Envelope]
  BY <1>1, SettledType DEF Answer, Worker
<1>4. UNCHANGED history \/ (DatabaseFails /\ unreconciled' \in BOOLEAN)
  BY DEF Answer, TypeOK
<1>5. receipts' \in [Command -> Receipt]
  <2>1. receipts \in [Command -> Receipt] /\ CommandOf[r] \in Command
    BY RequestAssumption DEF TypeOK
  <2>2. [status |-> "rejected", by |-> r] \in Receipt
    BY DEF Receipt
  <2>3. receipts' = receipts \/ receipts' = [receipts EXCEPT ![CommandOf[r]] = [status |-> "rejected", by |-> r]]
    BY DEF Answer
  <2>4. QED
    BY <2>1, <2>2, <2>3
<1>6. reservations' \in [Command -> Control \cup {NoRequest}] /\ accepted' \subseteq Request
  BY DEF Answer, TypeOK, ReleaseEnvelope, ReleaseControl
<1>7. QED
  BY <1>2, <1>3, <1>4, <1>5, <1>6, FaultType DEF Answer, TypeOK, Worker, outputs

\* claimControl.
LEMMA ClaimType ==
  ASSUME TypeOK, NEW c \in Command, Claim(c) PROVE TypeOK'
<1>1. env \in [Request -> Envelope]
  BY DEF TypeOK
<1>2. env' \in [Request -> Envelope]
  <2>1. CASE env' = env
    BY <1>1, <2>1
  <2>2. CASE reservations[c] # NoRequest /\ env' = [env EXCEPT ![reservations[c]].claimed = TRUE]
    BY <1>1, <2>2, EnvelopeType
  <2>3. QED
    BY <2>1, <2>2 DEF Claim
<1>3. carried' \in [Command -> Nat] /\ inbox' \subseteq Command
  <2>1. carried \in [Command -> Nat] /\ inbox \subseteq Command
    BY DEF TypeOK
  <2>2. carried' = carried \/ carried' = [carried EXCEPT ![c] = @ + 1]
    BY DEF Claim
  <2>3. inbox' = inbox \ {c}
    BY DEF Claim
  <2>4. QED
    BY <2>1, <2>2, <2>3
<1>4. QED
  BY <1>2, <1>3 DEF Claim, TypeOK, durable

\* completeControl.
LEMMA CompleteType ==
  ASSUME TypeOK, NEW c \in Command, Complete(c) PROVE TypeOK'
<1>1. reservations' \in [Command -> Control \cup {NoRequest}] /\ accepted' \subseteq Request
  BY DEF Complete, TypeOK, ReleaseControl
<1>2. QED
  BY <1>1 DEF Complete, TypeOK, durable, outputs, history

\* The report of a control is no control itself.
LEMMA NoticeType == ASSUME NEW r \in Control PROVE NoticeOf[r] \in Request /\ NoticeOf[r] \notin Control
<1>1. NoticeOf[r] \in {s \in Request : KindOf[s] = "notice"}
  BY NoticeAssumption
<1>2. QED
  BY <1>1 DEF Control

\* The expiry of a control.
LEMMA ExpireType ==
  ASSUME TypeOK, NEW r \in Request, Expire(r) PROVE TypeOK'
<1>1. env \in [Request -> Envelope] /\ r \in Control
  BY DEF TypeOK, Expire
<1> DEFINE n == NoticeOf[r]
<1>2. n \in Request
  BY <1>1, NoticeType
<1>3. env' \in [Request -> Envelope]
  <2> DEFINE first == [env EXCEPT ![r].expired = TRUE]
  <2>1. first \in [Request -> Envelope]
    BY <1>1, EnvelopeType
  <2>2. env' = [first EXCEPT ![n].pc = IF env[n].pc = "new" THEN "prepared" ELSE @]
    BY DEF Expire
  <2>3. first[n] \in Envelope /\ [first[n] EXCEPT !.pc = "prepared"] \in Envelope
        /\ [first[n] EXCEPT !.pc = first[n].pc] \in Envelope
    <3>1. first[n] \in Envelope
      BY <2>1, <1>2
    <3> HIDE DEF first
    <3>2. QED
      BY <3>1, EnvelopeType DEF PC
  <2>4. QED
    <3> HIDE DEF first, n
    <3>1. QED
      BY <2>1, <2>2, <2>3, <1>2
<1>4. reported' \subseteq Command
  <2>1. reported \subseteq Command /\ CommandOf[r] \in Command
    BY RequestAssumption DEF TypeOK
  <2>2. reported' = reported \cup {CommandOf[r]}
    BY DEF Expire
  <2>3. QED
    BY <2>1, <2>2
<1>5. QED
  BY <1>3, <1>4 DEF Expire, TypeOK, durable, outputs

\* The release of an expired control.
LEMMA ExpiryEndsType ==
  ASSUME TypeOK, NEW r \in Request, ExpiryEnds(r) PROVE TypeOK'
<1>1. reservations' \in [Command -> Control \cup {NoRequest}] /\ accepted' \subseteq Request
  BY DEF ExpiryEnds, TypeOK, ReleaseControl
<1>2. QED
  BY <1>1 DEF ExpiryEnds, TypeOK, durable, outputs, history

\* The end of the scope.
LEMMA CloseType == ASSUME TypeOK, Close PROVE TypeOK'
<1>1. env \in [Request -> Envelope] /\ worker \in Worker
  BY DEF TypeOK, Worker
<1>2. "closed" \in Outcomes
  BY DEF Outcomes
<1>3. env' \in [Request -> Envelope] /\ worker' \in Worker
  BY <1>1, <1>2, SettledType, WorkerType DEF Close
<1>4. QED
  BY <1>3 DEF Close, TypeOK, Worker, durable, outputs, history

\* A crash or the next start.
LEMMA RestartType == ASSUME TypeOK, Restart PROVE TypeOK'
<1>1. env \in [Request -> Envelope]
  BY DEF TypeOK
<1>2. "lost" \in Outcomes /\ "none" \in Outcomes
  BY DEF Outcomes
<1>3. env' \in [Request -> Envelope]
  BY <1>1, <1>2, EnvelopeType DEF Restart, PC
<1>4. worker' \in Worker
  BY <1>2 DEF Restart, Idle, Worker
<1>5. readModel' \in [sequence : Nat, applied : SUBSET Nat]
  <2>1. log \in Seq(Request \cup {NoRequest})
    BY DEF TypeOK
  <2>2. Len(log) \in Nat /\ DOMAIN log \in SUBSET Nat
    BY <2>1
  <2>3. readModel' = [sequence |-> Len(log), applied |-> DOMAIN log]
    BY DEF Restart
  <2>4. QED
    BY <2>2, <2>3
<1>6. reservations' \in [Command -> Control \cup {NoRequest}] /\ published' \in Seq(Nat)
  <2>1. reservations' = [c \in Command |-> NoRequest] /\ published' = <<>>
    BY Zenon DEF Restart
  <2>2. QED
    BY <2>1
<1>7. restarts' \in Nat
  <2>1. restarts' = restarts + 1
    BY Zenon DEF Restart
  <2>2. QED
    BY <2>1 DEF TypeOK
<1>8. /\ phase' \in {"running", "draining", "closed"} /\ admissionOrder' \in Nat
      /\ accepted' \subseteq Request /\ inbox' \subseteq Command /\ unreconciled' \in BOOLEAN
  BY DEF Restart
<1>9. /\ UNCHANGED <<log, receipts, fallback, carried, reported, behind, faults, foreigners>>
  BY DEF Restart, durable
<1>10. QED
  BY <1>3, <1>4, <1>5, <1>6, <1>7, <1>8, <1>9 DEF TypeOK, Worker

\* The steps of the surroundings.
LEMMA OtherTypes ==
  ASSUME TypeOK, \/ \E c \in Command : SteerComesBack(c)
                 \/ AnotherServerAppends \/ BeginShutdown \/ UNCHANGED vars
  PROVE  TypeOK'
<1>1. ASSUME NEW c \in Command, SteerComesBack(c) PROVE TypeOK'
  BY <1>1 DEF SteerComesBack, TypeOK, callers, outputs, history
<1>2. CASE AnotherServerAppends
  BY <1>2 DEF AnotherServerAppends, TypeOK, callers, outputs
<1>3. CASE BeginShutdown
  BY <1>3 DEF BeginShutdown, TypeOK, durable, callers, outputs, history
<1>4. CASE UNCHANGED vars
  BY <1>4 DEF vars, TypeOK, durable, callers, outputs, history
<1>5. QED
  BY <1>1, <1>2, <1>3, <1>4

\* Every step keeps the types.
LEMMA NextType == TypeOK /\ [Next]_vars => TypeOK'
  BY DispatchType, ReserveType, OfferType, TakeType, DecideType, CommitType, PublishType,
     ReconcileType, AnswerType, ClaimType, CompleteType, ExpireType, ExpiryEndsType, CloseType,
     RestartType, OtherTypes
  DEF Next, Work

\* Every variable keeps its type in every behaviour of the engine, with any number of
\* calls, failures, restarts and events of other servers.
THEOREM TypeCorrect == Spec => []TypeOK
  BY InitType, NextType, PTL DEF Spec

-----------------------------------------------------------------------------
(* What the actions do to the envelopes. *)

\* The fields of an envelope that its answer does not change.
Kept(e, f) == /\ e.order = f.order /\ e.committed = f.committed
              /\ e.claimed = f.claimed /\ e.expired = f.expired

\* Only the state of the call has changed; or it has been answered.
Moved(e, f, pc) == Kept(e, f) /\ e.onto = f.onto /\ e.outcome = f.outcome /\ e.pc = pc
Ended(e, f, o)  == Kept(e, f) /\ e.pc = "done" /\ e.outcome = o
Unmoved(e, f)   == e.onto = f.onto /\ e.outcome = f.outcome /\ e.pc = f.pc /\ e.order = f.order

\* What changing one field of an envelope, or answering it, leaves alone.
LEMMA MovedField ==
  ASSUME NEW e \in Envelope, NEW f, NEW pc, f = [e EXCEPT !.pc = pc] PROVE Moved(f, e, pc)
  BY DEF Moved, Kept, Envelope

\* The same of an envelope that is answered,
LEMMA EndedField ==
  ASSUME NEW e \in Envelope, NEW f, NEW o, f = [e EXCEPT !.pc = "done", !.outcome = o] PROVE Ended(f, e, o)
  BY DEF Ended, Kept, Envelope

\* that is committed,
LEMMA CommittedField ==
  ASSUME NEW e \in Envelope, NEW f, NEW b, f = [e EXCEPT !.committed = b]
  PROVE  Unmoved(f, e) /\ f.committed = b /\ f.claimed = e.claimed /\ f.expired = e.expired
  BY DEF Unmoved, Envelope

\* claimed,
LEMMA ClaimedField ==
  ASSUME NEW e \in Envelope, NEW f, f = [e EXCEPT !.claimed = TRUE]
  PROVE  Unmoved(f, e) /\ f.claimed /\ f.committed = e.committed /\ f.expired = e.expired
  BY DEF Unmoved, Envelope

\* or expired.
LEMMA ExpiredField ==
  ASSUME NEW e \in Envelope, NEW f, f = [e EXCEPT !.expired = TRUE]
  PROVE  Unmoved(f, e) /\ f.expired /\ f.committed = e.committed /\ f.claimed = e.claimed
  BY DEF Unmoved, Envelope

\* r awaits, or already has, the result of the control that holds its command id.
JoinsIn(e, r) ==
  LET x == Existing(r)
  IN  /\ r \in Control /\ x \in Control /\ x = reservations[CommandOf[r]]
      /\ Kept(e, env[r])
      /\ \/ e.pc = "done" /\ e.outcome = "conflict"
         \/ AggregateOf[x] = AggregateOf[r] /\ e.pc = "done" /\ env[x].pc = "done" /\ e.outcome = env[x].outcome
         \/ AggregateOf[x] = AggregateOf[r] /\ e.pc = "joined" /\ e.onto = x /\ env[x].pc # "done"
              /\ e.outcome = env[r].outcome

\* What Joined gives a duplicate.
LEMMA JoinedEffect ==
  ASSUME TypeOK, NEW r \in Request, Existing(r) # NoRequest
  PROVE  JoinsIn(Joined(r), r)
<1>1. /\ r \in Control /\ Existing(r) \in Control /\ Existing(r) = reservations[CommandOf[r]]
  BY RequestAssumption DEF Existing, TypeOK, Control
<1>2. env[r] \in Envelope
  BY DEF TypeOK
<1> DEFINE x == Existing(r)
<1> HIDE DEF x
<1>3. CASE AggregateOf[x] # AggregateOf[r]
  <2>1. Joined(r) = [env[r] EXCEPT !.pc = "done", !.outcome = "conflict"]
    BY <1>3 DEF Joined, x
  <2>2. QED
    BY <2>1, <1>1, <1>2 DEF JoinsIn, Kept, Envelope
<1>4. CASE AggregateOf[x] = AggregateOf[r] /\ env[x].pc = "done"
  <2>1. Joined(r) = [env[r] EXCEPT !.pc = "done", !.outcome = env[x].outcome]
    BY <1>4 DEF Joined, x
  <2>2. QED
    BY <2>1, <1>1, <1>2, <1>4 DEF JoinsIn, Kept, Envelope, x
<1>5. CASE AggregateOf[x] = AggregateOf[r] /\ env[x].pc # "done"
  <2>1. Joined(r) = [env[r] EXCEPT !.pc = "joined", !.onto = x]
    BY <1>5 DEF Joined, x
  <2>2. QED
    BY <2>1, <1>1, <1>2, <1>5 DEF JoinsIn, Kept, Envelope, x
<1>6. QED
  BY <1>3, <1>4, <1>5

\* The envelopes of `rs` and those that joined them are done with outcome o, the rest is as it was.
SettlesIn(f, rs, o) ==
  \A s \in Request :
    /\ Kept(f[s], env[s]) /\ f[s].onto = env[s].onto
    /\ \/ f[s] = env[s] /\ (s \in rs => env[s].pc = "done")
       \/ /\ env[s].pc # "done" /\ f[s].pc = "done" /\ f[s].outcome = o
          /\ s \in rs \/ (env[s].pc = "joined" /\ env[s].onto \in rs)

\* What Settled does to every envelope.
LEMMA SettledEffect ==
  ASSUME TypeOK, NEW rs, NEW o \in Outcomes
  PROVE  SettlesIn(Settled(rs, o), rs, o)
<1> SUFFICES ASSUME NEW s \in Request
             PROVE  LET f == Settled(rs, o) IN
               /\ Kept(f[s], env[s]) /\ f[s].onto = env[s].onto
               /\ \/ f[s] = env[s] /\ (s \in rs => env[s].pc = "done")
                  \/ /\ env[s].pc # "done" /\ f[s].pc = "done" /\ f[s].outcome = o
                     /\ s \in rs \/ (env[s].pc = "joined" /\ env[s].onto \in rs)
  BY DEF SettlesIn
<1>1. env[s] \in Envelope
  BY DEF TypeOK
<1>2. CASE env[s].pc # "done" /\ \E r \in rs : s \in AnsweredBy(r)
  <2>1. Settled(rs, o)[s] = [env[s] EXCEPT !.pc = "done", !.outcome = o]
    BY <1>2 DEF Settled
  <2>2. s \in rs \/ (env[s].pc = "joined" /\ env[s].onto \in rs)
    BY <1>2 DEF AnsweredBy
  <2>3. QED
    BY <2>1, <2>2, <1>1, <1>2 DEF Kept, Envelope
<1>3. CASE ~(env[s].pc # "done" /\ \E r \in rs : s \in AnsweredBy(r))
  <2>1. Settled(rs, o)[s] = env[s]
    BY <1>3 DEF Settled
  <2>2. s \in rs => env[s].pc = "done"
    BY <1>3 DEF AnsweredBy
  <2>3. QED
    BY <2>1, <2>2 DEF Kept
<1>4. QED
  BY <1>2, <1>3

\* Before the admission a call joins a reserved control, is prepared or is turned away.
LEMMA DispatchEffect ==
  ASSUME TypeOK, NEW r \in Request, Dispatch(r)
  PROVE  /\ env[r].pc = "new" /\ \A s \in Request \ {r} : env'[s] = env[s]
         /\ \/ Existing(r) # NoRequest /\ JoinsIn(env'[r], r)
            \/ Existing(r) = NoRequest /\ Moved(env'[r], env[r], "prepared")
            \/ \E o \in {"rejected", "notReady", "error"} : Ended(env'[r], env[r], o)
<1>1. env \in [Request -> Envelope] /\ env[r] \in Envelope
  BY DEF TypeOK
<1>2. env[r].pc = "new"
  BY DEF Dispatch
<1>3. CASE Existing(r) # NoRequest /\ env' = [env EXCEPT ![r] = Joined(r)]
  BY <1>1, <1>2, <1>3, JoinedEffect
<1>4. CASE Existing(r) = NoRequest /\ env' = [env EXCEPT ![r].pc = "prepared"]
  <2>1. env'[r] = [env[r] EXCEPT !.pc = "prepared"] /\ \A s \in Request \ {r} : env'[s] = env[s]
    BY <1>1, <1>4
  <2>2. Moved(env'[r], env[r], "prepared")
    BY <1>1, <2>1, MovedField
  <2>3. QED
    BY <1>2, <1>4, <2>1, <2>2
<1>5. ASSUME NEW o \in {"rejected", "notReady", "error"}, env' = [env EXCEPT ![r].pc = "done", ![r].outcome = o]
      PROVE  /\ \A s \in Request \ {r} : env'[s] = env[s]
             /\ Ended(env'[r], env[r], o)
  <2>1. /\ env'[r] = [env[r] EXCEPT !.pc = "done", !.outcome = o]
        /\ \A s \in Request \ {r} : env'[s] = env[s]
    BY <1>1, <1>5
  <2>2. QED
    BY <1>1, <2>1, EndedField
<1>6. \/ Existing(r) # NoRequest /\ env' = [env EXCEPT ![r] = Joined(r)]
      \/ Existing(r) = NoRequest /\ env' = [env EXCEPT ![r].pc = "prepared"]
      \/ \E o \in {"rejected", "notReady", "error"} : env' = [env EXCEPT ![r].pc = "done", ![r].outcome = o]
  BY Zenon DEF Dispatch
<1>7. QED
  BY <1>2, <1>3, <1>4, <1>5, <1>6

\* A call is told that the server closes, joins a control that came first, or gets its
\* admission order and reservation.
LEMMA ReserveEffect ==
  ASSUME TypeOK, NEW r \in Request, Reserve(r)
  PROVE  /\ env[r].pc = "prepared" /\ \A s \in Request \ {r} : env'[s] = env[s]
         /\ \/ /\ Ended(env'[r], env[r], "closed")
               /\ UNCHANGED <<admissionOrder, reservations, behind>>
            \/ /\ Existing(r) # NoRequest /\ JoinsIn(env'[r], r)
               /\ UNCHANGED <<admissionOrder, reservations, behind>>
            \/ /\ Existing(r) = NoRequest
               /\ env'[r].pc = "reserved" /\ env'[r].order = admissionOrder + 1
               /\ env'[r].onto = env[r].onto /\ env'[r].outcome = env[r].outcome
               /\ env'[r].committed = env[r].committed
               /\ env'[r].claimed = env[r].claimed /\ env'[r].expired = env[r].expired
               /\ admissionOrder' = admissionOrder + 1
               /\ reservations' = IF r \in Control THEN [reservations EXCEPT ![CommandOf[r]] = r]
                                  ELSE reservations
               /\ behind' = IF KindOf[r] = "stop"
                            THEN [behind EXCEPT ![r] = {s \in Turns : env[s].pc = "queued"
                                                         /\ AggregateOf[s] = AggregateOf[r]}]
                            ELSE behind
<1>1. env \in [Request -> Envelope] /\ env[r] \in Envelope /\ env[r].pc = "prepared"
  BY DEF TypeOK, Reserve
<1>2. CASE /\ env' = [env EXCEPT ![r].pc = "done", ![r].outcome = "closed"]
           /\ UNCHANGED <<admissionOrder, reservations, behind>>
  <2>1. /\ env'[r] = [env[r] EXCEPT !.pc = "done", !.outcome = "closed"]
        /\ \A s \in Request \ {r} : env'[s] = env[s]
    BY <1>1, <1>2
  <2>2. Ended(env'[r], env[r], "closed")
    BY <1>1, <2>1, EndedField
  <2>3. QED
    BY <1>1, <1>2, <2>1, <2>2
<1>3. CASE /\ Existing(r) # NoRequest /\ env' = [env EXCEPT ![r] = Joined(r)]
           /\ UNCHANGED <<admissionOrder, reservations, behind>>
  BY <1>1, <1>3, JoinedEffect
<1>4. CASE /\ Existing(r) = NoRequest
           /\ admissionOrder' = admissionOrder + 1
           /\ env' = [env EXCEPT ![r].pc = "reserved", ![r].order = admissionOrder + 1]
           /\ reservations' = IF r \in Control THEN [reservations EXCEPT ![CommandOf[r]] = r]
                              ELSE reservations
           /\ behind' = IF KindOf[r] = "stop"
                        THEN [behind EXCEPT ![r] = {s \in Turns : env[s].pc = "queued"
                                                         /\ AggregateOf[s] = AggregateOf[r]}]
                        ELSE behind
  <2>1. /\ env'[r] = [env[r] EXCEPT !.pc = "reserved", !.order = admissionOrder + 1]
        /\ \A s \in Request \ {r} : env'[s] = env[s]
    BY <1>1, <1>4
  <2>2. /\ env'[r].pc = "reserved" /\ env'[r].order = admissionOrder + 1
        /\ env'[r].onto = env[r].onto /\ env'[r].outcome = env[r].outcome
        /\ env'[r].committed = env[r].committed
        /\ env'[r].claimed = env[r].claimed /\ env'[r].expired = env[r].expired
    BY <1>1, <2>1 DEF Envelope
  <2>3. QED
    BY <1>1, <1>4, <2>1, <2>2, Zenon
<1>5. QED
  BY <1>2, <1>3, <1>4, Zenon DEF Reserve

\* An offered call is queued, or refused with everyone who joined it.
LEMMA OfferEffect ==
  ASSUME TypeOK, NEW r \in Request, Offer(r)
  PROVE  /\ env[r].pc = "reserved"
         /\ \/ /\ phase # "closed" /\ Moved(env'[r], env[r], "queued")
               /\ \A s \in Request \ {r} : env'[s] = env[s]
               /\ accepted' = accepted \cup {r} /\ UNCHANGED reservations
            \/ /\ \E o \in {"closed", "full"} : SettlesIn(env', {r}, o)
               /\ reservations' = [c \in Command |-> IF reservations[c] = r THEN NoRequest ELSE reservations[c]]
               /\ UNCHANGED accepted
<1>1. "closed" \in Outcomes /\ "full" \in Outcomes
  BY DEF Outcomes
<1>2. /\ env[r].pc = "reserved"
      /\ \/ /\ phase # "closed" /\ env' = [env EXCEPT ![r].pc = "queued"]
            /\ accepted' = accepted \cup {r} /\ UNCHANGED reservations
         \/ /\ env' = Settled({r}, IF phase = "closed" THEN "closed" ELSE "full")
            /\ reservations' = [c \in Command |-> IF reservations[c] = r THEN NoRequest ELSE reservations[c]]
            /\ UNCHANGED accepted
  BY Zenon DEF Offer
<1>3. ASSUME env' = Settled({r}, IF phase = "closed" THEN "closed" ELSE "full")
      PROVE  \E o \in {"closed", "full"} : SettlesIn(env', {r}, o)
  <2>1. PICK o \in {"closed", "full"} : env' = Settled({r}, o)
    BY <1>3
  <2>2. SettlesIn(env', {r}, o)
    BY <1>1, <2>1, SettledEffect
  <2>3. QED
    BY <2>2
<1>4. ASSUME env' = [env EXCEPT ![r].pc = "queued"]
      PROVE  Moved(env'[r], env[r], "queued") /\ \A s \in Request \ {r} : env'[s] = env[s]
  <2>1. env \in [Request -> Envelope] /\ env[r] \in Envelope
    BY DEF TypeOK
  <2>2. env'[r] = [env[r] EXCEPT !.pc = "queued"] /\ \A s \in Request \ {r} : env'[s] = env[s]
    BY <1>4, <2>1
  <2>3. QED
    BY <2>1, <2>2, MovedField
<1>5. QED
  BY <1>2, <1>3, <1>4, Zenon

\* The worker takes a queued command.
LEMMA TakeEffect ==
  ASSUME TypeOK, NEW r \in Request, Take(r)
  PROVE  /\ env[r].pc = "queued" /\ Moved(env'[r], env[r], "taken")
         /\ \A s \in Request \ {r} : env'[s] = env[s]
<1>1. env \in [Request -> Envelope] /\ env[r] \in Envelope
  BY DEF TypeOK
<1>2. env' = [env EXCEPT ![r].pc = "taken"] /\ env[r].pc = "queued"
  BY DEF Take
<1>3. env'[r] = [env[r] EXCEPT !.pc = "taken"] /\ \A s \in Request \ {r} : env'[s] = env[s]
  BY <1>1, <1>2
<1>4. QED
  BY <1>1, <1>2, <1>3, MovedField

\* A published stop answers the turns it supersedes; other envelopes stay.
LEMMA PublishEffect ==
  ASSUME TypeOK, NEW r \in Request, Publish(r), env[r].pc = "taken"
  PROVE  /\ Unmoved(env'[r], env[r]) /\ env'[r].committed = (r \in Control)
         /\ env'[r].claimed = env[r].claimed /\ env'[r].expired = env[r].expired
         /\ \A s \in Request \ {r} :
              /\ Kept(env'[s], env[s]) /\ env'[s].onto = env[s].onto
              /\ \/ env'[s] = env[s] /\ s \notin Superseded(r)
                 \/ /\ env[s].pc # "done" /\ env'[s].pc = "done" /\ env'[s].outcome = "superseded"
                    /\ s \in Superseded(r) \/ (env[s].pc = "joined" /\ env[s].onto \in Superseded(r))
<1> DEFINE f == Settled(Superseded(r), "superseded")
<1>1. "superseded" \in Outcomes
  BY DEF Outcomes
<1>2. SettlesIn(f, Superseded(r), "superseded") /\ f \in [Request -> Envelope]
  BY <1>1, SettledEffect, SettledType DEF TypeOK
<1>3. env' = [f EXCEPT ![r].committed = (r \in Control)]
  BY DEF Publish
<1>4. \A s \in Superseded(r) : env[s].pc = "queued"
  BY DEF Superseded
<1> HIDE DEF f
<1>5. f[r] = env[r]
  BY <1>2, <1>4 DEF SettlesIn
<1>6. \A s \in Request \ {r} : env'[s] = f[s]
  BY <1>2, <1>3
<1>7. /\ Unmoved(env'[r], env[r]) /\ env'[r].committed = (r \in Control)
      /\ env'[r].claimed = env[r].claimed /\ env'[r].expired = env[r].expired
  <2>1. env'[r] = [env[r] EXCEPT !.committed = (r \in Control)] /\ env[r] \in Envelope
    BY <1>2, <1>3, <1>5
  <2>2. QED
    BY <2>1, CommittedField
<1>8. QED
  BY <1>2, <1>4, <1>6, <1>7 DEF SettlesIn

\* An answer reaches the caller and everyone who joined its envelope.
LEMMA AnswerEffect ==
  ASSUME TypeOK, NEW r \in Request, Answer(r) PROVE SettlesIn(env', {r}, worker.outcome)
  BY SettledEffect DEF Answer, TypeOK

\* A claim marks the control that holds the reservation, if it is free.
LEMMA ClaimEffect ==
  ASSUME TypeOK, NEW c \in Command, Claim(c)
  PROVE  \/ UNCHANGED <<env, carried>>
         \/ /\ reservations[c] \in Control /\ ~env[reservations[c]].expired /\ ~env[reservations[c]].claimed
            /\ Unmoved(env'[reservations[c]], env[reservations[c]]) /\ env'[reservations[c]].claimed
            /\ env'[reservations[c]].committed = env[reservations[c]].committed
            /\ env'[reservations[c]].expired = env[reservations[c]].expired
            /\ \A s \in Request \ {reservations[c]} : env'[s] = env[s]
            /\ carried' = [carried EXCEPT ![c] = @ + 1]
<1>1. env \in [Request -> Envelope] /\ reservations[c] \in Control \cup {NoRequest} /\ Control \subseteq Request
  BY DEF TypeOK, Control
<1>2. \/ UNCHANGED <<env, carried>>
      \/ /\ reservations[c] # NoRequest /\ ~env[reservations[c]].expired /\ ~env[reservations[c]].claimed
         /\ env' = [env EXCEPT ![reservations[c]].claimed = TRUE]
         /\ carried' = [carried EXCEPT ![c] = @ + 1]
  BY Zenon DEF Claim
<1>3. CASE UNCHANGED <<env, carried>>
  BY <1>3
<1>4. CASE /\ reservations[c] # NoRequest /\ ~env[reservations[c]].expired /\ ~env[reservations[c]].claimed
           /\ env' = [env EXCEPT ![reservations[c]].claimed = TRUE]
           /\ carried' = [carried EXCEPT ![c] = @ + 1]
  <2> DEFINE r == reservations[c]
  <2>1. r \in Control /\ r \in Request /\ env[r] \in Envelope
    BY <1>1, <1>4
  <2> HIDE DEF r
  <2>2. env'[r] = [env[r] EXCEPT !.claimed = TRUE] /\ \A s \in Request \ {r} : env'[s] = env[s]
    BY <1>1, <1>4, <2>1 DEF r
  <2>3. /\ Unmoved(env'[r], env[r]) /\ env'[r].claimed
        /\ env'[r].committed = env[r].committed /\ env'[r].expired = env[r].expired
    BY <2>1, <2>2, ClaimedField
  <2>4. QED
    BY <1>4, <2>1, <2>2, <2>3 DEF r
<1>5. QED
  BY <1>2, <1>3, <1>4

\* An expiry marks its control and starts the report.
LEMMA ExpireEffect ==
  ASSUME TypeOK, NEW r \in Request, Expire(r)
  PROVE  /\ r \in Control /\ NoticeOf[r] \in Request /\ NoticeOf[r] # r
         /\ Unmoved(env'[r], env[r]) /\ env'[r].expired
         /\ env'[r].committed = env[r].committed /\ env'[r].claimed = env[r].claimed
         /\ \/ env[NoticeOf[r]].pc = "new" /\ Moved(env'[NoticeOf[r]], env[NoticeOf[r]], "prepared")
            \/ env[NoticeOf[r]].pc # "new" /\ env'[NoticeOf[r]] = env[NoticeOf[r]]
         /\ \A s \in Request \ {r, NoticeOf[r]} : env'[s] = env[s]
<1>1. env \in [Request -> Envelope] /\ r \in Control
  BY DEF TypeOK, Expire
<1> DEFINE n == NoticeOf[r]
<1>2. n \in Request /\ n # r
  BY <1>1, NoticeType
<1> HIDE DEF n
<1>3. env' = [[env EXCEPT ![r].expired = TRUE]
                   EXCEPT ![n].pc = IF env[n].pc = "new" THEN "prepared" ELSE @]
  BY DEF Expire, n
<1>4. env[n] \in Envelope /\ env[r] \in Envelope
  BY <1>1, <1>2
<1>5. env'[r] = [env[r] EXCEPT !.expired = TRUE] /\ \A s \in Request \ {r, n} : env'[s] = env[s]
  BY <1>1, <1>2, <1>3
<1>6. /\ Unmoved(env'[r], env[r]) /\ env'[r].expired
      /\ env'[r].committed = env[r].committed /\ env'[r].claimed = env[r].claimed
  BY <1>4, <1>5, ExpiredField
<1>7. CASE env[n].pc = "new"
  <2>1. env'[n] = [env[n] EXCEPT !.pc = "prepared"]
    BY <1>1, <1>2, <1>3, <1>7
  <2>2. Moved(env'[n], env[n], "prepared")
    BY <1>4, <2>1, MovedField
  <2>3. QED
    BY <1>1, <1>2, <1>5, <1>6, <1>7, <2>2 DEF n
<1>8. CASE env[n].pc # "new"
  <2>1. env' = [[env EXCEPT ![r].expired = TRUE] EXCEPT ![n].pc = env[n].pc]
    BY <1>1, <1>2, <1>3, <1>8
  <2>2. [env[n] EXCEPT !.pc = env[n].pc] = env[n]
    BY <1>4 DEF Envelope
  <2>3. env'[n] = env[n]
    BY <1>1, <1>2, <2>1, <2>2
  <2>4. QED
    BY <1>1, <1>2, <1>5, <1>6, <1>8, <2>3 DEF n
<1>9. QED
  BY <1>7, <1>8

\* A closing server answers every admitted call but the one in progress.
LEMMA CloseEffect ==
  ASSUME TypeOK, Close PROVE SettlesIn(env', accepted \ {worker.request}, "closed")
<1>1. "closed" \in Outcomes
  BY DEF Outcomes
<1>2. QED
  BY <1>1, SettledEffect DEF Close

\* A restart ends every call that was under way.
LEMMA RestartEffect ==
  ASSUME TypeOK, Restart, NEW s \in Request
  PROVE  \/ env[s].pc \in {"new", "done"} /\ env'[s] = env[s]
         \/ env[s].pc \notin {"new", "done"} /\ Ended(env'[s], env[s], "lost")
<1>1. env[s] \in Envelope
  BY DEF TypeOK
<1>2. env'[s] = IF env[s].pc \in {"new", "done"} THEN env[s]
                ELSE [env[s] EXCEPT !.pc = "done", !.outcome = "lost"]
  BY Zenon DEF Restart
<1>3. QED
  BY <1>1, <1>2, EndedField

-----------------------------------------------------------------------------
(* The worker and the command it has taken; reservations and joined calls. *)

Working ==
  /\ worker.pc = "idle" => worker = Idle
  /\ worker.pc # "idle" => /\ worker.request \in Request /\ env[worker.request].pc = "taken"
                           /\ phase # "closed"
  /\ \A r \in Request : env[r].pc = "taken" => worker.request = r \/ phase = "closed"
  /\ worker.pc \in {"deciding", "committing"} => worker.appended = 0 /\ worker.outcome = "none"

\* It holds initially.
LEMMA WorkingInit == Init => Working
  BY DEF Init, Working, Idle, NewEnvelope

\* The fields of an idle worker.
LEMMA IdleWorker == Idle.pc = "idle" /\ Idle.request = NoRequest /\ Idle.outcome = "none" /\ Idle.appended = 0
  BY DEF Idle

\* What a step of the worker other than Take and Answer does to the worker.
LEMMA WorkerSteps ==
  ASSUME TypeOK, NEW r \in Request
  PROVE  /\ Decide(r) =>
              /\ worker.pc = "deciding" /\ worker.request = r
              /\ worker'.request = r /\ worker'.appended = worker.appended
              /\ \/ /\ worker'.pc = "committing" /\ worker'.outcome = worker.outcome
                    /\ receipts[CommandOf[r]].status = "none" \/ SteerFallback(r)
                 \/ worker'.pc = "failed" /\ worker'.outcome \in {"conflict", "previouslyRejected", "rejected", "notReady", "error"}
                 \/ worker'.pc = "answering" /\ worker'.outcome = "accepted" /\ Replay(r)
         /\ Commit(r) =>
              /\ worker.pc = "committing" /\ worker.request = r /\ worker'.request = r
              /\ \/ /\ worker'.appended = Len(log) + 1 /\ log' = Append(log, r)
                    /\ receipts' = [receipts EXCEPT ![CommandOf[r]] = [status |-> "accepted", by |-> r]]
                    /\ fallback' = fallback \ {CommandOf[r]}
                    /\ \/ worker'.pc = "publishing" /\ worker'.outcome = worker.outcome
                       \/ worker'.pc = "failed" /\ worker'.outcome = "error"
                 \/ /\ worker'.appended = worker.appended /\ UNCHANGED durable
                    /\ worker'.pc = "failed" /\ worker'.outcome \in {"rejected", "error"}
         /\ Publish(r) =>
              /\ worker.pc = "publishing" /\ worker.request = r
              /\ worker' = [worker EXCEPT !.pc = "answering", !.outcome = "accepted"]
              /\ worker'.request = r /\ worker'.appended = worker.appended
              /\ worker'.pc = "answering" /\ worker'.outcome = "accepted"
         /\ Reconcile(r) =>
              /\ worker.pc = "failed" /\ worker.request = r
              /\ worker.outcome \notin {"conflict", "previouslyRejected"}
              /\ worker'.request = r /\ worker'.appended = worker.appended
              /\ worker'.pc = "answering" /\ worker'.outcome = worker.outcome
<1>1. worker \in Worker
  BY DEF TypeOK, Worker
<1>2. ASSUME NEW o, Fails(o)
      PROVE  worker'.pc = "failed" /\ worker'.outcome = o /\ worker'.request = worker.request /\ worker'.appended = worker.appended
  BY <1>1, <1>2 DEF Fails, Worker
<1>3. ASSUME NEW o, Accepts(o)
      PROVE  /\ worker' = [worker EXCEPT !.pc = "answering", !.outcome = o]
             /\ worker'.pc = "answering" /\ worker'.outcome = o /\ worker'.request = worker.request /\ worker'.appended = worker.appended
  BY <1>1, <1>3 DEF Accepts, Worker
<1>4. ASSUME Decide(r)
      PROVE  /\ worker.pc = "deciding" /\ worker.request = r
             /\ worker'.request = r /\ worker'.appended = worker.appended
             /\ \/ /\ worker'.pc = "committing" /\ worker'.outcome = worker.outcome
                   /\ receipts[CommandOf[r]].status = "none" \/ SteerFallback(r)
                \/ worker'.pc = "failed" /\ worker'.outcome \in {"conflict", "previouslyRejected", "rejected", "notReady", "error"}
                \/ worker'.pc = "answering" /\ worker'.outcome = "accepted" /\ Replay(r)
  <2>1. CASE Replay(r)
    BY <1>2, <1>3, <1>4, <2>1 DEF Decide, Replay
  <2>2. CASE Verdict(r)
    BY <1>1, <1>2, <1>4, <2>2 DEF Decide, Verdict, Worker
  <2>3. CASE Fails("error")
    BY <1>2, <1>4, <2>3 DEF Decide
  <2>4. QED
    BY <1>4, <2>1, <2>2, <2>3 DEF Decide
<1>5. ASSUME Commit(r)
      PROVE  /\ worker.pc = "committing" /\ worker.request = r /\ worker'.request = r
             /\ \/ /\ worker'.appended = Len(log) + 1 /\ log' = Append(log, r)
                   /\ receipts' = [receipts EXCEPT ![CommandOf[r]] = [status |-> "accepted", by |-> r]]
                   /\ fallback' = fallback \ {CommandOf[r]}
                   /\ \/ worker'.pc = "publishing" /\ worker'.outcome = worker.outcome
                      \/ worker'.pc = "failed" /\ worker'.outcome = "error"
                \/ /\ worker'.appended = worker.appended /\ UNCHANGED durable
                   /\ worker'.pc = "failed" /\ worker'.outcome \in {"rejected", "error"}
  <2> DEFINE n == Len(log) + 1
  <2>1. n \in Nat
    BY DEF TypeOK
  <2>2. CASE /\ log' = Append(log, r)
             /\ receipts' = [receipts EXCEPT ![CommandOf[r]] = [status |-> "accepted", by |-> r]]
             /\ fallback' = fallback \ {CommandOf[r]}
             /\ \/ worker' = [worker EXCEPT !.pc = "publishing", !.appended = n]
                \/ worker' = [worker EXCEPT !.pc = "failed", !.outcome = "error", !.appended = n]
    <3>1. worker.pc = "committing" /\ worker.request = r
      BY <1>5 DEF Commit
    <3> HIDE DEF n
    <3>2. /\ worker'.request = r /\ worker'.appended = n
          /\ \/ worker'.pc = "publishing" /\ worker'.outcome = worker.outcome
             \/ worker'.pc = "failed" /\ worker'.outcome = "error"
      BY <1>1, <2>1, <2>2, <3>1 DEF Worker
    <3>3. QED
      BY <2>2, <3>1, <3>2 DEF n
  <2>3. CASE (Fails("rejected") \/ Fails("error")) /\ UNCHANGED durable
    BY <1>2, <1>5, <2>3 DEF Commit
  <2>4. QED
    BY <1>5, <2>2, <2>3 DEF Commit, durable
<1>6. ASSUME Publish(r)
      PROVE  /\ worker.pc = "publishing" /\ worker.request = r
             /\ worker' = [worker EXCEPT !.pc = "answering", !.outcome = "accepted"]
             /\ worker'.request = r /\ worker'.appended = worker.appended
             /\ worker'.pc = "answering" /\ worker'.outcome = "accepted"
  BY <1>3, <1>6 DEF Publish
<1>7. ASSUME Reconcile(r)
      PROVE  /\ worker.pc = "failed" /\ worker.request = r
             /\ worker.outcome \notin {"conflict", "previouslyRejected"}
             /\ worker'.request = r /\ worker'.appended = worker.appended
             /\ worker'.pc = "answering" /\ worker'.outcome = worker.outcome
  <2>1. /\ worker.pc = "failed" /\ worker.request = r
        /\ worker.outcome \notin {"conflict", "previouslyRejected"}
        /\ worker' = [worker EXCEPT !.pc = "answering"]
    BY <1>7, Zenon DEF Reconcile
  <2>2. QED
    BY <1>1, <2>1 DEF Worker
<1>8. QED
  BY <1>4, <1>5, <1>6, <1>7

\* The worker and the taken command stay in step.
LEMMA WorkingNext ==
  ASSUME TypeOK, Working, [Next]_vars PROVE Working'
<1> USE IdleWorker
<1>1. ASSUME NEW r \in Request, Dispatch(r) PROVE Working'
  <2>1. env'[r].pc \in {"joined", "prepared", "done"} /\ UNCHANGED <<worker, phase>>
    BY <1>1, DispatchEffect DEF JoinsIn, Dispatch, Moved, Ended
  <2>2. QED
    BY <1>1, <2>1, DispatchEffect DEF Working
<1>2. ASSUME NEW r \in Request, Reserve(r) PROVE Working'
  <2>1. env'[r].pc \in {"joined", "reserved", "done"} /\ UNCHANGED <<worker, phase>>
    BY <1>2, ReserveEffect DEF JoinsIn, Reserve, Ended
  <2>2. QED
    BY <1>2, <2>1, ReserveEffect DEF Working
<1>3. ASSUME NEW r \in Request, Offer(r) PROVE Working'
  <2>1. env[r].pc = "reserved" /\ UNCHANGED <<worker, phase>>
    BY <1>3 DEF Offer
  <2>2. CASE env'[r].pc = "queued" /\ \A s \in Request \ {r} : env'[s] = env[s]
    BY <2>1, <2>2 DEF Working
  <2>3. ASSUME NEW o, SettlesIn(env', {r}, o) PROVE Working'
    BY <2>1, <2>3 DEF Working, SettlesIn
  <2>4. QED
    BY <1>3, <2>2, <2>3, OfferEffect DEF Moved
<1>4. ASSUME NEW r \in Request, Take(r) PROVE Working'
  <2>1. /\ worker = Idle /\ phase # "closed" /\ phase' = phase
        /\ worker'.pc = "deciding" /\ worker'.request = r /\ worker'.appended = 0 /\ worker'.outcome = "none"
    BY <1>4 DEF Take, Idle
  <2>3. env'[r].pc = "taken" /\ \A s \in Request \ {r} : env'[s] = env[s]
    BY <1>4, TakeEffect DEF Moved
  <2>4. \A s \in Request : env[s].pc # "taken"
    BY <2>1, RequestAssumption DEF Working
  <2>5. QED
    BY <2>1, <2>3, <2>4 DEF Working
<1>5. ASSUME NEW r \in Request, Decide(r) \/ Commit(r) \/ Reconcile(r) PROVE Working'
  <2>1. UNCHANGED <<env, phase>>
    BY <1>5 DEF Decide, Commit, Reconcile, callers
  <2>2. QED
    BY <1>5, <2>1, WorkerSteps DEF Working
<1>6. ASSUME NEW r \in Request, Publish(r) PROVE Working'
  <2>1. worker.pc = "publishing" /\ worker.request = r /\ worker'.pc = "answering" /\ worker'.request = r
        /\ phase' = phase
    BY <1>6, WorkerSteps DEF Publish
  <2>2. env[r].pc = "taken"
    BY <2>1 DEF Working
  <2>3. env'[r].pc = "taken" /\ \A s \in Request \ {r} : env'[s].pc = "taken" => env[s].pc = "taken"
    BY <1>6, <2>2, PublishEffect DEF Unmoved
  <2>4. QED
    BY <2>1, <2>3 DEF Working
<1>7. ASSUME NEW r \in Request, Answer(r) PROVE Working'
  <2>1. worker.request = r /\ worker.pc # "idle" /\ worker' = Idle /\ phase' = phase
    BY <1>7 DEF Answer
  <2>2. \A s \in Request : env'[s].pc # "taken"
    BY <1>7, <2>1, AnswerEffect DEF Working, SettlesIn
  <2>3. QED
    BY <2>1, <2>2 DEF Working
<1>8. ASSUME NEW c \in Command, Claim(c) PROVE Working'
  <2>1. UNCHANGED <<worker, phase>>
    BY <1>8 DEF Claim
  <2>2. \A s \in Request : env'[s].pc = env[s].pc
    BY <1>8, ClaimEffect DEF Unmoved
  <2>3. QED
    BY <2>1, <2>2 DEF Working
<1>9. ASSUME NEW r \in Request, Expire(r) PROVE Working'
  <2>1. UNCHANGED <<worker, phase>>
    BY <1>9 DEF Expire
  <2>2. \A s \in Request : env'[s].pc = env[s].pc \/ (env[s].pc = "new" /\ env'[s].pc = "prepared")
    BY <1>9, ExpireEffect DEF Unmoved, Moved
  <2>3. QED
    BY <2>1, <2>2 DEF Working
<1>10. CASE Close
  <2>1. phase' = "closed" /\ worker' = Idle
    BY <1>10 DEF Close
  <2>2. QED
    BY <2>1 DEF Working
<1>11. CASE Restart
  <2>1. worker' = Idle
    BY <1>11 DEF Restart
  <2>2. \A s \in Request : env'[s].pc # "taken"
    BY <1>11, RestartEffect DEF Ended
  <2>3. QED
    BY <2>1, <2>2 DEF Working
<1>12. CASE BeginShutdown
  <2>1. UNCHANGED <<worker, env>> /\ phase = "running" /\ phase' = "draining"
    BY <1>12 DEF BeginShutdown, callers
  <2>2. QED
    BY <2>1 DEF Working
<1>13. CASE \/ \E c \in Command : Complete(c) \/ SteerComesBack(c)
            \/ \E r \in Request : ExpiryEnds(r)
            \/ AnotherServerAppends \/ UNCHANGED vars
  <2>1. UNCHANGED <<worker, env, phase>>
    BY <1>13 DEF Complete, SteerComesBack, ExpiryEnds, AnotherServerAppends, vars, callers
  <2>2. QED
    BY <2>1 DEF Working
<1>14. QED
  BY <1>1, <1>2, <1>3, <1>4, <1>5, <1>6, <1>7, <1>8, <1>9, <1>10, <1>11, <1>12, <1>13 DEF Next, Work

-----------------------------------------------------------------------------
(* What a step can do to a call. *)

Refusals == {"rejected", "notReady", "full", "superseded"}

Same(s) == env'[s].pc = env[s].pc /\ env'[s].onto = env[s].onto /\ env'[s].outcome = env[s].outcome

Advances(s) ==
  /\ env'[s].onto = env[s].onto /\ env'[s].outcome = env[s].outcome
  /\ \/ env[s].pc = "new" /\ env'[s].pc = "prepared" /\ (KindOf[s] = "notice" \/ MayDispatch(s))
     \/ /\ env[s].pc = "prepared" /\ env'[s].pc = "reserved" /\ Reserve(s)
        /\ admissionOrder' = admissionOrder + 1 /\ env'[s].order = admissionOrder'
     \/ env[s].pc = "reserved" /\ env'[s].pc = "queued"
     \/ env[s].pc = "queued" /\ env'[s].pc = "taken"

JoinsNow(s) == env[s].pc \in {"new", "prepared"} /\ Existing(s) # NoRequest /\ JoinsIn(env'[s], s)

AnsweredNow(s) ==
  /\ env[s].pc # "done" /\ env'[s].pc = "done" /\ env'[s].outcome = worker.outcome
  /\ worker.request = s \/ (env[s].pc = "joined" /\ env[s].onto = worker.request)

TurnedAway(s) ==
  /\ env[s].pc # "done" /\ env'[s].pc = "done"
  /\ \/ env'[s].outcome \in {"error", "closed", "lost"}
     \/ env'[s].outcome \in Refusals /\ env[s].pc # "taken"

Change(s) == Same(s) \/ Advances(s) \/ JoinsNow(s) \/ AnsweredNow(s) \/ TurnedAway(s)

\* Every step leaves a call as it is, brings it one stage on, joins it to a control,
\* answers it with the outcome of the worker, or turns it away.
LEMMA Calls ==
  ASSUME TypeOK, Working, [Next]_vars, NEW s \in Request PROVE Change(s)
<1>0. Control \subseteq Request
  BY DEF Control
<1>1. ASSUME NEW r \in Request, Dispatch(r) PROVE Change(s)
  <2>1. CASE s # r
    BY <1>1, <2>1, DispatchEffect DEF Change, Same
  <2>2. CASE s = r /\ Existing(r) # NoRequest /\ JoinsIn(env'[r], r)
    BY <1>1, <2>2, DispatchEffect DEF Change, JoinsNow
  <2>3. CASE s = r /\ Moved(env'[r], env[r], "prepared")
    <3>1. MayDispatch(r) /\ env[r].pc = "new"
      BY <1>1 DEF Dispatch
    <3>2. QED
      BY <2>3, <3>1 DEF Change, Advances, Moved
  <2>4. ASSUME NEW o \in {"rejected", "notReady", "error"}, s = r, Ended(env'[r], env[r], o) PROVE Change(s)
    <3>1. env[r].pc = "new"
      BY <1>1 DEF Dispatch
    <3>2. QED
      BY <2>4, <3>1 DEF Change, TurnedAway, Ended, Refusals
  <2>5. QED
    BY <1>1, <2>1, <2>2, <2>3, <2>4, DispatchEffect
<1>2. ASSUME NEW r \in Request, Reserve(r) PROVE Change(s)
  <2>1. CASE s # r
    BY <1>2, <2>1, ReserveEffect DEF Change, Same
  <2>2. CASE s = r /\ Existing(r) # NoRequest /\ JoinsIn(env'[r], r)
    BY <1>2, <2>2, ReserveEffect DEF Change, JoinsNow
  <2>3. CASE s = r /\ Ended(env'[r], env[r], "closed")
    BY <1>2, <2>3, ReserveEffect DEF Change, TurnedAway, Ended
  <2>4. CASE /\ s = r /\ env'[r].pc = "reserved" /\ env'[r].onto = env[r].onto /\ env'[r].outcome = env[r].outcome
             /\ env'[r].order = admissionOrder + 1 /\ admissionOrder' = admissionOrder + 1
    BY <1>2, <2>4, ReserveEffect DEF Change, Advances
  <2>5. QED
    BY <1>2, <2>1, <2>2, <2>3, <2>4, ReserveEffect
<1>3. ASSUME NEW r \in Request, Offer(r) PROVE Change(s)
  <2>1. CASE Moved(env'[r], env[r], "queued") /\ \A q \in Request \ {r} : env'[q] = env[q]
    BY <1>3, <2>1, OfferEffect DEF Change, Same, Advances, Moved
  <2>2. ASSUME NEW o \in {"closed", "full"}, SettlesIn(env', {r}, o) PROVE Change(s)
    <3>1. env[r].pc = "reserved"
      BY <1>3, OfferEffect
    <3>2. QED
      BY <2>2, <3>1 DEF Change, Same, TurnedAway, SettlesIn, Refusals
  <2>3. QED
    BY <1>3, <2>1, <2>2, OfferEffect
<1>4. ASSUME NEW r \in Request, Take(r) PROVE Change(s)
  BY <1>4, TakeEffect DEF Change, Same, Advances, Moved
<1>5. ASSUME NEW r \in Request, Decide(r) \/ Commit(r) \/ Reconcile(r) PROVE Change(s)
  <2>1. env' = env
    BY <1>5 DEF Decide, Commit, Reconcile, callers
  <2>2. QED
    BY <2>1 DEF Change, Same
<1>6. ASSUME NEW r \in Request, Publish(r) PROVE Change(s)
  <2>1. env[r].pc = "taken"
    BY <1>6 DEF Publish, Working
  <2>2. \A q \in Superseded(r) : env[q].pc = "queued"
    BY DEF Superseded
  <2>3. CASE s = r
    BY <1>6, <2>1, <2>3, PublishEffect DEF Unmoved, Change, Same
  <2>4. CASE s # r
    BY <1>6, <2>1, <2>2, <2>4, PublishEffect DEF Change, Same, TurnedAway, Refusals
  <2>5. QED
    BY <2>3, <2>4
<1>7. ASSUME NEW r \in Request, Answer(r) PROVE Change(s)
  <2>1. worker.request = r
    BY <1>7 DEF Answer
  <2>2. QED
    BY <1>7, <2>1, AnswerEffect DEF SettlesIn, Change, Same, AnsweredNow
<1>8. ASSUME NEW c \in Command, Claim(c) PROVE Change(s)
  BY <1>0, <1>8, ClaimEffect DEF Unmoved, Change, Same
<1>9. ASSUME NEW r \in Request, Expire(r) PROVE Change(s)
  <2>1. r \in Control => KindOf[NoticeOf[r]] = "notice"
    BY NoticeAssumption
  <2>2. QED
    BY <1>9, <2>1, ExpireEffect DEF Unmoved, Moved, Change, Same, Advances
<1>10. CASE Close
  BY <1>10, CloseEffect DEF SettlesIn, Change, Same, TurnedAway
<1>11. CASE Restart
  BY <1>11, RestartEffect DEF Ended, Change, Same, TurnedAway
<1>12. CASE \/ \E c \in Command : Complete(c) \/ SteerComesBack(c)
            \/ \E r \in Request : ExpiryEnds(r)
            \/ AnotherServerAppends \/ BeginShutdown \/ UNCHANGED vars
  <2>1. env' = env
    BY <1>12 DEF Complete, SteerComesBack, ExpiryEnds, AnotherServerAppends, BeginShutdown, vars, callers
  <2>2. QED
    BY <2>1 DEF Change, Same
<1>13. QED
  BY <1>1, <1>2, <1>3, <1>4, <1>5, <1>6, <1>7, <1>8, <1>9, <1>10, <1>11, <1>12 DEF Next, Work

-----------------------------------------------------------------------------
(* What a step can do to the log and to what follows from it. *)

\* A step that is none of the worker, of the start or end of a process, of another
\* server and of the queue.
Quiet ==
  /\ UNCHANGED <<log, receipts, fallback, worker, published, readModel, unreconciled>>
  /\ phase = "closed" => phase' = "closed"

\* Which steps are not quiet.
LEMMA StepKinds ==
  ASSUME [Next]_vars
  PROVE  \/ Quiet
         \/ \E r \in Request : Work(r)
         \/ \E c \in Command : SteerComesBack(c)
         \/ AnotherServerAppends \/ Close \/ Restart
<1>1. ASSUME NEW r \in Request, Dispatch(r) PROVE Quiet
  BY <1>1 DEF Dispatch, Quiet, durable, outputs, history, DatabaseFails
<1>2. ASSUME NEW r \in Request, Reserve(r) \/ Offer(r) PROVE Quiet
  BY <1>2 DEF Reserve, Offer, Quiet, durable, outputs, history
<1>3. ASSUME NEW c \in Command, Claim(c) \/ Complete(c) PROVE Quiet
  BY <1>3 DEF Claim, Complete, Quiet, durable, outputs, history
<1>4. ASSUME NEW r \in Request, Expire(r) \/ ExpiryEnds(r) PROVE Quiet
  BY <1>4 DEF Expire, ExpiryEnds, Quiet, durable, outputs, history
<1>5. CASE BeginShutdown \/ UNCHANGED vars
  BY <1>5 DEF BeginShutdown, vars, Quiet, durable, outputs, history
<1>6. QED
  BY <1>1, <1>2, <1>3, <1>4, <1>5 DEF Next

\* What Append does to a sequence.
LEMMA Appending ==
  ASSUME NEW S, NEW q \in Seq(S), NEW e \in S
  PROVE  /\ Len(q) \in Nat /\ Len(q) + 1 \notin DOMAIN q
         /\ DOMAIN q = 1..Len(q) /\ DOMAIN Append(q, e) = DOMAIN q \cup {Len(q) + 1}
         /\ \A i \in DOMAIN q : Append(q, e)[i] = q[i] /\ i \in Nat /\ i < Len(q) + 1
         /\ Append(q, e)[Len(q) + 1] = e
  OBVIOUS

\* The log only grows, at its end.
LEMMA LogStep ==
  ASSUME TypeOK, [Next]_vars
  PROVE  \/ log' = log
         \/ log' = Append(log, NoRequest)
         \/ \E r \in Request : Commit(r) /\ log' = Append(log, r)
<1>1. ASSUME NEW r \in Request, Work(r) PROVE log' = log \/ (Commit(r) /\ log' = Append(log, r))
  BY <1>1, WorkerSteps DEF Work, Take, Decide, Publish, Reconcile, Answer, durable
<1>2. CASE Quiet \/ \E c \in Command : SteerComesBack(c)
  BY <1>2 DEF Quiet, SteerComesBack
<1>3. CASE AnotherServerAppends
  BY <1>3 DEF AnotherServerAppends
<1>4. CASE Close \/ Restart
  BY <1>4 DEF Close, Restart, durable
<1>5. QED
  BY <1>1, <1>2, <1>3, <1>4, StepKinds

\* No entry is lost or changed, and a new one is foreign or committed in this step.
LEMMA LogGrows ==
  ASSUME TypeOK, [Next]_vars
  PROVE  /\ \A i \in DOMAIN log : i \in DOMAIN log' /\ log'[i] = log[i]
         /\ \A i \in DOMAIN log' \ DOMAIN log :
              log'[i] = NoRequest \/ (log'[i] \in Request /\ Commit(log'[i]))
<1>1. log \in Seq(Request \cup {NoRequest})
  BY DEF TypeOK
<1>2. CASE log' = log
  BY <1>2
<1>3. CASE log' = Append(log, NoRequest)
  BY <1>1, <1>3, Appending
<1>4. ASSUME NEW r \in Request, Commit(r), log' = Append(log, r)
      PROVE  /\ \A i \in DOMAIN log : i \in DOMAIN log' /\ log'[i] = log[i]
             /\ \A i \in DOMAIN log' \ DOMAIN log : log'[i] = r
  BY <1>1, <1>4, Appending
<1>5. QED
  BY <1>2, <1>3, <1>4, LogStep

InLog(r)  == \E i \in DOMAIN log : log[i] = r
Logged(r) == \E i \in DOMAIN log : /\ log[i] # NoRequest
                                   /\ CommandOf[log[i]] = CommandOf[r] /\ AggregateOf[log[i]] = AggregateOf[r]

\* What is in the log stays there, and a call gets there by Commit only.
LEMMA InLogStep ==
  ASSUME TypeOK, [Next]_vars, NEW r \in Request
  PROVE  (InLog(r) => InLog(r)') /\ (Logged(r) => Logged(r)') /\ (InLog(r)' => InLog(r) \/ Commit(r))
<1>1. r # NoRequest
  BY RequestAssumption
<1>2. InLog(r) => InLog(r)'
  BY LogGrows DEF InLog
<1>3. Logged(r) => Logged(r)'
  BY LogGrows DEF Logged
<1>4. InLog(r)' => InLog(r) \/ Commit(r)
  BY <1>1, LogGrows DEF InLog
<1>5. QED
  BY <1>2, <1>3, <1>4

=============================================================================
