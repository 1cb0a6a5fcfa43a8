---------------------- MODULE OrchestrationEngineProofs ----------------------
(*****************************************************************************)
(* What the engine guarantees of the log for any calls, commands and         *)
(* threads, any number of failures, crashes and events of other servers:     *)
(* commands are committed once, callers are told the truth about them,       *)
(* their events are published in order and the read model follows.           *)
(* And of its controls: a published stop supersedes the turns that were      *)
(* queued when it was ordered and, as long as no two controls are sent under *)
(* one command id, what was reported as not sent is not carried out and no   *)
(* place of the admission queue leaks.                                       *)
(*****************************************************************************)
EXTENDS OrchestrationEngineSteps

-----------------------------------------------------------------------------
(* Reservations and joined calls. *)

\* A reservation is for its own command; who joined another call names the same command
\* and the same thread.
Bound ==
  /\ \A c \in Command : reservations[c] # NoRequest => CommandOf[reservations[c]] = c
  /\ \A s \in Request : env[s].pc = "joined" =>
       /\ env[s].onto \in Request /\ CommandOf[env[s].onto] = CommandOf[s]
       /\ AggregateOf[env[s].onto] = AggregateOf[s]

\* A reservation is made by Reserve, for the command of its call.
LEMMA ReservationStep ==
  ASSUME TypeOK, [Next]_vars, NEW c \in Command
  PROVE  \/ reservations'[c] = reservations[c] \/ reservations'[c] = NoRequest
         \/ \E r \in Control : Reserve(r) /\ CommandOf[r] = c /\ reservations'[c] = r
<1>0. reservations \in [Command -> Control \cup {NoRequest}] /\ Control \subseteq Request
  BY DEF TypeOK, Control
<1>1. ASSUME NEW r \in Request, Reserve(r)
      PROVE  \/ reservations'[c] = reservations[c]
             \/ r \in Control /\ CommandOf[r] = c /\ reservations'[c] = r
  <2>1. \/ UNCHANGED reservations
        \/ reservations' = IF r \in Control THEN [reservations EXCEPT ![CommandOf[r]] = r] ELSE reservations
    BY <1>1, Zenon DEF Reserve
  <2>2. QED
    BY <1>0, <2>1
<1>2. ASSUME NEW r \in Request, Offer(r)
      PROVE  reservations'[c] = reservations[c] \/ reservations'[c] = NoRequest
  BY <1>2 DEF Offer
<1>3. ASSUME NEW d, ReleaseControl(d)
      PROVE  reservations'[c] = reservations[c] \/ reservations'[c] = NoRequest
  BY <1>0, <1>3 DEF ReleaseControl
<1>4. ASSUME NEW r \in Request, Answer(r)
      PROVE  reservations'[c] = reservations[c] \/ reservations'[c] = NoRequest
  BY <1>3, <1>4 DEF Answer, ReleaseEnvelope
<1>5. ASSUME \/ \E d \in Command : Complete(d)
             \/ \E r \in Request : ExpiryEnds(r)
      PROVE  reservations'[c] = reservations[c] \/ reservations'[c] = NoRequest
  BY <1>3, <1>5 DEF Complete, ExpiryEnds
<1>6. CASE Close \/ Restart
  BY <1>6 DEF Close, Restart
<1>7. ASSUME \/ \E r \in Request : \/ Dispatch(r) \/ Take(r) \/ Decide(r) \/ Commit(r) \/ Publish(r)
                                   \/ Reconcile(r) \/ Expire(r)
             \/ \E d \in Command : Claim(d) \/ SteerComesBack(d)
             \/ AnotherServerAppends \/ BeginShutdown \/ UNCHANGED vars
      PROVE  UNCHANGED reservations
  BY <1>7 DEF Dispatch, Take, Decide, Commit, Publish, Reconcile, Expire, Claim, SteerComesBack,
              AnotherServerAppends, BeginShutdown, vars, callers
<1>8. QED
  BY <1>1, <1>2, <1>4, <1>5, <1>6, <1>7 DEF Next, Work

\* Reservations and joined calls stay bound.
LEMMA BoundNext ==
  ASSUME TypeOK, Working, Bound, [Next]_vars PROVE Bound'
<1>1. ASSUME NEW c \in Command, reservations'[c] # NoRequest PROVE CommandOf[reservations'[c]] = c
  BY <1>1, ReservationStep DEF Bound
<1>2. ASSUME NEW s \in Request, env'[s].pc = "joined"
      PROVE  /\ env'[s].onto \in Request /\ CommandOf[env'[s].onto] = CommandOf[s]
             /\ AggregateOf[env'[s].onto] = AggregateOf[s]
  <2>1. CASE Same(s)
    BY <1>2, <2>1 DEF Same, Bound
  <2>2. CASE JoinsNow(s)
    <3>1. /\ s \in Control /\ Existing(s) \in Control /\ Existing(s) = reservations[CommandOf[s]]
          /\ AggregateOf[Existing(s)] = AggregateOf[s] /\ env'[s].onto = Existing(s)
      BY <1>2, <2>2 DEF JoinsNow, JoinsIn
    <3>2. CommandOf[s] \in Command /\ Existing(s) \in Request /\ Existing(s) # NoRequest
      BY <3>1, RequestAssumption DEF Control
    <3>3. QED
      BY <3>1, <3>2 DEF Bound
  <2>3. QED
    BY <1>2, <2>1, <2>2, Calls DEF Change, Advances, AnsweredNow, TurnedAway
<1>3. QED
  BY <1>1, <1>2 DEF Bound

-----------------------------------------------------------------------------
(* The log, the receipts and the commands whose steer came back. *)

Recorded ==
  /\ \A i \in DOMAIN log : log[i] # NoRequest => receipts[CommandOf[log[i]]].status # "none"
  /\ \A i, j \in DOMAIN log :
       /\ i < j /\ log[i] # NoRequest /\ log[j] # NoRequest /\ CommandOf[log[i]] = CommandOf[log[j]]
       => KindOf[log[i]] = "steer" /\ KindOf[log[j]] = "start"
  /\ \A i \in DOMAIN log :
       log[i] # NoRequest /\ CommandOf[log[i]] \in fallback => KindOf[log[i]] = "steer"
  /\ \A s \in Request : KindOf[s] = "steer" /\ CommandOf[s] \in fallback => env[s].pc \in {"new", "done"}
  /\ worker.pc = "committing" =>
       receipts[CommandOf[worker.request]].status = "none" \/ SteerFallback(worker.request)

\* A command falls back to a start by SteerComesBack only.
LEMMA FallbackStep ==
  ASSUME TypeOK, [Next]_vars, NEW c \in fallback' PROVE c \in fallback \/ (c \in Command /\ SteerComesBack(c))
<1>1. ASSUME NEW r \in Request, Work(r) PROVE fallback' \subseteq fallback
  BY <1>1, WorkerSteps DEF Work, Take, Decide, Publish, Reconcile, Answer, durable
<1>2. ASSUME NEW d \in Command, SteerComesBack(d) PROVE fallback' = fallback \cup {d}
  BY <1>2 DEF SteerComesBack
<1>3. CASE Quiet \/ AnotherServerAppends \/ Close \/ Restart
  BY <1>3 DEF Quiet, AnotherServerAppends, Close, Restart, durable
<1>4. QED
  BY <1>1, <1>2, <1>3, StepKinds

\* No steer is under way under a command that fell back.
LEMMA SteersStayOut ==
  ASSUME TypeOK, Working, Recorded, [Next]_vars,
         NEW s \in Request, KindOf[s] = "steer", CommandOf[s] \in fallback'
  PROVE  env'[s].pc \in {"new", "done"}
<1>1. CASE CommandOf[s] \in fallback
  <2>1. env[s].pc \in {"new", "done"} /\ s \notin Control /\ ~MayDispatch(s)
    BY <1>1 DEF Recorded, Control, MayDispatch
  <2>2. QED
    BY <2>1, Calls DEF Change, Same, Advances, JoinsNow, JoinsIn, AnsweredNow, TurnedAway
<1>2. CASE SteerComesBack(CommandOf[s])
  BY <1>2 DEF SteerComesBack, callers
<1>3. QED
  BY <1>1, <1>2, FallbackStep

\* What the log, the receipts and the fallen back commands say of each other is kept.
LEMMA RecordedNext ==
  ASSUME TypeOK, Working, Recorded, [Next]_vars PROVE Recorded'
<1>0. \A s \in Request : KindOf[s] = "steer" /\ CommandOf[s] \in fallback' => env'[s].pc \in {"new", "done"}
  BY SteersStayOut
<1> DEFINE History ==
      /\ \A i \in DOMAIN log : log[i] # NoRequest => receipts[CommandOf[log[i]]].status # "none"
      /\ \A i, j \in DOMAIN log :
           /\ i < j /\ log[i] # NoRequest /\ log[j] # NoRequest /\ CommandOf[log[i]] = CommandOf[log[j]]
           => KindOf[log[i]] = "steer" /\ KindOf[log[j]] = "start"
      /\ \A i \in DOMAIN log :
           log[i] # NoRequest /\ CommandOf[log[i]] \in fallback => KindOf[log[i]] = "steer"
<1> DEFINE Free ==
      worker.pc = "committing" =>
        receipts[CommandOf[worker.request]].status = "none" \/ SteerFallback(worker.request)
<1> SUFFICES History' /\ Free'
  BY <1>0 DEF Recorded
<1>1. History /\ Free
  BY DEF Recorded
<1>2. CASE Quiet
  BY <1>1, <1>2 DEF Quiet, SteerFallback
<1>3. ASSUME NEW r \in Request, Take(r) \/ Decide(r) \/ Publish(r) \/ Reconcile(r)
      PROVE  History' /\ Free'
  <2>1. UNCHANGED durable
    BY <1>3 DEF Take, Decide, Publish, Reconcile
  <2>2. worker'.pc = "committing" => worker'.request = r /\
           (receipts[CommandOf[r]].status = "none" \/ SteerFallback(r))
    BY <1>3, WorkerSteps DEF Take, Idle
  <2>3. QED
    BY <1>1, <2>1, <2>2 DEF durable, SteerFallback
<1>4. ASSUME NEW r \in Request, Answer(r) PROVE History' /\ Free'
  <2>1. UNCHANGED <<log, fallback>> /\ worker'.pc = "idle"
    BY <1>4, IdleWorker DEF Answer
  <2>2. \A c \in Command : receipts[c].status # "none" => receipts'[c].status # "none"
    <3>1. \/ receipts' = receipts
          \/ receipts' = [receipts EXCEPT ![CommandOf[r]] = [status |-> "rejected", by |-> r]]
      BY <1>4 DEF Answer
    <3>2. receipts \in [Command -> Receipt]
      BY DEF TypeOK
    <3>3. QED
      BY <3>1, <3>2
  <2>3. \A i \in DOMAIN log : log[i] # NoRequest => CommandOf[log[i]] \in Command
    BY RequestAssumption DEF TypeOK
  <2>4. QED
    BY <1>1, <2>1, <2>2, <2>3
<1>5. ASSUME NEW r \in Request, Commit(r) PROVE History' /\ Free'
  <2>1. worker.pc = "committing" /\ worker.request = r /\ worker'.pc # "committing"
    BY <1>5, WorkerSteps
  <2>2. CASE UNCHANGED durable
    BY <1>1, <2>1, <2>2 DEF durable
  <2>3. CASE /\ log' = Append(log, r)
             /\ receipts' = [receipts EXCEPT ![CommandOf[r]] = [status |-> "accepted", by |-> r]]
             /\ fallback' = fallback \ {CommandOf[r]}
    <3>1. log \in Seq(Request \cup {NoRequest}) /\ CommandOf[r] \in Command /\ r # NoRequest
          /\ receipts \in [Command -> Receipt]
      BY RequestAssumption DEF TypeOK
    <3>2. \A i \in DOMAIN log : log[i] # NoRequest => CommandOf[log[i]] \in Command /\ log[i] \in Request
      BY <3>1, RequestAssumption
    <3>3. \A i \in DOMAIN log : log[i] # NoRequest /\ CommandOf[log[i]] = CommandOf[r]
                                  => KindOf[log[i]] = "steer" /\ KindOf[r] = "start"
      <4>1. CASE receipts[CommandOf[r]].status = "none"
        BY <1>1, <4>1
      <4>2. CASE SteerFallback(r)
        <5>1. CommandOf[r] \in fallback /\ KindOf[r] \in {"start", "steer"}
          BY <4>2 DEF SteerFallback, Turns
        <5>2. env[r].pc = "taken"
          BY <2>1 DEF Working
        <5>3. KindOf[r] # "steer"
          BY <5>1, <5>2 DEF Recorded
        <5>4. QED
          BY <1>1, <5>1, <5>3
      <4>3. QED
        BY <1>1, <2>1, <4>1, <4>2
    <3>4. /\ DOMAIN log' = DOMAIN log \cup {Len(log) + 1} /\ log'[Len(log) + 1] = r
          /\ \A i \in DOMAIN log : log'[i] = log[i] /\ i < Len(log) + 1 /\ i \in Nat
          /\ Len(log) \in Nat
      BY <2>3, <3>1, Appending
    <3>5. \A c \in Command : receipts[c].status # "none" \/ c = CommandOf[r] => receipts'[c].status # "none"
      BY <2>3, <3>1
    <3> DEFINE n == Len(log) + 1
    <3>6. \A i \in DOMAIN log' : log'[i] # NoRequest => receipts'[CommandOf[log'[i]]].status # "none"
      BY <1>1, <3>1, <3>2, <3>4, <3>5
    <3>7. \A i \in DOMAIN log' :
            log'[i] # NoRequest /\ CommandOf[log'[i]] \in fallback' => KindOf[log'[i]] = "steer"
      BY <1>1, <2>3, <3>4
    <3>8. \A i, j \in DOMAIN log' :
            /\ i < j /\ log'[i] # NoRequest /\ log'[j] # NoRequest /\ CommandOf[log'[i]] = CommandOf[log'[j]]
            => KindOf[log'[i]] = "steer" /\ KindOf[log'[j]] = "start"
      <4> SUFFICES ASSUME NEW i \in DOMAIN log', NEW j \in DOMAIN log',
                          i < j, log'[i] # NoRequest, log'[j] # NoRequest,
                          CommandOf[log'[i]] = CommandOf[log'[j]]
                   PROVE  KindOf[log'[i]] = "steer" /\ KindOf[log'[j]] = "start"
        OBVIOUS
      <4>1. i \in DOMAIN log
        BY <3>4
      <4>2. CASE j \in DOMAIN log
        BY <1>1, <3>4, <4>1, <4>2
      <4>3. CASE j = Len(log) + 1
        BY <3>3, <3>4, <4>1, <4>3
      <4>4. QED
        BY <3>4, <4>2, <4>3
    <3>9. QED
      BY <2>1, <3>6, <3>7, <3>8
  <2>4. QED
    BY <1>5, <2>2, <2>3, WorkerSteps
<1>6. ASSUME NEW c \in Command, SteerComesBack(c) PROVE History' /\ Free'
  <2>1. UNCHANGED <<log, receipts, worker>> /\ fallback' = fallback \cup {c}
    BY <1>6 DEF SteerComesBack
  <2>2. PICK i \in DOMAIN log : /\ log[i] # NoRequest /\ KindOf[log[i]] = "steer" /\ CommandOf[log[i]] = c
                                /\ \A j \in (i + 1)..Len(log) : log[j] # NoRequest => CommandOf[log[j]] # c
    BY <1>6 DEF SteerComesBack
  <2>3. \A j \in DOMAIN log : log[j] # NoRequest /\ CommandOf[log[j]] = c => KindOf[log[j]] = "steer"
    <3> SUFFICES ASSUME NEW j \in DOMAIN log, log[j] # NoRequest, CommandOf[log[j]] = c
                 PROVE  KindOf[log[j]] = "steer"
      OBVIOUS
    <3>1. i \in Nat /\ j \in Nat /\ j \in 1..Len(log)
      BY DEF TypeOK
    <3>2. ~(j > i)
      BY <2>2, <3>1
    <3>3. j = i \/ j < i
      BY <3>1, <3>2
    <3>4. QED
      BY <1>1, <2>2, <3>3
  <2>4. QED
    BY <1>1, <2>1, <2>3 DEF SteerFallback
<1>7. CASE AnotherServerAppends
  <2>1. UNCHANGED <<receipts, fallback, worker>> /\ log' = Append(log, NoRequest)
    BY <1>7 DEF AnotherServerAppends
  <2>2. log \in Seq(Request \cup {NoRequest})
    BY DEF TypeOK
  <2>3. /\ DOMAIN log' = DOMAIN log \cup {Len(log) + 1} /\ log'[Len(log) + 1] = NoRequest
        /\ \A i \in DOMAIN log : log'[i] = log[i]
    BY <2>1, <2>2, Appending
  <2>4. QED
    BY <1>1, <2>1, <2>3 DEF SteerFallback
<1>8. CASE Close \/ Restart
  <2>1. UNCHANGED durable /\ worker'.pc = "idle"
    BY <1>8, IdleWorker DEF Close, Restart
  <2>2. QED
    BY <1>1, <2>1 DEF durable
<1>9. QED
  BY <1>2, <1>3, <1>4, <1>5, <1>6, <1>7, <1>8, StepKinds DEF Work

-----------------------------------------------------------------------------
(* Receipts, the command the worker is at, and what callers have been told. *)

\* Receipts name calls, accepted ones a call in the log; what the worker is about to
\* answer, and where it says it appended, is true of the log.
Accountable ==
  /\ \A c \in Command : receipts[c].status # "none" =>
       /\ receipts[c].by \in Request /\ CommandOf[receipts[c].by] = c
       /\ receipts[c].status = "accepted" => InLog(receipts[c].by)
  /\ worker.appended # 0 => worker.appended \in DOMAIN log /\ log[worker.appended] = worker.request
  /\ worker.pc = "publishing" => worker.appended # 0
  /\ worker.outcome = "accepted" => worker.request \in Request /\ Logged(worker.request)
  /\ worker.pc \in {"deciding", "committing"} \/ worker.outcome \in Refusals => ~InLog(worker.request)

Told ==
  \A s \in Request :
    /\ env[s].pc # "done" => env[s].outcome = "none"
    /\ env[s].pc \notin {"taken", "done"} => ~InLog(s)
    /\ env[s].outcome = "accepted" => Logged(s)
    /\ env[s].outcome \in Refusals => ~InLog(s)

\* Receipts stay true,
LEMMA ReceiptsNext ==
  ASSUME TypeOK, Working, Accountable, [Next]_vars, NEW c \in Command, receipts'[c].status # "none"
  PROVE  /\ receipts'[c].by \in Request /\ CommandOf[receipts'[c].by] = c
         /\ receipts'[c].status = "accepted" => \E i \in DOMAIN log' : log'[i] = receipts'[c].by
<1>0. receipts \in [Command -> Receipt]
  BY DEF TypeOK
<1>1. CASE receipts'[c] = receipts[c]
  BY <1>1, LogGrows DEF Accountable, InLog
<1>2. ASSUME NEW r \in Request,
             Commit(r), log' = Append(log, r),
             receipts' = [receipts EXCEPT ![CommandOf[r]] = [status |-> "accepted", by |-> r]],
             receipts'[c] # receipts[c]
      PROVE  receipts'[c].by = r /\ CommandOf[r] = c /\ \E i \in DOMAIN log' : log'[i] = r
  <2>1. c = CommandOf[r] /\ receipts'[c] = [status |-> "accepted", by |-> r]
    BY <1>0, <1>2
  <2>2. log \in Seq(Request \cup {NoRequest})
    BY DEF TypeOK
  <2>3. \E i \in DOMAIN log' : log'[i] = r
    BY <1>2, <2>2, Appending
  <2>4. QED
    BY <2>1, <2>3
<1>3. ASSUME NEW r \in Request,
             receipts' = [receipts EXCEPT ![CommandOf[r]] = [status |-> "rejected", by |-> r]],
             receipts'[c] # receipts[c]
      PROVE  receipts'[c].by = r /\ CommandOf[r] = c /\ receipts'[c].status = "rejected"
  <2>1. c = CommandOf[r] /\ receipts'[c] = [status |-> "rejected", by |-> r]
    BY <1>0, <1>3
  <2>2. QED
    BY <2>1
<1>4. \/ receipts' = receipts
      \/ \E r \in Request : /\ Commit(r) /\ log' = Append(log, r)
                            /\ receipts' = [receipts EXCEPT ![CommandOf[r]] = [status |-> "accepted", by |-> r]]
      \/ \E r \in Request : receipts' = [receipts EXCEPT ![CommandOf[r]] = [status |-> "rejected", by |-> r]]
  <2>1. ASSUME NEW r \in Request, Commit(r)
        PROVE  \/ receipts' = receipts
               \/ /\ log' = Append(log, r)
                  /\ receipts' = [receipts EXCEPT ![CommandOf[r]] = [status |-> "accepted", by |-> r]]
    BY <2>1, WorkerSteps DEF durable
  <2>2. ASSUME NEW r \in Request, Answer(r)
        PROVE  \/ receipts' = receipts
               \/ receipts' = [receipts EXCEPT ![CommandOf[r]] = [status |-> "rejected", by |-> r]]
    BY <2>2 DEF Answer
  <2>3. ASSUME \/ \E r \in Request : Take(r) \/ Decide(r) \/ Publish(r) \/ Reconcile(r)
               \/ Quiet \/ AnotherServerAppends \/ Close \/ Restart
               \/ \E d \in Command : SteerComesBack(d)
        PROVE  receipts' = receipts
    BY <2>3 DEF Take, Decide, Publish, Reconcile, Quiet, AnotherServerAppends, Close, Restart,
                SteerComesBack, durable
  <2>4. QED
    BY <2>1, <2>2, <2>3, StepKinds DEF Work
<1>5. QED
  BY <1>1, <1>2, <1>3, <1>4

\* The rest of Accountable, which is about the worker.
AtWork ==
  /\ worker.appended # 0 => worker.appended \in DOMAIN log /\ log[worker.appended] = worker.request
  /\ worker.pc = "publishing" => worker.appended # 0
  /\ worker.outcome = "accepted" => worker.request \in Request /\ Logged(worker.request)
  /\ worker.pc \in {"deciding", "committing"} \/ worker.outcome \in Refusals => ~InLog(worker.request)

\* and so does what the worker is about to say.
LEMMA AtWorkNext ==
  ASSUME TypeOK, Working, Accountable, Told, [Next]_vars PROVE AtWork'
<1>0. AtWork
  BY DEF Accountable, AtWork
<1>1. "none" \notin Refusals /\ "accepted" \notin Refusals /\ "error" \notin Refusals
      /\ "conflict" \notin Refusals /\ "previouslyRejected" \notin Refusals
  BY DEF Refusals
<1>2. NoRequest \notin Request
  BY RequestAssumption
<1>3. ASSUME worker' = worker, \A r \in Request : ~Commit(r) PROVE AtWork'
  <2>1. CASE worker.request \in Request
    BY <1>0, <1>3, <2>1, InLogStep, LogGrows DEF AtWork
  <2>2. CASE worker.request \notin Request
    <3>1. worker.pc = "idle" /\ worker = Idle
      BY <2>2 DEF Working
    <3>2. QED
      BY <1>1, <1>3, <3>1, IdleWorker DEF AtWork
  <2>3. QED
    BY <2>1, <2>2
<1>4. ASSUME worker' = Idle PROVE AtWork'
  BY <1>1, <1>4, IdleWorker DEF AtWork
<1>5. ASSUME NEW r \in Request, Take(r) PROVE AtWork'
  <2>1. env[r].pc = "queued" /\ log' = log
    BY <1>5 DEF Take, durable
  <2>2. ~InLog(r)
    BY <2>1 DEF Told
  <2>3. worker'.pc = "deciding" /\ worker'.request = r /\ worker'.appended = 0 /\ worker'.outcome = "none"
    BY <1>5 DEF Take, Idle
  <2>4. QED
    BY <1>1, <2>1, <2>2, <2>3 DEF AtWork, InLog
<1>6. ASSUME NEW r \in Request, Decide(r) PROVE AtWork'
  <2>1. worker.pc = "deciding" /\ worker.request = r /\ log' = log
    BY <1>6 DEF Decide, durable
  <2>2. worker.appended = 0 /\ worker.outcome = "none" /\ ~InLog(r)
    BY <1>0, <2>1 DEF Working, AtWork
  <2>3. worker'.request = r /\ worker'.appended = 0 /\ worker'.pc # "publishing"
    BY <1>6, <2>2, WorkerSteps
  <2>4. worker'.outcome = "accepted" => Logged(r)
    <3>1. SUFFICES ASSUME worker'.outcome = "accepted" PROVE Logged(r)
      OBVIOUS
    <3>2. Replay(r)
      BY <1>6, <2>2, <3>1, WorkerSteps
    <3>3. /\ receipts[CommandOf[r]].status # "none"
          /\ \/ worker'.outcome = "conflict" \/ worker'.outcome = "previouslyRejected"
             \/ /\ AggregateOf[receipts[CommandOf[r]].by] = AggregateOf[r]
                /\ receipts[CommandOf[r]].status = "accepted"
      <4>1. worker \in Worker
        BY DEF TypeOK, Worker
      <4>2. QED
        BY <3>2, <4>1 DEF Replay, Fails, Worker
    <3>4. CommandOf[r] \in Command
      BY RequestAssumption
    <3>5. QED
      BY <1>2, <3>1, <3>3, <3>4 DEF Accountable, InLog, Logged
  <2>5. QED
    BY <2>1, <2>2, <2>3, <2>4 DEF AtWork, InLog, Logged
<1>7. ASSUME NEW r \in Request, Commit(r) PROVE AtWork'
  <2>1. worker.pc = "committing" /\ worker.request = r /\ worker'.request = r
    BY <1>7, WorkerSteps
  <2>2. worker.appended = 0 /\ worker.outcome = "none" /\ ~InLog(r)
    BY <1>0, <2>1 DEF Working, AtWork
  <2>3. CASE /\ worker'.appended = Len(log) + 1 /\ log' = Append(log, r)
             /\ \/ worker'.pc = "publishing" /\ worker'.outcome = worker.outcome
                \/ worker'.pc = "failed" /\ worker'.outcome = "error"
    <3>1. log \in Seq(Request \cup {NoRequest})
      BY DEF TypeOK
    <3>2. worker'.appended \in DOMAIN log' /\ log'[worker'.appended] = r /\ Len(log) + 1 # 0
      BY <2>3, <3>1, Appending
    <3>3. QED
      BY <1>1, <2>1, <2>2, <2>3, <3>2 DEF AtWork
  <2>4. CASE /\ worker'.appended = worker.appended /\ UNCHANGED durable
             /\ worker'.pc = "failed" /\ worker'.outcome \in {"rejected", "error"}
    BY <1>1, <2>1, <2>2, <2>4 DEF AtWork, InLog, durable
  <2>5. QED
    BY <1>7, <2>3, <2>4, WorkerSteps
<1>8. ASSUME NEW r \in Request, Publish(r) PROVE AtWork'
  <2>1. worker.pc = "publishing" /\ worker.request = r /\ log' = log
        /\ worker'.request = r /\ worker'.appended = worker.appended
        /\ worker'.pc = "answering" /\ worker'.outcome = "accepted"
    BY <1>8, WorkerSteps DEF Publish, durable
  <2>2. worker.appended \in DOMAIN log /\ log[worker.appended] = r
    BY <1>0, <2>1 DEF AtWork
  <2>3. Logged(r)
    BY <1>2, <2>2 DEF Logged
  <2>4. QED
    BY <1>1, <2>1, <2>2, <2>3 DEF AtWork, Logged
<1>9. ASSUME NEW r \in Request, Reconcile(r) PROVE AtWork'
  <2>1. /\ log' = log /\ worker.request = r
        /\ worker'.request = r /\ worker'.appended = worker.appended
        /\ worker'.pc = "answering" /\ worker'.outcome = worker.outcome
    BY <1>9, WorkerSteps DEF Reconcile, durable
  <2>2. QED
    BY <1>0, <2>1 DEF AtWork, Logged, InLog
<1>10. CASE Quiet \/ AnotherServerAppends \/ (\E c \in Command : SteerComesBack(c))
  <2>1. worker' = worker
    BY <1>10 DEF Quiet, AnotherServerAppends, SteerComesBack
  <2>2. ASSUME NEW r \in Request, Commit(r) PROVE FALSE
    <3>1. worker.pc = "committing" /\ worker'.pc # "committing"
      BY <2>2, WorkerSteps
    <3>2. QED
      BY <2>1, <3>1
  <2>3. QED
    BY <1>3, <2>1, <2>2
<1>11. QED
  <2>1. ASSUME NEW r \in Request, Answer(r) PROVE worker' = Idle
    BY <2>1 DEF Answer
  <2>2. CASE Close \/ Restart
    BY <1>4, <2>2 DEF Close, Restart
  <2>3. QED
    BY <1>4, <1>5, <1>6, <1>7, <1>8, <1>9, <1>10, <2>1, <2>2, StepKinds DEF Work

\* Both together.
LEMMA AccountableNext ==
  ASSUME TypeOK, Working, Accountable, Told, [Next]_vars PROVE Accountable'
<1>1. AtWork'
  BY AtWorkNext
<1>2. \A c \in Command : receipts'[c].status # "none" =>
        /\ receipts'[c].by \in Request /\ CommandOf[receipts'[c].by] = c
        /\ receipts'[c].status = "accepted" => \E i \in DOMAIN log' : log'[i] = receipts'[c].by
  BY ReceiptsNext
<1>3. QED
  BY <1>1, <1>2 DEF Accountable, AtWork, InLog

\* Callers are told what is true of the log.
LEMMA ToldNext ==
  ASSUME TypeOK, Working, Bound, Accountable, Told, [Next]_vars PROVE Told'
<1> SUFFICES ASSUME NEW s \in Request
             PROVE  /\ env'[s].pc # "done" => env'[s].outcome = "none"
                    /\ env'[s].pc \notin {"taken", "done"} => ~InLog(s)'
                    /\ env'[s].outcome = "accepted" => Logged(s)'
                    /\ env'[s].outcome \in Refusals => ~InLog(s)'
  BY DEF Told
<1>0. /\ "none" \notin Refusals /\ "accepted" \notin Refusals /\ "error" \notin Refusals
      /\ "conflict" \notin Refusals /\ "closed" \notin Refusals /\ "lost" \notin Refusals
  BY DEF Refusals
<1>1. CASE InLog(s)' /\ ~InLog(s)
  <2>1. Commit(s)
    BY <1>1, InLogStep
  <2>2. worker.pc = "committing" /\ worker.request = s /\ env' = env
    BY <2>1 DEF Commit, callers
  <2>3. env[s].pc = "taken"
    BY <2>2 DEF Working
  <2>4. QED
    BY <1>0, <2>2, <2>3 DEF Told
<1>2. CASE ~(InLog(s)' /\ ~InLog(s))
  <2>0. InLog(s)' => InLog(s)
    BY <1>2
  <2>1. CASE Same(s) \/ Advances(s)
    BY <2>0, <2>1, InLogStep DEF Told, Same, Advances
  <2>2. CASE JoinsNow(s)
    <3>1. env[s].outcome = "none" /\ ~InLog(s)
      BY <2>2 DEF JoinsNow, Told
    <3> DEFINE x == Existing(s)
    <3>2. /\ x \in Request /\ x # NoRequest /\ x = reservations[CommandOf[s]] /\ CommandOf[s] \in Command
      BY <2>2, RequestAssumption DEF JoinsNow, JoinsIn, Control
    <3>3. CommandOf[x] = CommandOf[s]
      BY <3>2 DEF Bound
    <3>4. AggregateOf[x] = AggregateOf[s] => (env[x].outcome = "accepted" => Logged(s))
      BY <3>2, <3>3 DEF Told, Logged
    <3>5. \/ env'[s].pc = "done" /\ env'[s].outcome = "conflict"
          \/ AggregateOf[x] = AggregateOf[s] /\ env'[s].pc = "done" /\ env'[s].outcome = env[x].outcome
          \/ env'[s].pc = "joined" /\ env'[s].outcome = "none"
      BY <2>2, <3>1 DEF JoinsNow, JoinsIn
    <3> HIDE DEF x
    <3>6. QED
      BY <1>0, <2>0, <3>1, <3>4, <3>5, InLogStep
  <2>3. CASE AnsweredNow(s)
    <3>1. env'[s].pc = "done" /\ env'[s].outcome = worker.outcome
      BY <2>3 DEF AnsweredNow
    <3>2. CASE worker.request = s
      BY <2>0, <3>1, <3>2, InLogStep DEF Accountable
    <3>3. CASE env[s].pc = "joined" /\ env[s].onto = worker.request
      <4>1. ~InLog(s)
        BY <3>3 DEF Told
      <4>2. worker.outcome = "accepted" => Logged(s)
        BY <3>3 DEF Bound, Accountable, Logged
      <4>3. QED
        BY <2>0, <3>1, <4>1, <4>2, InLogStep
    <3>4. QED
      BY <2>3, <3>2, <3>3 DEF AnsweredNow
  <2>4. CASE TurnedAway(s)
    BY <1>0, <2>0, <2>4 DEF TurnedAway, Told
  <2>5. QED
    BY <2>1, <2>2, <2>3, <2>4, Calls DEF Change
<1>3. QED
  BY <1>1, <1>2

-----------------------------------------------------------------------------
(* What is published and what is applied to the read model. *)

\* The commit whose publication is still to come.
Pending == worker.pc \in {"publishing", "failed"} /\ worker.appended # 0

Announced ==
  /\ \A i \in DOMAIN published : published[i] \in DOMAIN log /\ log[published[i]] # NoRequest
  /\ \A i, j \in DOMAIN published : i < j => published[i] < published[j]
  /\ Pending => \A i \in DOMAIN published : published[i] < worker.appended

Applied ==
  /\ readModel.sequence <= Len(log)
  /\ Pending => readModel.sequence < worker.appended
  /\ worker.pc = "failed" /\ worker.outcome \in {"conflict", "previouslyRejected"} => worker.appended = 0
  /\ phase # "closed" /\ ~unreconciled =>
       \A i \in DOMAIN log : log[i] # NoRequest =>
         i \in readModel.applied \/ (Pending /\ worker.appended = i)

\* A commit leaves its log entry, at the end, to be published; other steps of the
\* worker leave no entry that was not left before.
LEMMA PendingStep ==
  ASSUME TypeOK, Working, [Next]_vars, Pending'
  PROVE  \/ Pending /\ worker'.appended = worker.appended
         \/ \E r \in Request : Commit(r) /\ worker'.appended = Len(log) + 1
<1>1. ASSUME NEW r \in Request, Commit(r) PROVE worker'.appended = Len(log) + 1
  <2>1. worker.pc = "committing" /\ worker.appended = 0
    BY <1>1, WorkerSteps DEF Working
  <2>2. QED
    BY <1>1, <2>1, WorkerSteps DEF Pending
<1>2. ASSUME NEW r \in Request, Take(r) \/ Publish(r) \/ Reconcile(r) \/ Answer(r) PROVE FALSE
  <2>1. worker'.pc \in {"idle", "deciding", "answering"}
    BY <1>2, WorkerSteps, IdleWorker DEF Take, Answer, Idle
  <2>2. QED
    BY <2>1 DEF Pending
<1>3. ASSUME NEW r \in Request, Decide(r) PROVE FALSE
  <2>1. worker.pc = "deciding" /\ worker.appended = 0
    BY <1>3, WorkerSteps DEF Working
  <2>2. QED
    BY <1>3, <2>1, WorkerSteps DEF Pending
<1>4. CASE Quiet \/ AnotherServerAppends \/ \E c \in Command : SteerComesBack(c)
  <2>1. worker' = worker
    BY <1>4 DEF Quiet, AnotherServerAppends, SteerComesBack
  <2>2. QED
    BY <2>1 DEF Pending
<1>5. ASSUME Close \/ Restart PROVE FALSE
  <2>1. worker'.pc = "idle"
    BY <1>5, IdleWorker DEF Close, Restart
  <2>2. QED
    BY <2>1 DEF Pending
<1>6. QED
  BY <1>1, <1>2, <1>3, <1>4, <1>5, StepKinds DEF Work

\* Only the events the worker has just appended are published.
LEMMA PublishedStep ==
  ASSUME TypeOK, Accountable, [Next]_vars
  PROVE  \/ published' = published
         \/ published' = <<>>
         \/ Pending /\ ~Pending' /\ log' = log /\ published' = Append(published, worker.appended)
<1>1. ASSUME NEW r \in Request, Publish(r)
      PROVE  Pending /\ ~Pending' /\ log' = log /\ published' = Append(published, worker.appended)
  BY <1>1, WorkerSteps DEF Publish, Pending, durable, Accountable
<1>2. ASSUME NEW r \in Request, Reconcile(r)
      PROVE  \/ published' = published
             \/ Pending /\ ~Pending' /\ log' = log /\ published' = Append(published, worker.appended)
  <2>1. /\ log' = log
        /\ \/ published' = published
           \/ worker.appended # 0 /\ published' = Append(published, worker.appended)
    BY <1>2 DEF Reconcile, outputs, durable
  <2>2. QED
    BY <1>2, <2>1, WorkerSteps DEF Pending
<1>3. ASSUME \/ \E r \in Request : Take(r) \/ Decide(r) \/ Commit(r) \/ Answer(r)
             \/ \E c \in Command : SteerComesBack(c)
             \/ Quiet \/ AnotherServerAppends \/ Close
      PROVE  published' = published
  BY <1>3 DEF Take, Decide, Commit, Answer, SteerComesBack, Quiet, AnotherServerAppends, Close, outputs
<1>4. CASE Restart
  BY <1>4 DEF Restart
<1>5. QED
  BY <1>1, <1>2, <1>3, <1>4, StepKinds DEF Work

\* Publications stay in log order.
LEMMA AnnouncedNext ==
  ASSUME TypeOK, Working, Accountable, Announced, [Next]_vars PROVE Announced'
<1>1. published \in Seq(Nat) /\ worker.appended \in Nat /\ Len(log) \in Nat /\ DOMAIN log = 1..Len(log)
  BY DEF TypeOK
<1>2. Pending => worker.appended \in DOMAIN log /\ log[worker.appended] = worker.request
                 /\ worker.request # NoRequest
  BY RequestAssumption DEF Pending, Accountable, Working
<1>3. CASE published' = <<>>
  <2>1. DOMAIN published' = {}
    BY <1>3
  <2>2. QED
    BY <2>1 DEF Announced
<1>4. CASE Pending /\ ~Pending' /\ log' = log /\ published' = Append(published, worker.appended)
  <2>1. /\ DOMAIN published' = DOMAIN published \cup {Len(published) + 1}
        /\ \A i \in DOMAIN published : published'[i] = published[i] /\ i \in Nat /\ i < Len(published) + 1
        /\ published'[Len(published) + 1] = worker.appended /\ Len(published) \in Nat
    BY <1>1, <1>4, Appending
  <2>2. \A i \in DOMAIN published' : published'[i] \in DOMAIN log /\ log[published'[i]] # NoRequest
    BY <1>2, <1>4, <2>1 DEF Announced
  <2>3. \A i, j \in DOMAIN published' : i < j => published'[i] < published'[j]
    <3> SUFFICES ASSUME NEW i \in DOMAIN published', NEW j \in DOMAIN published', i < j
                 PROVE  published'[i] < published'[j]
      OBVIOUS
    <3>1. i \in DOMAIN published
      BY <2>1
    <3>2. CASE j \in DOMAIN published
      BY <2>1, <3>1, <3>2 DEF Announced
    <3>3. CASE j = Len(published) + 1
      BY <1>4, <2>1, <3>1, <3>3 DEF Announced
    <3>4. QED
      BY <2>1, <3>2, <3>3
  <2>4. QED
    BY <1>4, <2>2, <2>3 DEF Announced
<1>5. CASE published' = published
  <2>1. \A i \in DOMAIN published : published[i] \in DOMAIN log' /\ log'[published[i]] # NoRequest
    BY LogGrows DEF Announced
  <2>2. ASSUME Pending' PROVE \A i \in DOMAIN published : published[i] < worker'.appended
    <3>1. CASE Pending /\ worker'.appended = worker.appended
      BY <3>1 DEF Announced
    <3>2. CASE worker'.appended = Len(log) + 1
      BY <1>1, <3>2 DEF Announced
    <3>3. QED
      BY <2>2, <3>1, <3>2, PendingStep
  <2>3. QED
    BY <1>5, <2>1, <2>2 DEF Announced
<1>6. QED
  BY <1>3, <1>4, <1>5, PublishedStep

\* Entries in the log that are applied or about to be.
Covered == \A i \in DOMAIN log : log[i] # NoRequest =>
             i \in readModel.applied \/ (Pending /\ worker.appended = i)

\* The read model keeps up.
LEMMA AppliedNext ==
  ASSUME TypeOK, Working, Accountable, Applied, [Next]_vars PROVE Applied'
<1>1. /\ worker.appended \in Nat /\ Len(log) \in Nat /\ DOMAIN log = 1..Len(log)
      /\ readModel.sequence \in Nat /\ log \in Seq(Request \cup {NoRequest})
  BY DEF TypeOK
<1> DEFINE Behind  == readModel.sequence <= Len(log) /\ (Pending => readModel.sequence < worker.appended)
<1> DEFINE Unsaved == worker.pc = "failed" /\ worker.outcome \in {"conflict", "previouslyRejected"}
                        => worker.appended = 0
<1> DEFINE Open    == phase # "closed" /\ ~unreconciled
<1>2. Behind /\ Unsaved /\ (Open => Covered)
  BY DEF Applied, Covered
<1> SUFFICES Behind' /\ Unsaved' /\ (Open' => Covered')
  BY DEF Applied, Covered
<1>3. ASSUME NEW r \in Request, Take(r) \/ Decide(r) \/ Answer(r) PROVE Behind' /\ Unsaved' /\ (Open' => Covered')
  <2>1. UNCHANGED <<log, readModel, phase, unreconciled>>
    BY <1>3 DEF Take, Decide, Answer, durable, outputs, history
  <2>2. ~Pending'
    <3>1. Take(r) \/ Answer(r) => worker'.pc \in {"idle", "deciding"}
      BY IdleWorker DEF Take, Answer, Idle
    <3>2. Decide(r) => worker'.appended = 0
      BY WorkerSteps DEF Working
    <3>3. QED
      BY <1>3, <3>1, <3>2 DEF Pending
  <2>3. ~Pending
    <3>1. Take(r) => worker.pc = "idle"
      BY IdleWorker DEF Take
    <3>2. Decide(r) => worker.pc = "deciding"
      BY DEF Decide
    <3>3. Answer(r) => worker.pc = "answering" \/ worker.appended = 0
      BY <1>2 DEF Answer
    <3>4. QED
      BY <1>3, <3>1, <3>2, <3>3 DEF Pending
  <2>4. QED
    BY <1>2, <2>1, <2>2, <2>3 DEF Covered, Pending
<1>4. ASSUME NEW r \in Request, Commit(r) PROVE Behind' /\ Unsaved' /\ (Open' => Covered')
  <2>1. UNCHANGED <<readModel, phase, unreconciled>> /\ worker.pc = "committing" /\ worker.appended = 0
    BY <1>4, WorkerSteps DEF Commit, outputs, history, Working
  <2>2. CASE /\ worker'.appended = Len(log) + 1 /\ log' = Append(log, r)
             /\ \/ worker'.pc = "publishing"
                \/ worker'.pc = "failed" /\ worker'.outcome = "error"
    <3>1. /\ DOMAIN log' = DOMAIN log \cup {Len(log) + 1} /\ Len(log') = Len(log) + 1
          /\ \A i \in DOMAIN log : log'[i] = log[i]
      BY <1>1, <2>2
    <3>2. Pending' /\ ~Pending
      BY <1>1, <2>1, <2>2 DEF Pending
    <3>3. QED
      BY <1>1, <1>2, <2>1, <2>2, <3>1, <3>2 DEF Covered
  <2>3. CASE worker'.appended = worker.appended /\ UNCHANGED durable
    <3>1. log' = log /\ ~Pending' /\ ~Pending /\ worker'.appended = 0
      BY <2>1, <2>3 DEF durable, Pending
    <3>2. QED
      BY <1>2, <2>1, <3>1 DEF Covered
  <2>4. QED
    BY <1>4, <2>2, <2>3, WorkerSteps
<1>5. ASSUME NEW r \in Request, Publish(r) PROVE Behind' /\ Unsaved' /\ (Open' => Covered')
  <2>1. /\ UNCHANGED <<log, phase, unreconciled>> /\ worker.pc = "publishing"
        /\ readModel' = [sequence |-> worker.appended, applied |-> readModel.applied \cup {worker.appended}]
        /\ worker'.pc = "answering"
    BY <1>5, WorkerSteps DEF Publish, durable, history
  <2>2. readModel'.sequence = worker.appended /\ readModel'.applied = readModel.applied \cup {worker.appended}
    BY <2>1
  <2>3. worker.appended \in DOMAIN log /\ ~Pending'
    BY <2>1 DEF Accountable, Pending
  <2>4. QED
    BY <1>1, <1>2, <2>1, <2>2, <2>3 DEF Covered
<1>6. ASSUME NEW r \in Request, Reconcile(r) PROVE Behind' /\ Unsaved' /\ (Open' => Covered')
  <2>1. UNCHANGED <<log, phase>> /\ worker.pc = "failed" /\ worker'.pc = "answering"
    BY <1>6, WorkerSteps DEF Reconcile, durable
  <2>2. ~Pending'
    BY <2>1 DEF Pending
  <2>3. \/ /\ readModel' = [sequence |-> Len(log),
                            applied |-> readModel.applied \cup (readModel.sequence + 1)..Len(log)]
           /\ unreconciled' = unreconciled
        \/ unreconciled' /\ readModel' = readModel
    BY <1>6 DEF Reconcile, history, outputs
  <2>4. CASE unreconciled' /\ readModel' = readModel
    BY <1>2, <2>1, <2>2, <2>4
  <2>5. CASE /\ readModel' = [sequence |-> Len(log),
                            applied |-> readModel.applied \cup (readModel.sequence + 1)..Len(log)]
             /\ unreconciled' = unreconciled
    <3>1. readModel'.sequence = Len(log)
          /\ readModel'.applied = readModel.applied \cup (readModel.sequence + 1)..Len(log)
      BY <2>5
    <3>2. Pending => worker.appended \in (readModel.sequence + 1)..Len(log)
      BY <1>1, <1>2 DEF Accountable, Pending
    <3>3. QED
      BY <1>1, <1>2, <2>1, <2>2, <2>5, <3>1, <3>2 DEF Covered
  <2>6. QED
    BY <2>3, <2>4, <2>5
<1>7. CASE Quiet \/ \E c \in Command : SteerComesBack(c)
  <2>1. UNCHANGED <<log, worker, readModel, unreconciled>> /\ (phase = "closed" => phase' = "closed")
    BY <1>7 DEF Quiet, SteerComesBack, outputs, history
  <2>2. QED
    BY <1>2, <2>1 DEF Covered, Pending
<1>8. CASE AnotherServerAppends
  <2>1. UNCHANGED <<worker, readModel, unreconciled, phase>> /\ log' = Append(log, NoRequest)
    BY <1>8 DEF AnotherServerAppends, outputs
  <2>2. /\ DOMAIN log' = DOMAIN log \cup {Len(log) + 1} /\ Len(log') = Len(log) + 1
        /\ \A i \in DOMAIN log : log'[i] = log[i]
        /\ log'[Len(log) + 1] = NoRequest
    BY <1>1, <2>1
  <2>3. QED
    BY <1>1, <1>2, <2>1, <2>2 DEF Covered, Pending
<1>9. CASE Close
  <2>1. UNCHANGED <<log, readModel>> /\ worker'.pc = "idle" /\ phase' = "closed"
    BY <1>9, IdleWorker DEF Close, durable, outputs
  <2>2. QED
    BY <1>2, <2>1 DEF Pending
<1>10. CASE Restart
  <2>1. /\ log' = log /\ readModel' = [sequence |-> Len(log), applied |-> DOMAIN log] /\ worker'.pc = "idle"
    BY <1>10, IdleWorker DEF Restart, durable
  <2>2. readModel'.sequence = Len(log) /\ readModel'.applied = DOMAIN log
    BY <2>1
  <2>3. QED
    BY <1>1, <2>1, <2>2 DEF Pending, Covered
<1>11. QED
  BY <1>3, <1>4, <1>5, <1>6, <1>7, <1>8, <1>9, <1>10, StepKinds DEF Work

-----------------------------------------------------------------------------
(* The invariant and what follows from it. *)

IInv == TypeOK /\ Working /\ Bound /\ Recorded /\ Accountable /\ Told /\ Announced /\ Applied

\* The invariant holds initially,
LEMMA InitInv == Init => IInv
<1> SUFFICES ASSUME Init PROVE IInv
  OBVIOUS
<1>1. TypeOK /\ Working
  BY InitType, WorkingInit
<1>2. /\ log = <<>> /\ DOMAIN log = {} /\ published = <<>> /\ DOMAIN published = {}
      /\ fallback = {} /\ Len(log) = 0
  BY DEF Init
<1>3. worker.pc = "idle" /\ worker.outcome = "none" /\ worker.appended = 0
  BY IdleWorker DEF Init
<1>4. \A s \in Request : env[s].pc = "new" /\ env[s].outcome = "none"
  BY DEF Init, NewEnvelope
<1>5. /\ \A c \in Command : reservations[c] = NoRequest /\ receipts[c].status = "none"
      /\ readModel.sequence = 0
  BY DEF Init, NoReceipt
<1>6. Bound /\ Recorded
  BY <1>2, <1>3, <1>4, <1>5 DEF Bound, Recorded
<1>7. Accountable /\ Told
  BY <1>2, <1>3, <1>4, <1>5 DEF Accountable, Told, InLog, Refusals
<1>8. Announced /\ Applied
  BY <1>2, <1>3, <1>5 DEF Announced, Applied, Pending
<1>9. QED
  BY <1>1, <1>6, <1>7, <1>8 DEF IInv

\* and every step keeps it.
LEMMA NextInv == IInv /\ [Next]_vars => IInv'
  BY NextType, WorkingNext, BoundNext, RecordedNext, AccountableNext, ToldNext, AnnouncedNext, AppliedNext
  DEF IInv

\* The inductive invariant of the engine: it relates the log to the receipts, the worker,
\* the answers, the publications and the read model.
THEOREM Invariant == Spec => []IInv
  BY InitInv, NextInv, PTL DEF Spec

\* However often a command is sent, for any number of callers, failures and restarts,
\* it gets into the log once, and a steer that came back once more as a start.
THEOREM CommittedOnceHolds == Spec => []CommittedOnce
<1>1. IInv => CommittedOnce
  <2> SUFFICES ASSUME IInv, NEW i \in DOMAIN log, NEW j \in DOMAIN log,
                      log[i] # NoRequest, log[j] # NoRequest,
                      CommandOf[log[i]] = CommandOf[log[j]], KindOf[log[i]] = KindOf[log[j]]
               PROVE  i = j
    BY DEF CommittedOnce
  <2>1. i \in Nat /\ j \in Nat
    BY DEF IInv, TypeOK
  <2>2. ~(i < j) /\ ~(j < i)
    BY DEF IInv, Recorded
  <2>3. QED
    BY <2>1, <2>2
<1>2. QED
  BY <1>1, Invariant, PTL

\* An accepted answer is durable, and a refused call is not in the log.
THEOREM AnswersHold == Spec => []AnswersTellTheTruth
<1>1. IInv => AnswersTellTheTruth
  BY DEF IInv, Told, Logged, InLog, Refusals, AnswersTellTheTruth, AcceptedIsCommitted, RefusedIsNotCommitted
<1>2. QED
  BY <1>1, Invariant, PTL

\* The events of this server are published once and in log order.
THEOREM PublishedInOrderHolds == Spec => []PublishedInOrder
<1>1. IInv => PublishedInOrder
  BY DEF IInv, Announced, PublishedInOrder
<1>2. QED
  BY <1>1, Invariant, PTL

\* Between two commands the read model has everything this server committed.
THEOREM ReadModelHolds == Spec => []ReadModelKeepsUp
<1>1. IInv => ReadModelKeepsUp
  BY IdleWorker DEF IInv, Applied, Pending, ReadModelKeepsUp
<1>2. QED
  BY <1>1, Invariant, PTL

-----------------------------------------------------------------------------
(* The flags of a control, its place and its reservation. *)

\* Which steps change the flags and the admission order of a call.
LEMMA Flags ==
  ASSUME TypeOK, Working, [Next]_vars, NEW s \in Request
  PROVE  /\ env'[s].claimed # env[s].claimed =>
              \E c \in Command : Claim(c) /\ reservations[c] = s /\ env'[s].claimed
         /\ env'[s].expired # env[s].expired => Expire(s)
         /\ env'[s].committed # env[s].committed => Publish(s) /\ env'[s].committed = (s \in Control)
         /\ env'[s].order # env[s].order => Reserve(s)
<1> DEFINE Goal ==
      /\ env'[s].claimed # env[s].claimed =>
           \E c \in Command : Claim(c) /\ reservations[c] = s /\ env'[s].claimed
      /\ env'[s].expired # env[s].expired => Expire(s)
      /\ env'[s].committed # env[s].committed => Publish(s) /\ env'[s].committed = (s \in Control)
      /\ env'[s].order # env[s].order => Reserve(s)
<1> SUFFICES Goal
  OBVIOUS
<1>0. Control \subseteq Request
  BY DEF Control
<1>1. ASSUME Kept(env'[s], env[s]) \/ env'[s] = env[s] PROVE Goal
  BY <1>1 DEF Kept
<1>2. ASSUME NEW r \in Request, Dispatch(r) PROVE Goal
  <2>1. Kept(env'[s], env[s]) \/ env'[s] = env[s]
    BY <1>2, DispatchEffect DEF JoinsIn, Moved, Ended
  <2>2. QED
    BY <1>1, <2>1
<1>3. ASSUME NEW r \in Request, Reserve(r) PROVE Goal
  <2>1. \/ Kept(env'[s], env[s]) \/ env'[s] = env[s]
        \/ /\ s = r /\ env'[s].committed = env[s].committed
           /\ env'[s].claimed = env[s].claimed /\ env'[s].expired = env[s].expired
    BY <1>3, ReserveEffect DEF JoinsIn, Ended
  <2>2. QED
    BY <1>1, <1>3, <2>1
<1>4. ASSUME NEW r \in Request, Offer(r) PROVE Goal
  <2>1. Kept(env'[s], env[s]) \/ env'[s] = env[s]
    BY <1>4, OfferEffect DEF SettlesIn, Moved
  <2>2. QED
    BY <1>1, <2>1
<1>5. ASSUME NEW r \in Request, Take(r) PROVE Goal
  <2>1. Kept(env'[s], env[s]) \/ env'[s] = env[s]
    BY <1>5, TakeEffect DEF Moved
  <2>2. QED
    BY <1>1, <2>1
<1>6. ASSUME NEW r \in Request, Answer(r) PROVE Goal
  <2>1. Kept(env'[s], env[s])
    BY <1>6, AnswerEffect DEF SettlesIn
  <2>2. QED
    BY <1>1, <2>1
<1>7. ASSUME NEW r \in Request, Publish(r) PROVE Goal
  <2>1. env[r].pc = "taken"
    BY <1>7 DEF Publish, Working
  <2>2. CASE s # r
    <3>1. Kept(env'[s], env[s])
      BY <1>7, <2>1, <2>2, PublishEffect
    <3>2. QED
      BY <1>1, <3>1
  <2>3. CASE s = r
    BY <1>7, <2>1, <2>3, PublishEffect DEF Unmoved
  <2>4. QED
    BY <2>2, <2>3
<1>8. ASSUME NEW c \in Command, Claim(c) PROVE Goal
  <2>1. \/ env'[s] = env[s]
        \/ /\ s = reservations[c] /\ env'[s].claimed /\ env'[s].order = env[s].order
           /\ env'[s].committed = env[s].committed /\ env'[s].expired = env[s].expired
    BY <1>0, <1>8, ClaimEffect DEF Unmoved
  <2>2. QED
    BY <1>1, <1>8, <2>1
<1>9. ASSUME NEW r \in Request, Expire(r) PROVE Goal
  <2>1. \/ env'[s] = env[s] \/ Kept(env'[s], env[s])
        \/ /\ s = r /\ env'[s].order = env[s].order
           /\ env'[s].committed = env[s].committed /\ env'[s].claimed = env[s].claimed
    BY <1>9, ExpireEffect DEF Unmoved, Moved
  <2>2. QED
    BY <1>1, <1>9, <2>1
<1>10. CASE Close
  <2>1. Kept(env'[s], env[s])
    BY <1>10, CloseEffect DEF SettlesIn
  <2>2. QED
    BY <1>1, <2>1
<1>11. CASE Restart
  <2>1. Kept(env'[s], env[s]) \/ env'[s] = env[s]
    BY <1>11, RestartEffect DEF Ended
  <2>2. QED
    BY <1>1, <2>1
<1>12. CASE \/ \E r \in Request : Decide(r) \/ Commit(r) \/ Reconcile(r) \/ ExpiryEnds(r)
            \/ \E c \in Command : Complete(c) \/ SteerComesBack(c)
            \/ AnotherServerAppends \/ BeginShutdown \/ UNCHANGED vars
  <2>1. env' = env
    BY <1>12 DEF Decide, Commit, Reconcile, Complete, SteerComesBack, ExpiryEnds, AnotherServerAppends,
                 BeginShutdown, vars, callers
  <2>2. QED
    BY <1>1, <2>1
<1>13. QED
  BY <1>2, <1>3, <1>4, <1>5, <1>6, <1>7, <1>8, <1>9, <1>10, <1>11, <1>12 DEF Next, Work

\* What can be carried out, reported, put behind a stop or heard by the reactor in a step.
LEMMA HistoryStep ==
  ASSUME TypeOK, [Next]_vars
  PROVE  /\ \A c \in Command : carried'[c] # carried[c] =>
              /\ Claim(c) /\ reservations[c] \in Control /\ carried'[c] = carried[c] + 1
              /\ ~env[reservations[c]].claimed /\ ~env[reservations[c]].expired
              /\ env'[reservations[c]].claimed
         /\ \A c \in reported' \ reported : \E r \in Control : Expire(r) /\ CommandOf[r] = c
         /\ \A r \in Request : behind'[r] # behind[r] =>
              /\ Reserve(r) /\ KindOf[r] = "stop" /\ env'[r].pc = "reserved"
              /\ env'[r].order = admissionOrder + 1 /\ admissionOrder' = admissionOrder + 1
              /\ \A s \in Request \ {r} : env'[s] = env[s]
              /\ behind'[r] = {s \in Turns : env[s].pc = "queued" /\ AggregateOf[s] = AggregateOf[r]}
<1>1. carried \in [Command -> Nat] /\ behind \in [Request -> SUBSET Request]
  BY DEF TypeOK
<1>2. ASSUME NEW c \in Command, Claim(c)
      PROVE  /\ reported' = reported /\ behind' = behind
             /\ \A d \in Command \ {c} : carried'[d] = carried[d]
             /\ carried'[c] # carried[c] =>
                  /\ reservations[c] \in Control /\ carried'[c] = carried[c] + 1
                  /\ ~env[reservations[c]].claimed /\ ~env[reservations[c]].expired
                  /\ env'[reservations[c]].claimed
  <2>1. reported' = reported /\ behind' = behind
    BY <1>2 DEF Claim
  <2>2. QED
    BY <1>1, <1>2, <2>1, ClaimEffect
<1>3. ASSUME NEW r \in Request, Expire(r)
      PROVE  carried' = carried /\ behind' = behind /\ reported' = reported \cup {CommandOf[r]} /\ r \in Control
  BY <1>3 DEF Expire
<1>4. ASSUME NEW r \in Request, Reserve(r)
      PROVE  /\ carried' = carried /\ reported' = reported
             /\ \A s \in Request \ {r} : behind'[s] = behind[s]
             /\ behind'[r] # behind[r] =>
                  /\ KindOf[r] = "stop" /\ env'[r].pc = "reserved"
                  /\ env'[r].order = admissionOrder + 1 /\ admissionOrder' = admissionOrder + 1
                  /\ \A s \in Request \ {r} : env'[s] = env[s]
                  /\ behind'[r] = {s \in Turns : env[s].pc = "queued" /\ AggregateOf[s] = AggregateOf[r]}
  <2>1. carried' = carried /\ reported' = reported
    BY <1>4 DEF Reserve
  <2>2. QED
    BY <1>1, <1>4, <2>1, ReserveEffect
<1>5. ASSUME \/ \E r \in Request : \/ Dispatch(r) \/ Offer(r) \/ Take(r) \/ Decide(r) \/ Commit(r)
                                   \/ Publish(r) \/ Reconcile(r) \/ Answer(r) \/ ExpiryEnds(r)
             \/ \E c \in Command : Complete(c) \/ SteerComesBack(c)
             \/ AnotherServerAppends \/ BeginShutdown \/ Close \/ Restart \/ UNCHANGED vars
      PROVE  carried' = carried /\ reported' = reported /\ behind' = behind
  BY <1>5 DEF Dispatch, Offer, Take, Decide, Commit, Publish, Reconcile, Answer, ExpiryEnds, Complete,
              SteerComesBack, AnotherServerAppends, BeginShutdown, Close, Restart, vars, history, DatabaseFails
<1>6. QED
  BY <1>2, <1>3, <1>4, <1>5 DEF Next, Work

-----------------------------------------------------------------------------
(* A stop and the turns that were queued when it was ordered. *)

Overtaken ==
  /\ \A s \in Request : env[s].pc \in {"reserved", "queued", "taken"} => env[s].order <= admissionOrder
  /\ \A r \in Request : env[r].pc \in {"new", "prepared"} => behind[r] = {}
  /\ \A r \in Request : env[r].pc \in {"new", "prepared", "reserved", "queued"} => ~env[r].committed
  /\ \A r \in Request : \A s \in behind[r] :
       /\ s \in Turns /\ KindOf[r] = "stop" /\ AggregateOf[s] = AggregateOf[r]
       /\ env[s].pc \in {"queued", "taken", "done"} /\ env[s].order < env[r].order
       /\ env[r].committed => env[s].pc = "done" \/ phase = "closed"

\* The admission order counts up until the process ends.
LEMMA AdmissionStep ==
  ASSUME [Next]_vars
  PROVE  admissionOrder' = admissionOrder \/ admissionOrder' = admissionOrder + 1 \/ Restart
<1>1. ASSUME NEW r \in Request, Reserve(r)
      PROVE  admissionOrder' = admissionOrder \/ admissionOrder' = admissionOrder + 1
  BY <1>1 DEF Reserve
<1>2. ASSUME \/ \E r \in Request : \/ Dispatch(r) \/ Offer(r) \/ Take(r) \/ Decide(r) \/ Commit(r)
                                   \/ Publish(r) \/ Reconcile(r) \/ Answer(r) \/ Expire(r) \/ ExpiryEnds(r)
             \/ \E c \in Command : Claim(c) \/ Complete(c) \/ SteerComesBack(c)
             \/ AnotherServerAppends \/ BeginShutdown \/ Close \/ UNCHANGED vars
      PROVE  admissionOrder' = admissionOrder
  BY <1>2 DEF Dispatch, Offer, Take, Decide, Commit, Publish, Reconcile, Answer, Expire, ExpiryEnds,
              Claim, Complete, SteerComesBack, AnotherServerAppends, BeginShutdown, Close, vars, callers
<1>3. QED
  BY <1>1, <1>2 DEF Next, Work

\* A closed server stays closed until the next start.
LEMMA PhaseStep ==
  ASSUME [Next]_vars, phase = "closed" PROVE phase' = "closed" \/ Restart
<1>1. ASSUME NEW r \in Request, Work(r) PROVE phase' = phase
  BY <1>1 DEF Work, Take, Decide, Commit, Publish, Reconcile, Answer
<1>2. ASSUME NEW c \in Command, SteerComesBack(c) PROVE phase' = phase
  BY <1>2 DEF SteerComesBack
<1>3. QED
  BY <1>1, <1>2, StepKinds DEF Quiet, AnotherServerAppends, Close

\* What a stop overtakes stays answered.
LEMMA OvertakenNext ==
  ASSUME TypeOK, Working, Overtaken, [Next]_vars PROVE Overtaken'
<1>0. /\ Turns \subseteq Request /\ admissionOrder \in Nat /\ behind \in [Request -> SUBSET Request]
      /\ \A s \in Request : env[s].order \in Nat
  BY DEF Turns, TypeOK, Envelope
<1>1. ASSUME NEW s \in Request, env'[s].pc \in {"reserved", "queued", "taken"}
      PROVE  env'[s].order <= admissionOrder'
  <2>1. ~Restart
    BY <1>1, RestartEffect DEF Ended
  <2>2. admissionOrder <= admissionOrder' /\ admissionOrder' \in Nat
    BY <1>0, <2>1, AdmissionStep
  <2>3. CASE env[s].pc \in {"reserved", "queued", "taken"}
    <3>1. env'[s].order = env[s].order
      BY <2>3, Flags DEF Reserve
    <3>2. QED
      BY <1>0, <2>2, <2>3, <3>1 DEF Overtaken
  <2>4. CASE env[s].pc \notin {"reserved", "queued", "taken"}
    <3>1. env'[s].order = admissionOrder'
      BY <1>1, <2>4, Calls DEF Change, Same, Advances, JoinsNow, JoinsIn, AnsweredNow, TurnedAway
    <3>2. QED
      BY <2>2, <3>1
  <2>5. QED
    BY <2>3, <2>4
<1>2. ASSUME NEW r \in Request, env'[r].pc \in {"new", "prepared"} PROVE behind'[r] = {}
  <2>1. env[r].pc \in {"new", "prepared"}
    BY <1>2, Calls DEF Change, Same, Advances, JoinsNow, JoinsIn, AnsweredNow, TurnedAway
  <2>2. behind'[r] = behind[r]
    BY <1>2, HistoryStep
  <2>3. QED
    BY <2>1, <2>2 DEF Overtaken
<1>3. ASSUME NEW r \in Request, env'[r].pc \in {"new", "prepared", "reserved", "queued"} PROVE ~env'[r].committed
  <2>1. env[r].pc \in {"new", "prepared", "reserved", "queued"}
    BY <1>3, Calls DEF Change, Same, Advances, JoinsNow, JoinsIn, AnsweredNow, TurnedAway
  <2>2. ~Publish(r)
    BY <2>1 DEF Publish, Working
  <2>3. env'[r].committed = env[r].committed
    BY <2>2, Flags
  <2>4. QED
    BY <2>1, <2>3 DEF Overtaken
<1>4. ASSUME NEW r \in Request, NEW s \in behind'[r], behind'[r] # behind[r]
      PROVE  /\ s \in Turns /\ KindOf[r] = "stop" /\ AggregateOf[s] = AggregateOf[r]
             /\ env'[s].pc \in {"queued", "taken", "done"} /\ env'[s].order < env'[r].order
             /\ ~env'[r].committed
  <2>1. /\ Reserve(r) /\ KindOf[r] = "stop" /\ env'[r].pc = "reserved"
        /\ env'[r].order = admissionOrder + 1 /\ \A q \in Request \ {r} : env'[q] = env[q]
        /\ s \in Turns /\ env[s].pc = "queued" /\ AggregateOf[s] = AggregateOf[r]
    BY <1>4, HistoryStep
  <2>2. env[r].pc = "prepared"
    BY <2>1 DEF Reserve
  <2>3. s # r /\ env'[s] = env[s]
    BY <1>0, <2>1, <2>2
  <2>4. env[s].order <= admissionOrder
    BY <1>0, <2>1 DEF Overtaken
  <2>5. QED
    BY <1>0, <1>3, <2>1, <2>3, <2>4
<1>5. ASSUME NEW r \in Request, NEW s \in behind[r]
      PROVE  /\ s \in Turns /\ KindOf[r] = "stop" /\ AggregateOf[s] = AggregateOf[r]
             /\ env'[s].pc \in {"queued", "taken", "done"} /\ env'[s].order < env'[r].order
             /\ env'[r].committed => env'[s].pc = "done" \/ phase' = "closed"
  <2>1. /\ s \in Turns /\ KindOf[r] = "stop" /\ AggregateOf[s] = AggregateOf[r]
        /\ env[s].pc \in {"queued", "taken", "done"} /\ env[s].order < env[r].order
        /\ env[r].committed => env[s].pc = "done" \/ phase = "closed"
        /\ env[r].pc \notin {"new", "prepared"}
    BY <1>5 DEF Overtaken
  <2>2. s \in Request
    BY <1>0, <2>1
  <2>3. /\ env'[s].pc \in {"queued", "taken", "done"}
        /\ env[s].pc = "done" => env'[s].pc = "done"
    BY <2>1, <2>2, Calls DEF Change, Same, Advances, JoinsNow, AnsweredNow, TurnedAway
  <2>4. env'[s].order = env[s].order /\ env'[r].order = env[r].order
    BY <2>1, <2>2, Flags DEF Reserve
  <2>5. ASSUME env'[r].committed, ~env[r].committed
        PROVE  env'[s].pc = "done"
    <3>1. Publish(r)
      BY <2>5, Flags
    <3>2. worker.pc = "publishing" /\ worker.request = r
      BY <3>1 DEF Publish
    <3>3. env[r].pc = "taken" /\ phase # "closed" /\ s # r
      BY <2>1, <3>2 DEF Working, Turns
    <3>4. CASE env[s].pc = "queued"
      <4>1. s \in Superseded(r)
        BY <2>1, <3>4 DEF Superseded
      <4>2. QED
        BY <2>2, <3>1, <3>3, <4>1, PublishEffect
    <3>5. env[s].pc # "taken"
      BY <2>2, <3>2, <3>3 DEF Working
    <3>6. QED
      BY <2>1, <2>3, <3>4, <3>5
  <2>6. ASSUME env[r].committed, phase = "closed" PROVE env'[s].pc = "done" \/ phase' = "closed"
    BY <2>1, <2>2, <2>6, PhaseStep, RestartEffect DEF Ended
  <2>7. QED
    BY <2>1, <2>3, <2>4, <2>5, <2>6
<1>6. \A r \in Request : \A s \in behind'[r] :
        /\ s \in Turns /\ KindOf[r] = "stop" /\ AggregateOf[s] = AggregateOf[r]
        /\ env'[s].pc \in {"queued", "taken", "done"} /\ env'[s].order < env'[r].order
        /\ env'[r].committed => env'[s].pc = "done" \/ phase' = "closed"
  BY <1>4, <1>5
<1>7. QED
  BY <1>1, <1>2, <1>3, <1>6 DEF Overtaken

\* Once a stop was published, no turn that was queued when it was ordered is committed,
\* whatever callers, failures and restarts there are.
THEOREM StopSupersedesHolds == Spec => StopSupersedes
<1>1. Init => Overtaken
  BY DEF Init, Overtaken, NewEnvelope
<1>2. TypeOK /\ Working /\ Overtaken /\ [Next]_vars => (TypeOK /\ Working /\ Overtaken)'
  BY NextType, WorkingNext, OvertakenNext
<1>3. ASSUME Working, Overtaken, NEW r \in Request, NEW s \in Request,
             worker.pc = "committing", worker.request = s, env[r].committed, s \in behind[r]
      PROVE  FALSE
  BY <1>3 DEF Working, Overtaken
<1>4. TypeOK /\ Working /\ Overtaken /\ [Next]_vars =>
        [\A r, s \in Request :
           /\ worker.pc = "committing" /\ worker.request = s /\ log' # log /\ log'[Len(log')] = s
           => ~(env[r].committed /\ s \in behind[r])]_vars
  BY <1>3
<1>5. QED
  BY <1>1, <1>2, <1>4, InitType, WorkingInit, PTL DEF Spec, StopSupersedes

-----------------------------------------------------------------------------
(* Controls that are not sent twice under one command id. *)

OneControlPerId == \A r, s \in Control : CommandOf[r] = CommandOf[s] => r = s

Sent ==
  /\ \A r \in Control : env[r].pc \in {"new", "prepared"} =>
       /\ ~env[r].claimed /\ ~env[r].expired /\ carried[CommandOf[r]] = 0
       /\ CommandOf[r] \notin reported /\ reservations[CommandOf[r]] # r
  /\ \A r \in Control : reservations[CommandOf[r]] = r =>
       /\ ~env[r].claimed => carried[CommandOf[r]] = 0
       /\ CommandOf[r] \in reported => env[r].expired
  /\ NotSentIsNotSent

\* What was reported and what was carried out stay apart.
LEMMA SentNext ==
  ASSUME OneControlPerId, TypeOK, Working, Bound, Sent, [Next]_vars PROVE Sent'
<1>0. /\ Control \subseteq Request /\ NoRequest \notin Control
      /\ \A r \in Control : CommandOf[r] \in Command
  BY RequestAssumption DEF Control
<1>1. \A c \in Command : carried'[c] # carried[c] =>
        \E r \in Control : /\ CommandOf[r] = c /\ reservations[c] = r /\ carried'[c] = carried[c] + 1
                           /\ ~env[r].claimed /\ ~env[r].expired /\ env'[r].claimed
  BY <1>0, HistoryStep DEF Bound
<1>2. \A c \in reported' \ reported : \E r \in Control :
        /\ CommandOf[r] = c /\ reservations[c] = r /\ ~env[r].claimed /\ env'[r].expired
        /\ carried'[c] = carried[c]
  <2> SUFFICES ASSUME NEW c \in reported' \ reported
               PROVE  \E r \in Control :
                        /\ CommandOf[r] = c /\ reservations[c] = r /\ ~env[r].claimed /\ env'[r].expired
                        /\ carried'[c] = carried[c]
    OBVIOUS
  <2>1. PICK r \in Control : Expire(r) /\ CommandOf[r] = c
    BY HistoryStep
  <2>2. reservations[c] = r /\ ~env[r].claimed /\ carried' = carried
    BY <2>1 DEF Expire
  <2>3. env'[r].expired
    BY <1>0, <2>1, ExpireEffect
  <2>4. QED
    BY <2>1, <2>2, <2>3
<1>3. ASSUME NEW r \in Control, reservations'[CommandOf[r]] = r, reservations[CommandOf[r]] # r
      PROVE  env[r].pc = "prepared" /\ env'[r].pc = "reserved"
  <2>1. Reserve(r)
    BY <1>0, <1>3, ReservationStep
  <2>2. QED
    BY <1>0, <1>3, <2>1, ReserveEffect
<1>4. ASSUME NEW r \in Control, env'[r].pc \in {"new", "prepared"}
      PROVE  /\ ~env'[r].claimed /\ ~env'[r].expired /\ carried'[CommandOf[r]] = 0
             /\ CommandOf[r] \notin reported' /\ reservations'[CommandOf[r]] # r
  <2>1. env[r].pc \in {"new", "prepared"}
    BY <1>0, <1>4, Calls DEF Change, Same, Advances, JoinsNow, JoinsIn, AnsweredNow, TurnedAway
  <2>2. /\ ~env[r].claimed /\ ~env[r].expired /\ carried[CommandOf[r]] = 0
        /\ CommandOf[r] \notin reported /\ reservations[CommandOf[r]] # r
    BY <2>1 DEF Sent
  <2>3. reservations'[CommandOf[r]] # r
    BY <1>3, <1>4, <2>2
  <2>4. ~env'[r].claimed
    BY <1>0, <2>2, Flags DEF Bound
  <2>5. ~env'[r].expired
    BY <1>0, <2>2, Flags DEF Expire
  <2>6. carried'[CommandOf[r]] = 0 /\ CommandOf[r] \notin reported'
    BY <1>0, <1>1, <1>2, <2>2 DEF OneControlPerId
  <2>7. QED
    BY <2>3, <2>4, <2>5, <2>6
<1>5. ASSUME NEW r \in Control, reservations'[CommandOf[r]] = r
      PROVE  /\ ~env'[r].claimed => carried'[CommandOf[r]] = 0
             /\ CommandOf[r] \in reported' => env'[r].expired
  <2>1. CASE reservations[CommandOf[r]] = r
    <3>1. ASSUME ~env'[r].claimed PROVE carried'[CommandOf[r]] = 0
      <4>1. ~env[r].claimed
        BY <1>0, <3>1, Flags DEF TypeOK, Envelope
      <4>2. carried'[CommandOf[r]] = carried[CommandOf[r]]
        BY <1>0, <1>1, <2>1, <3>1
      <4>3. QED
        BY <2>1, <4>1, <4>2 DEF Sent
    <3>2. ASSUME CommandOf[r] \in reported' PROVE env'[r].expired
      <4>1. CASE CommandOf[r] \in reported
        <5>1. env[r].expired
          BY <2>1, <4>1 DEF Sent
        <5>2. QED
          BY <1>0, <5>1, Flags DEF Expire
      <4>2. CASE CommandOf[r] \notin reported
        BY <1>2, <2>1, <3>2, <4>2
      <4>3. QED
        BY <4>1, <4>2
    <3>3. QED
      BY <3>1, <3>2
  <2>2. CASE reservations[CommandOf[r]] # r
    <3>1. /\ carried[CommandOf[r]] = 0 /\ CommandOf[r] \notin reported
      BY <1>3, <1>5, <2>2 DEF Sent
    <3>2. carried'[CommandOf[r]] = 0 /\ CommandOf[r] \notin reported'
      BY <1>0, <1>1, <1>2, <2>2, <3>1 DEF OneControlPerId
    <3>3. QED
      BY <3>2
  <2>3. QED
    BY <2>1, <2>2
<1>6. NotSentIsNotSent'
  <2> SUFFICES ASSUME NEW c \in Command
               PROVE  carried'[c] <= 1 /\ (c \in reported' => carried'[c] = 0)
    BY DEF NotSentIsNotSent
  <2>1. carried[c] <= 1 /\ (c \in reported => carried[c] = 0)
    BY DEF Sent, NotSentIsNotSent
  <2>2. CASE carried'[c] # carried[c]
    <3>1. PICK r \in Control : /\ CommandOf[r] = c /\ reservations[c] = r /\ carried'[c] = carried[c] + 1
                               /\ ~env[r].claimed /\ ~env[r].expired /\ env'[r].claimed
      BY <1>1, <2>2
    <3>2. carried[c] = 0 /\ c \notin reported
      BY <3>1 DEF Sent
    <3>3. c \notin reported'
      BY <1>2, <2>2, <3>2
    <3>4. QED
      BY <3>1, <3>2, <3>3
  <2>3. CASE carried'[c] = carried[c]
    <3>1. ASSUME c \in reported' \ reported PROVE carried[c] = 0
      BY <1>2, <3>1 DEF Sent
    <3>2. QED
      BY <2>1, <2>3, <3>1
  <2>4. QED
    BY <2>2, <2>3
<1>7. QED
  BY <1>4, <1>5, <1>6 DEF Sent

-----------------------------------------------------------------------------
(* Who holds a place of the admission queue. *)

Places ==
  /\ \A r \in accepted : r \in Control => reservations[CommandOf[r]] = r
  /\ \A r \in accepted : r \notin Control => env[r].pc \in {"queued", "taken"}
  /\ \A r \in accepted : env[r].pc \in {"queued", "taken", "done"}
  /\ \A r \in Control : env[r].pc = "reserved" /\ phase # "closed" => reservations[CommandOf[r]] = r
  /\ \A r \in Control : env[r].claimed \/ env[r].expired => env[r].pc = "done"
  /\ \A r \in Control : (env[r].committed \/ CommandOf[r] \in inbox) /\ phase # "closed" =>
       env[r].pc = "done" \/ (env[r].pc = "taken" /\ worker.request = r /\ ~Yields)
  /\ \A r \in Request \ Control : ~env[r].committed
  /\ worker.appended # 0 /\ worker.pc \in {"failed", "answering"} => worker.outcome \in {"error", "accepted"}

\* A place is taken by an offer, and nobody else's reservation goes with it.
LEMMA AcceptedStep ==
  ASSUME TypeOK, Working, [Next]_vars, NEW r \in accepted'
  PROVE  \/ r \notin accepted /\ r \in Request /\ env[r].pc = "reserved" /\ env'[r].pc = "queued"
            /\ phase # "closed" /\ reservations' = reservations
         \/ r \in accepted /\ env[r].pc = "reserved"
         \/ r \in accepted /\ (\A c \in Command : reservations[c] = r => reservations'[c] = r)
<1>0. /\ reservations \in [Command -> Control \cup {NoRequest}] /\ accepted \subseteq Request
      /\ NoRequest \notin Request
  BY RequestAssumption DEF TypeOK
<1> DEFINE Stays == r \in accepted /\ (\A c \in Command : reservations[c] = r => reservations'[c] = r)
<1>1. ASSUME NEW q \in Request, Reserve(q) PROVE Stays
  <2>1. r \in accepted
    BY <1>1 DEF Reserve
  <2>2. \/ reservations' = reservations
        \/ /\ Existing(q) = NoRequest
           /\ reservations' = IF q \in Control THEN [reservations EXCEPT ![CommandOf[q]] = q] ELSE reservations
    BY <1>1, ReserveEffect
  <2>3. QED
    BY <1>0, <2>1, <2>2 DEF Existing
<1>2. ASSUME NEW q \in Request, Offer(q)
      PROVE  \/ r \notin accepted /\ r \in Request /\ env[r].pc = "reserved" /\ env'[r].pc = "queued"
                /\ phase # "closed" /\ reservations' = reservations
             \/ r \in accepted /\ env[r].pc = "reserved"
             \/ Stays
  <2>1. CASE q = r
    BY <1>2, <2>1, OfferEffect DEF Moved
  <2>2. CASE q # r
    BY <1>2, <2>2, OfferEffect
  <2>3. QED
    BY <2>1, <2>2
<1>3. ASSUME NEW c \in Command, ReleaseControl(c) PROVE Stays
  BY <1>0, <1>3 DEF ReleaseControl
<1>4. ASSUME NEW q \in Request, Answer(q) PROVE Stays
  <2>1. ReleaseEnvelope(q) /\ CommandOf[q] \in Command
    BY <1>4, RequestAssumption DEF Answer
  <2>2. QED
    BY <1>3, <2>1 DEF ReleaseEnvelope
<1>5. ASSUME \/ \E c \in Command : Complete(c)
             \/ \E q \in Request : ExpiryEnds(q)
      PROVE  Stays
  BY <1>3, <1>5, RequestAssumption DEF Complete, ExpiryEnds
<1>6. ASSUME NEW q \in Request, Publish(q) PROVE Stays
  BY <1>6 DEF Publish
<1>7. ASSUME Close \/ Restart PROVE FALSE
  BY <1>7 DEF Close, Restart
<1>8. ASSUME \/ \E q \in Request : Dispatch(q) \/ Take(q) \/ Decide(q) \/ Commit(q) \/ Reconcile(q) \/ Expire(q)
             \/ \E c \in Command : Claim(c) \/ SteerComesBack(c)
             \/ AnotherServerAppends \/ BeginShutdown \/ UNCHANGED vars
      PROVE  Stays
  BY <1>8 DEF Dispatch, Take, Decide, Commit, Reconcile, Expire, Claim, SteerComesBack,
              AnotherServerAppends, BeginShutdown, vars, callers
<1>9. QED
  BY <1>1, <1>2, <1>4, <1>5, <1>6, <1>7, <1>8 DEF Next, Work

\* An ordinary command gives its place up in the step in which it is answered.
LEMMA OrdinaryStep ==
  ASSUME TypeOK, Working, [Next]_vars,
         NEW r \in accepted', r \in accepted, r \notin Control, ~env[r].committed, env[r].pc \in {"queued", "taken"}
  PROVE  env'[r].pc \in {"queued", "taken"}
<1>0. r \in Request /\ r # NoRequest
  BY RequestAssumption DEF TypeOK
<1>1. ASSUME NEW q \in Request, Dispatch(q) \/ Reserve(q) PROVE env'[r] = env[r]
  BY <1>0, <1>1, DispatchEffect, ReserveEffect
<1>2. ASSUME NEW q \in Request, Offer(q) PROVE env'[r] = env[r]
  <2>1. q # r
    BY <1>2, OfferEffect
  <2>2. QED
    BY <1>0, <1>2, <2>1, OfferEffect DEF SettlesIn
<1>3. ASSUME NEW q \in Request, Take(q) PROVE env'[r].pc \in {"queued", "taken"}
  BY <1>0, <1>3, TakeEffect DEF Moved
<1>4. ASSUME NEW q \in Request, Publish(q) PROVE env'[r].pc = env[r].pc
  <2>1. env[q].pc = "taken" /\ accepted' = accepted \ Superseded(q)
    BY <1>4 DEF Publish, Working
  <2>2. r \notin Superseded(q)
    BY <2>1
  <2>3. QED
    BY <1>0, <1>4, <2>1, <2>2, PublishEffect DEF Unmoved
<1>5. ASSUME NEW q \in Request, Answer(q) PROVE env'[r] = env[r]
  <2>1. q # r
    BY <1>5 DEF Answer, ReleaseEnvelope
  <2>2. QED
    BY <1>0, <1>5, <2>1, AnswerEffect DEF SettlesIn
<1>6. ASSUME NEW c \in Command, Claim(c) PROVE env'[r].pc = env[r].pc
  BY <1>0, <1>6, ClaimEffect DEF Unmoved
<1>7. ASSUME NEW q \in Request, Expire(q) PROVE env'[r].pc = env[r].pc
  BY <1>0, <1>7, ExpireEffect DEF Unmoved, Moved
<1>8. ASSUME Close \/ Restart PROVE FALSE
  BY <1>8 DEF Close, Restart
<1>9. ASSUME \/ \E q \in Request : Decide(q) \/ Commit(q) \/ Reconcile(q) \/ ExpiryEnds(q)
             \/ \E c \in Command : Complete(c) \/ SteerComesBack(c)
             \/ AnotherServerAppends \/ BeginShutdown \/ UNCHANGED vars
      PROVE  env' = env
  BY <1>9 DEF Decide, Commit, Reconcile, Complete, SteerComesBack, ExpiryEnds, AnotherServerAppends,
              BeginShutdown, vars, callers
<1>10. QED
  BY <1>1, <1>2, <1>3, <1>4, <1>5, <1>6, <1>7, <1>8, <1>9 DEF Next, Work

\* How a control loses its reservation.
LEMMA ReleaseStep ==
  ASSUME TypeOK, Working, [Next]_vars, NEW r \in Control, reservations[CommandOf[r]] = r,
         reservations'[CommandOf[r]] # r
  PROVE  \/ env[r].claimed \/ env[r].expired
         \/ \E q \in Control : Answer(q) /\ CommandOf[q] = CommandOf[r]
         \/ Close \/ Restart \/ (env[r].pc = "reserved" /\ env'[r].pc = "done")
<1>0. /\ reservations \in [Command -> Control \cup {NoRequest}] /\ Control \subseteq Request
      /\ NoRequest \notin Request /\ CommandOf[r] \in Command /\ r \in Request
  BY RequestAssumption DEF TypeOK, Control
<1>1. ASSUME NEW q \in Request, Reserve(q) PROVE FALSE
  <2>1. \/ reservations' = reservations
        \/ /\ Existing(q) = NoRequest
           /\ reservations' = IF q \in Control THEN [reservations EXCEPT ![CommandOf[q]] = q] ELSE reservations
    BY <1>1, ReserveEffect
  <2>2. QED
    BY <1>0, <2>1 DEF Existing
<1>2. ASSUME NEW q \in Request, Offer(q) PROVE env[r].pc = "reserved" /\ env'[r].pc = "done"
  <2>1. /\ env[q].pc = "reserved"
        /\ \E o \in {"closed", "full"} : SettlesIn(env', {q}, o)
        /\ reservations' = [c \in Command |-> IF reservations[c] = q THEN NoRequest ELSE reservations[c]]
    BY <1>2, OfferEffect
  <2>2. q = r
    BY <1>0, <2>1
  <2>3. QED
    BY <1>0, <2>1, <2>2 DEF SettlesIn
<1>3. ASSUME NEW c, ReleaseControl(c) PROVE c = CommandOf[r]
  BY <1>0, <1>3 DEF ReleaseControl
<1>4. ASSUME NEW q \in Request, Answer(q) PROVE q \in Control /\ CommandOf[q] = CommandOf[r]
  BY <1>3, <1>4 DEF Answer, ReleaseEnvelope
<1>5. ASSUME NEW c \in Command, Complete(c) PROVE env[r].claimed
  BY <1>3, <1>5 DEF Complete
<1>6. ASSUME NEW q \in Request, ExpiryEnds(q) PROVE env[r].expired
  <2>1. CommandOf[q] = CommandOf[r]
    BY <1>3, <1>6 DEF ExpiryEnds
  <2>2. QED
    BY <1>6, <2>1 DEF ExpiryEnds
<1>7. ASSUME \/ \E q \in Request : \/ Dispatch(q) \/ Take(q) \/ Decide(q) \/ Commit(q) \/ Publish(q)
                                   \/ Reconcile(q) \/ Expire(q)
             \/ \E c \in Command : Claim(c) \/ SteerComesBack(c)
             \/ AnotherServerAppends \/ BeginShutdown \/ UNCHANGED vars
      PROVE  FALSE
  BY <1>7 DEF Dispatch, Take, Decide, Commit, Publish, Reconcile, Expire, Claim, SteerComesBack,
              AnotherServerAppends, BeginShutdown, vars, callers
<1>8. QED
  BY <1>1, <1>2, <1>4, <1>5, <1>6, <1>7 DEF Next, Work

\* Who is heard of by the reactor is a control whose events the worker has just published.
LEMMA InboxStep ==
  ASSUME TypeOK, Working, [Next]_vars, NEW c \in inbox', c \notin inbox
  PROVE  \E q \in Control : /\ CommandOf[q] = c /\ worker.request = q /\ worker'.request = q
                            /\ worker.pc \in {"publishing", "failed"} /\ worker'.pc = "answering"
                            /\ \/ worker'.outcome = "accepted"
                               \/ worker'.outcome = worker.outcome /\ worker.pc = "failed" /\ worker.appended # 0
<1>1. ASSUME NEW q \in Request, Publish(q)
      PROVE  q \in Control /\ CommandOf[q] = c /\ worker.request = q /\ worker'.request = q
             /\ worker.pc = "publishing" /\ worker'.pc = "answering" /\ worker'.outcome = "accepted"
  <2>1. q \in Control /\ CommandOf[q] = c
    BY <1>1 DEF Publish, Heard, Hear
  <2>2. QED
    BY <1>1, <2>1, WorkerSteps
<1>2. ASSUME NEW q \in Request, Reconcile(q)
      PROVE  q \in Control /\ CommandOf[q] = c /\ worker.request = q /\ worker'.request = q
             /\ worker.pc = "failed" /\ worker'.pc = "answering" /\ worker'.outcome = worker.outcome
             /\ worker.appended # 0
  <2>1. inbox' = inbox \/ (worker.appended # 0 /\ Heard(q))
    BY <1>2 DEF Reconcile, outputs
  <2>2. worker.appended # 0 /\ q \in Control /\ CommandOf[q] = c
    BY <2>1 DEF Heard, Hear
  <2>3. QED
    BY <1>2, <2>2, WorkerSteps
<1>3. ASSUME \/ \E q \in Request : \/ Dispatch(q) \/ Reserve(q) \/ Offer(q) \/ Take(q) \/ Decide(q)
                                   \/ Commit(q) \/ Answer(q) \/ Expire(q) \/ ExpiryEnds(q)
             \/ \E d \in Command : Claim(d) \/ Complete(d) \/ SteerComesBack(d)
             \/ AnotherServerAppends \/ BeginShutdown \/ Close \/ Restart \/ UNCHANGED vars
      PROVE  inbox' \subseteq inbox
  BY <1>3 DEF Dispatch, Reserve, Offer, Take, Decide, Commit, Answer, Expire, ExpiryEnds, Claim, Complete,
              SteerComesBack, AnotherServerAppends, BeginShutdown, Close, Restart, vars, outputs
<1>4. QED
  BY <1>1, <1>2, <1>3 DEF Next, Work

\* Until it has answered, nothing but the worker, another server and the end of the
\* process interferes with a worker that does not yield.
LEMMA UnyieldingStep ==
  ASSUME TypeOK, Working, [Next]_vars, ~Yields, NEW r \in Request, worker.request = r
  PROVE  Answer(r) \/ Restart \/ (worker' = worker /\ env' = env)
<1>1. worker.pc = "answering"
  BY DEF Yields
<1>2. ASSUME NEW q \in Request, Take(q) \/ Decide(q) \/ Commit(q) \/ Publish(q) \/ Reconcile(q) PROVE FALSE
  BY <1>1, <1>2, IdleWorker DEF Take, Decide, Commit, Publish, Reconcile
<1>3. ASSUME \/ \E q \in Request : Dispatch(q) \/ Reserve(q) \/ Offer(q) \/ Expire(q) \/ ExpiryEnds(q)
             \/ \E c \in Command : Claim(c) \/ Complete(c) \/ SteerComesBack(c)
             \/ BeginShutdown \/ Close
      PROVE  FALSE
  BY <1>3 DEF Dispatch, Reserve, Offer, Expire, ExpiryEnds, Claim, Complete, SteerComesBack, BeginShutdown, Close
<1>4. ASSUME NEW q \in Request, Answer(q) PROVE q = r
  BY <1>4 DEF Answer
<1>5. CASE AnotherServerAppends \/ UNCHANGED vars
  BY <1>5 DEF AnotherServerAppends, vars, callers
<1>6. QED
  BY <1>2, <1>3, <1>4, <1>5 DEF Next, Work

\* Places of the admission queue stay accounted for.
LEMMA PlacesNext ==
  ASSUME OneControlPerId, TypeOK, Working, Bound, Overtaken, Sent, Places, [Next]_vars PROVE Places'
<1>0. /\ Control \subseteq Request /\ NoRequest \notin Control /\ accepted \subseteq Request
      /\ accepted' \subseteq Request
      /\ \A r \in Control : CommandOf[r] \in Command
  BY RequestAssumption, NextType DEF Control, TypeOK
<1>1. ASSUME NEW r \in accepted', r \in Control PROVE reservations'[CommandOf[r]] = r
  <2>1. r \in accepted => reservations[CommandOf[r]] = r /\ env[r].pc # "reserved"
    BY <1>1 DEF Places
  <2>2. env[r].pc = "reserved" /\ phase # "closed" => reservations[CommandOf[r]] = r
    BY <1>1 DEF Places
  <2>3. QED
    BY <1>0, <1>1, <2>1, <2>2, AcceptedStep
<1>2. ASSUME NEW r \in accepted', r \notin Control PROVE env'[r].pc \in {"queued", "taken"}
  <2>1. CASE r \notin accepted
    BY <1>2, <2>1, AcceptedStep
  <2>2. CASE r \in accepted
    <3>1. env[r].pc \in {"queued", "taken"} /\ ~env[r].committed
      BY <1>0, <1>2, <2>2 DEF Places
    <3>2. QED
      BY <1>2, <2>2, <3>1, OrdinaryStep
  <2>3. QED
    BY <2>1, <2>2
<1>3. ASSUME NEW r \in accepted' PROVE env'[r].pc \in {"queued", "taken", "done"}
  <2>1. CASE r \notin accepted
    BY <1>3, <2>1, AcceptedStep
  <2>2. CASE r \in accepted
    <3>1. env[r].pc \in {"queued", "taken", "done"} /\ r \in Request
      BY <1>0, <2>2 DEF Places
    <3>2. QED
      BY <3>1, Calls DEF Change, Same, Advances, JoinsNow, AnsweredNow, TurnedAway
  <2>3. QED
    BY <2>1, <2>2
<1>4. ASSUME NEW r \in Control, env[r].claimed \/ env[r].expired \/ env'[r].claimed \/ env'[r].expired
      PROVE  env'[r].pc = "done"
  <2>1. CASE env[r].claimed \/ env[r].expired
    <3>1. env[r].pc = "done"
      BY <2>1 DEF Places
    <3>2. QED
      BY <1>0, <3>1, Calls DEF Change, Same, Advances, JoinsNow, AnsweredNow, TurnedAway
  <2>2. CASE ~env[r].claimed /\ ~env[r].expired
    <3>1. \/ \E c \in Command : Claim(c) /\ reservations[c] = r
          \/ Expire(r)
      BY <1>0, <1>4, <2>2, Flags
    <3>2. /\ Yields /\ phase # "closed"
          /\ CommandOf[r] \in inbox \/ env[r].committed
      <4>1. ASSUME NEW c \in Command, Claim(c), reservations[c] = r
            PROVE  Yields /\ phase # "closed" /\ CommandOf[r] \in inbox
        <5>1. Yields /\ phase # "closed" /\ c \in inbox
          BY <4>1 DEF Claim
        <5>2. QED
          BY <1>0, <4>1, <5>1 DEF Bound
      <4>2. ASSUME Expire(r) PROVE Yields /\ phase # "closed" /\ env[r].committed
        BY <4>2 DEF Expire
      <4>3. QED
        BY <3>1, <4>1, <4>2
    <3>3. env[r].pc = "done"
      BY <3>2 DEF Places
    <3>4. QED
      BY <1>0, <3>3, Calls DEF Change, Same, Advances, JoinsNow, AnsweredNow, TurnedAway
  <2>3. QED
    BY <2>1, <2>2
<1>5. ASSUME NEW r \in Control, env'[r].pc = "reserved", phase' # "closed"
      PROVE  reservations'[CommandOf[r]] = r
  <2>1. ~Restart
    BY <1>0, <1>5, RestartEffect DEF Ended
  <2>2. phase # "closed"
    BY <1>5, <2>1, PhaseStep
  <2>3. CASE env[r].pc = "reserved"
    <3>1. reservations[CommandOf[r]] = r
      BY <2>2, <2>3 DEF Places
    <3>2. ~env[r].claimed /\ ~env[r].expired
      BY <2>3 DEF Places
    <3>3. ASSUME NEW q \in Control, Answer(q), CommandOf[q] = CommandOf[r] PROVE FALSE
      <4>1. q = r
        BY <3>3 DEF OneControlPerId
      <4>2. QED
        BY <1>0, <2>3, <3>3, <4>1 DEF Answer, Working
    <3>4. ~Close
      BY <1>5 DEF Close
    <3>5. QED
      BY <1>5, <2>1, <3>1, <3>2, <3>3, <3>4, ReleaseStep
  <2>4. CASE env[r].pc # "reserved"
    <3>1. Reserve(r)
      BY <1>0, <1>5, <2>4, Calls DEF Change, Same, Advances, JoinsNow, JoinsIn, AnsweredNow, TurnedAway
    <3>2. reservations' = [reservations EXCEPT ![CommandOf[r]] = r]
      BY <1>0, <1>5, <3>1, ReserveEffect DEF Ended, JoinsIn
    <3>3. QED
      BY <1>0, <3>2 DEF TypeOK
  <2>5. QED
    BY <2>3, <2>4
<1>6. ASSUME NEW r \in Control, env'[r].committed \/ CommandOf[r] \in inbox', phase' # "closed"
      PROVE  env'[r].pc = "done" \/ (env'[r].pc = "taken" /\ worker'.request = r /\ ~Yields')
  <2>1. CASE Restart
    <3>1. inbox' = {}
      BY <2>1 DEF Restart
    <3>2. ~Publish(r)
      BY <2>1, WorkerSteps, <1>0, IdleWorker DEF Restart
    <3>3. env[r].committed
      BY <1>0, <1>6, <3>1, <3>2, Flags
    <3>4. env[r].pc # "new"
      BY <1>0, <3>3 DEF Overtaken
    <3>5. QED
      BY <1>0, <2>1, <3>4, RestartEffect DEF Ended
  <2>2. CASE ~Restart /\ (env[r].committed \/ CommandOf[r] \in inbox)
    <3>1. phase # "closed"
      BY <1>6, <2>2, PhaseStep
    <3>2. CASE env[r].pc = "done"
      BY <1>0, <3>2, Calls DEF Change, Same, Advances, JoinsNow, AnsweredNow, TurnedAway
    <3>3. CASE env[r].pc = "taken" /\ worker.request = r /\ ~Yields
      <4>1. Answer(r) => env'[r].pc = "done"
        BY <1>0, <3>3, AnswerEffect DEF SettlesIn
      <4>2. worker' = worker => ~Yields'
        BY <3>3 DEF Yields
      <4>3. QED
        BY <1>0, <2>2, <3>3, <4>1, <4>2, UnyieldingStep
    <3>4. QED
      BY <2>2, <3>1, <3>2, <3>3 DEF Places
  <2>3. CASE ~Restart /\ ~env[r].committed /\ CommandOf[r] \notin inbox
    <3>1. /\ worker.request = r /\ worker'.request = r /\ worker.pc \in {"publishing", "failed"}
          /\ worker'.pc = "answering" /\ worker'.outcome # "rejected"
      <4>1. CASE env'[r].committed
        <5>1. Publish(r)
          BY <1>0, <2>3, <4>1, Flags
        <5>2. QED
          BY <1>0, <5>1, WorkerSteps
      <4>2. CASE CommandOf[r] \in inbox'
        BY <2>3, <4>2, InboxStep DEF OneControlPerId, Places
      <4>3. QED
        BY <1>6, <4>1, <4>2
    <3>2. env[r].pc = "taken"
      BY <3>1 DEF Working
    <3>3. env'[r].pc = "taken"
      BY <1>0, <3>1, WorkingNext DEF Working
    <3>4. QED
      BY <3>1, <3>3 DEF Yields
  <2>4. QED
    BY <1>6, <2>1, <2>2, <2>3
<1>7. ASSUME NEW r \in Request \ Control PROVE ~env'[r].committed
  BY Flags DEF Places
<1>8. ASSUME worker'.appended # 0, worker'.pc \in {"failed", "answering"}
      PROVE  worker'.outcome \in {"error", "accepted"}
  <2>1. ASSUME NEW r \in Request, Take(r) \/ Answer(r) PROVE FALSE
    BY <1>8, <2>1, IdleWorker DEF Take, Answer, Idle
  <2>2. ASSUME NEW r \in Request, Decide(r) \/ Commit(r) PROVE worker'.outcome \in {"error", "accepted"}
    <3>1. worker.appended = 0
      BY <2>2, WorkerSteps DEF Working
    <3>2. QED
      BY <1>8, <2>2, <3>1, WorkerSteps
  <2>3. ASSUME NEW r \in Request, Publish(r) \/ Reconcile(r) PROVE worker'.outcome \in {"error", "accepted"}
    BY <1>8, <2>3, WorkerSteps DEF Places
  <2>4. ASSUME Close \/ Restart PROVE FALSE
    BY <1>8, <2>4, IdleWorker DEF Close, Restart
  <2>5. CASE Quiet \/ AnotherServerAppends \/ \E c \in Command : SteerComesBack(c)
    <3>1. worker' = worker
      BY <2>5 DEF Quiet, AnotherServerAppends, SteerComesBack
    <3>2. QED
      BY <1>8, <3>1 DEF Places
  <2>6. QED
    BY <2>1, <2>2, <2>3, <2>4, <2>5, StepKinds DEF Work
<1>9. QED
  BY <1>1, <1>2, <1>3, <1>4, <1>5, <1>6, <1>7, <1>8 DEF Places

\* The invariants about controls hold initially.
LEMMA ControlsInit == Init => Sent /\ Overtaken /\ Places
<1> SUFFICES ASSUME Init PROVE Sent /\ Overtaken /\ Places
  OBVIOUS
<1>1. \A r \in Request : /\ env[r].pc = "new" /\ ~env[r].claimed /\ ~env[r].expired /\ ~env[r].committed
                         /\ behind[r] = {}
  BY DEF Init, NewEnvelope
<1>2. /\ \A c \in Command : carried[c] = 0 /\ reservations[c] = NoRequest
      /\ reported = {} /\ accepted = {} /\ inbox = {}
  BY DEF Init
<1>3. worker.appended = 0
  BY IdleWorker DEF Init
<1>4. Control \subseteq Request /\ \A r \in Control : CommandOf[r] \in Command /\ r # NoRequest
  BY RequestAssumption DEF Control
<1>5. Sent
  BY <1>1, <1>2, <1>4 DEF Sent, NotSentIsNotSent
<1>6. Overtaken /\ Places
  BY <1>1, <1>2, <1>3, <1>4 DEF Overtaken, Places
<1>7. QED
  BY <1>5, <1>6

\* While no two controls are sent under one command id, a control that was reported as
\* not sent is never carried out, and none is carried out twice.
THEOREM NotSentHolds == ASSUME OneControlPerId PROVE Spec => []NotSentIsNotSent
<1> DEFINE Inv == TypeOK /\ Working /\ Bound /\ Sent
<1>1. Init => Inv
  BY InitInv, ControlsInit DEF IInv
<1>2. Inv /\ [Next]_vars => Inv'
  BY NextType, WorkingNext, BoundNext, SentNext
<1>3. Inv => NotSentIsNotSent
  BY DEF Sent
<1>4. QED
  BY <1>1, <1>2, <1>3, PTL DEF Spec

\* Under the same condition nothing but a command in progress and a control whose
\* reservation stands holds a place of the admission queue.
THEOREM NoSlotLeaksHolds == ASSUME OneControlPerId PROVE Spec => []NoSlotLeaks
<1> DEFINE Inv == TypeOK /\ Working /\ Bound /\ Overtaken /\ Sent /\ Places
<1>1. Init => Inv
  BY InitInv, ControlsInit DEF IInv
<1>2. Inv /\ [Next]_vars => Inv'
  BY NextType, WorkingNext, BoundNext, OvertakenNext, SentNext, PlacesNext
<1>3. Inv => NoSlotLeaks
  BY DEF Places, NoSlotLeaks
<1>4. QED
  BY <1>1, <1>2, <1>3, PTL DEF Spec
==============================================================================
