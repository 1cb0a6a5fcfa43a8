--------------------- MODULE ProviderTurnDeliveryProofs ---------------------
(***************************************************************************)
(* What the outbox guarantees for any number of deliveries, threads, slots *)
(* and attempts, any number of crashes, stops, retries and faults.         *)
(***************************************************************************)
EXTENDS ProviderTurnDelivery, TLAPS

-----------------------------------------------------------------------------
(* The record updates keep the shape of a row and of an operation. *)

LEMMA ClaimedRow ==
  ASSUME NEW r \in Row
  PROVE  /\ Claimed(r) \in Row /\ Claimed(r).state = "sending"
         /\ Claimed(r).attemptId = r.attemptId + 1 /\ Claimed(r).receipt = 0
<1>1. PICK n \in Nat : n = r.attempt + 1
  BY DEF Row
<1>2. PICK m \in Nat : m = r.attemptId + 1
  BY DEF Row
<1> DEFINE c == [r EXCEPT !.state = "sending", !.attempt = n, !.attemptId = m, !.receipt = 0,
                       !.released = FALSE]
<1>3. c \in Row /\ c.state = "sending" /\ c.attemptId = m /\ c.receipt = 0
  BY DEF Row, States
<1>4. Claimed(r) = c
  BY <1>1, <1>2, Zenon DEF Claimed
<1> HIDE DEF c
<1>5. QED
  BY <1>2, <1>3, <1>4

LEMMA AcceptedRow ==
  ASSUME NEW r \in Row, NEW n \in Nat, NEW b \in BOOLEAN
  PROVE  /\ MarkAccepted(r, n, b) \in Row /\ MarkAccepted(r, n, b).state = "accepted"
         /\ MarkAccepted(r, n, b).attemptId = r.attemptId
<1>1. (r.released \/ b) \in BOOLEAN
  OBVIOUS
<1>2. QED
  BY <1>1 DEF Row, States, MarkAccepted

LEMMA RejectedRow ==
  ASSUME NEW r \in Row, NEW b \in BOOLEAN
  PROVE  /\ MarkRejected(r, b) \in Row
         /\ MarkRejected(r, b).state = IF b THEN "ambiguous" ELSE "rejected"
         /\ MarkRejected(r, b).attemptId = r.attemptId
         /\ MarkRejected(r, b).receipt = r.receipt
  BY DEF Row, States, MarkRejected

LEMMA RequeuedRow ==
  ASSUME NEW r \in Row
  PROVE  /\ Requeued(r) \in Row /\ Requeued(r).state = "pending"
         /\ Requeued(r).attemptId = r.attemptId /\ Requeued(r).receipt = r.receipt
  BY DEF Row, States, Requeued

LEMMA IdleType == Idle \in Operation /\ Idle.pc = "idle" /\ Idle.waits = {}
  BY DEF Idle, Operation, PC, Exit


\* An operation that stops short of an answer.
LEMMA FailsType ==
  ASSUME op \in [Delivery -> Operation], NEW d \in Delivery, NEW exit \in Exit, Fails(d, exit)
  PROVE  /\ op' \in [Delivery -> Operation]
         /\ op' = [op EXCEPT ![d] = op'[d]]
         /\ op'[d].pc = "settling" /\ op'[d].exit = exit /\ op'[d].waits = {}
         /\ op'[d].attemptId = op[d].attemptId
  BY DEF Fails, Operation, PC

\* Rows and operations change one at a time, and a change keeps their type.
LEMMA RowUpdate ==
  ASSUME row \in [Delivery -> Row], NEW d \in Delivery, NEW r \in Row,
         row' = [row EXCEPT ![d] = r]
  PROVE  row' \in [Delivery -> Row] /\ row'[d] = r /\ \A e \in Delivery \ {d} : row'[e] = row[e]
  OBVIOUS

LEMMA OpUpdate ==
  ASSUME op \in [Delivery -> Operation], NEW d \in Delivery, NEW o \in Operation,
         op' = [op EXCEPT ![d] = o]
  PROVE  op' \in [Delivery -> Operation] /\ op'[d] = o /\ \A e \in Delivery \ {d} : op'[e] = op[e]
  OBVIOUS

-----------------------------------------------------------------------------
(* The inductive invariant, delivery by delivery: what the row, the operation *)
(* and the history of one delivery must agree on.                             *)

\* The operation owns the row; before "calling" it has sent nothing.
Owning == {"claimed", "preparing", "fencing", "intent", "ready", "calling"}
Unsent == Owning \ {"calling"}

Sound(r, o, sent, last, agreed) ==
  /\ o.pc \in Owning => r.state = "sending" /\ r.attemptId = o.attemptId
  /\ o.pc \in Unsent => last # r.attemptId
  /\ o.pc = "settling" /\ r.state = "sending" /\ r.attemptId = o.attemptId
       => o.exit = "unknown" \/ (o.exit \in {"retryable", "final"} /\ last # r.attemptId)
  /\ o.waits # {} => o.pc \in {"reading", "fencing"}
  /\ last <= r.attemptId
  /\ r.attemptId > 0 /\ r.receipt = r.attemptId => r.state = "accepted"
  /\ r.state = "accepted" => last = r.attemptId
  /\ r.state \in {"none", "pending", "rejected"} => sent <= agreed
  /\ r.state = "sending" /\ last # r.attemptId => sent <= agreed
  /\ sent <= agreed + 1

Agree == \A d \in Delivery : Sound(row[d], op[d], sends[d], lastSent[d], consents[d])
BootIdle == phase = "booting" => \A d \in Delivery : op[d].pc = "idle"
IInv == TypeOK /\ Agree /\ BootIdle

\* Columns Sound does not look at.
LEMMA SameColumns ==
  ASSUME NEW r \in Row, NEW q \in Row, NEW o \in Operation, NEW s \in Nat, NEW l \in Nat,
         NEW c \in Nat, Sound(r, o, s, l, c),
         q.state = r.state, q.attemptId = r.attemptId, q.receipt = r.receipt
  PROVE  Sound(q, o, s, l, c)
  BY DEF Sound

LEMMA SoundIdle ==
  ASSUME NEW r \in Row, NEW o \in Operation, NEW p \in Operation, NEW s \in Nat, NEW l \in Nat,
         NEW c \in Nat, Sound(r, o, s, l, c), p.pc \in {"idle", "reading"},
         p.pc = "idle" => p.waits = {}
  PROVE  Sound(r, p, s, l, c)
  BY DEF Sound, Owning, Unsent

LEMMA SoundClaim ==
  ASSUME NEW r \in Row, NEW o \in Operation, NEW s \in Nat, NEW l \in Nat, NEW c \in Nat,
         Sound(r, o, s, l, c), r.state = "pending",
         NEW q \in Row, q.state = "sending", q.attemptId = r.attemptId + 1, q.receipt = 0,
         NEW p \in Operation, p.pc = "claimed", p.attemptId = r.attemptId + 1, p.waits = {}
  PROVE  Sound(q, p, s, l, c)
  BY DEF Sound, Owning, Unsent, Row

LEMMA SoundAdvance ==
  ASSUME NEW r \in Row, NEW o \in Operation, NEW s \in Nat, NEW l \in Nat, NEW c \in Nat,
         Sound(r, o, s, l, c), o.pc \in Unsent,
         NEW p \in Operation, p.pc \in Owning, p.attemptId = o.attemptId,
         p.waits # {} => p.pc = "fencing"
  PROVE  Sound(r, p, s, l, c)
  BY DEF Sound, Owning, Unsent

\* A failure is "not sent" only if the attempt was not.
LEMMA SoundFail ==
  ASSUME NEW r \in Row, NEW o \in Operation, NEW s \in Nat, NEW l \in Nat, NEW c \in Nat,
         Sound(r, o, s, l, c), o.pc \in Owning,
         NEW p \in Operation, p.pc = "settling", p.attemptId = o.attemptId, p.waits = {},
         p.exit = "unknown" \/ (p.exit \in {"retryable", "final"} /\ l # o.attemptId)
  PROVE  Sound(r, p, s, l, c)
  BY DEF Sound, Owning, Unsent

LEMMA SoundSend ==
  ASSUME NEW r \in Row, NEW o \in Operation, NEW s \in Nat, NEW l \in Nat, NEW c \in Nat,
         Sound(r, o, s, l, c), o.pc = "ready",
         NEW p \in Operation, p.pc = "calling", p.attemptId = o.attemptId, p.waits = o.waits
  PROVE  Sound(r, p, s + 1, o.attemptId, c)
  BY DEF Sound, Owning, Unsent, Row, Operation

LEMMA SoundAccept ==
  ASSUME NEW r \in Row, NEW o \in Operation, NEW s \in Nat, NEW l \in Nat, NEW c \in Nat,
         Sound(r, o, s, l, c), o.pc = "calling", l = o.attemptId,
         NEW q \in Row, q.state = "accepted", q.attemptId = r.attemptId,
         NEW p \in Operation, p.pc = "settling", p.waits = {}
  PROVE  Sound(q, p, s, l, c)
  BY DEF Sound, Owning, Unsent, Row

LEMMA SoundSettle ==
  ASSUME NEW r \in Row, NEW o \in Operation, NEW s \in Nat, NEW l \in Nat, NEW c \in Nat,
         Sound(r, o, s, l, c), o.pc = "settling", r.state = "sending", r.attemptId = o.attemptId,
         NEW q \in Row, q.attemptId = r.attemptId, q.receipt = r.receipt,
         IF o.exit = "unknown" THEN q.state = "ambiguous" ELSE q.state \in {"pending", "rejected"},
         NEW p \in Operation, p.pc = "idle", p.waits = {}
  PROVE  Sound(q, p, s, l, c)
  BY DEF Sound, Owning, Unsent, Row

\* A row no operation owns may move between these states.
LEMMA SoundMove ==
  ASSUME NEW r \in Row, NEW o \in Operation, NEW s \in Nat, NEW l \in Nat, NEW c \in Nat,
         NEW k \in Nat, Sound(r, o, s, l, c), r.state # "sending",
         NEW q \in Row, q.attemptId = r.attemptId, q.receipt = r.receipt,
         \/ r.state = "none" /\ q.state = "pending" /\ k = c
         \/ r.state = "pending" /\ q.state = "rejected" /\ k = c
         \/ r.state = "rejected" /\ q.state \in {"pending", "abandoned"} /\ k = c
         \/ r.state = "ambiguous" /\ q.state = "pending" /\ k = c + 1
         \/ r.state = "ambiguous" /\ q.state = "abandoned" /\ k = c
  PROVE  Sound(q, o, s, l, k)
  BY DEF Sound, Owning, Unsent, Row

LEMMA SoundLose ==
  ASSUME NEW r \in Row, NEW o \in Operation, NEW s \in Nat, NEW l \in Nat, NEW c \in Nat,
         Sound(r, o, s, l, c), o.pc = "idle", r.state = "sending",
         NEW q \in Row, q.attemptId = r.attemptId, q.receipt = r.receipt, q.state = "ambiguous"
  PROVE  Sound(q, o, s, l, c)
  BY DEF Sound, Owning, Unsent, Row

-----------------------------------------------------------------------------
(* Every step keeps it.  First the frame: only one delivery moves. *)

LEMMA Frame ==
  ASSUME IInv, NEW d \in Delivery,
         \A e \in Delivery \ {d} :
           /\ row'[e] = row[e] /\ op'[e] = op[e] /\ sends'[e] = sends[e]
           /\ lastSent'[e] = lastSent[e] /\ consents'[e] = consents[e],
         Sound(row'[d], op'[d], sends'[d], lastSent'[d], consents'[d])
  PROVE  Agree'
  BY DEF IInv, Agree

LEMMA Parts ==
  ASSUME IInv, NEW d \in Delivery
  PROVE  /\ row[d] \in Row /\ op[d] \in Operation
         /\ sends[d] \in Nat /\ lastSent[d] \in Nat /\ consents[d] \in Nat
         /\ Sound(row[d], op[d], sends[d], lastSent[d], consents[d])
         /\ row \in [Delivery -> Row] /\ op \in [Delivery -> Operation]
  BY DEF IInv, TypeOK, Agree

\* A step that only rewrites the row of d.
LEMMA RowStep ==
  ASSUME IInv, NEW d \in Delivery, NEW r \in Row, row' = [row EXCEPT ![d] = r],
         Sound(r, op[d], sends[d], lastSent[d], consents[d]),
         UNCHANGED <<seq, lastSeq, process, session, history>>
  PROVE  IInv'
<1>1. TypeOK'
  BY Parts, RowUpdate DEF IInv, TypeOK, process, session, history
<1>2. Agree'
  BY Frame, Parts, RowUpdate DEF process, history
<1>3. QED
  BY <1>1, <1>2 DEF IInv, BootIdle, process

\* A step that only moves the operation on d.
LEMMA OpStep ==
  ASSUME IInv, NEW d \in Delivery, NEW o \in Operation, op' = [op EXCEPT ![d] = o],
         phase # "booting" \/ o.pc = "idle",
         Sound(row[d], o, sends[d], lastSent[d], consents[d]),
         UNCHANGED <<durable, phase, stoppedSequences, controls, session, history>>
  PROVE  IInv'
<1>1. TypeOK'
  BY Parts, OpUpdate DEF IInv, TypeOK, durable, session, history
<1>2. Agree'
  BY Frame, Parts, OpUpdate DEF durable, history
<1>3. BootIdle'
  BY Parts, OpUpdate DEF IInv, BootIdle
<1>4. QED
  BY <1>1, <1>2, <1>3 DEF IInv

LEMMA RequestTurnStep ==
  ASSUME IInv, NEW d \in Delivery, RequestTurn(d) PROVE IInv'
<1> DEFINE q == [row[d] EXCEPT !.state = "pending"]
<1>1. q \in Row /\ q.state = "pending" /\ q.attemptId = row[d].attemptId /\ q.receipt = row[d].receipt
  BY Parts DEF Row, States
<1>2. row' = [row EXCEPT ![d] = q] /\ row[d].state = "none"
  BY DEF RequestTurn
<1> HIDE DEF q
<1>3. Sound(q, op[d], sends[d], lastSent[d], consents[d])
  BY <1>1, <1>2, Parts, SoundMove
<1>4. Agree'
  BY <1>1, <1>2, <1>3, Parts, RowUpdate, Frame DEF RequestTurn, process, history
<1>5. TypeOK'
  BY <1>1, <1>2, Parts, RowUpdate DEF RequestTurn, IInv, TypeOK, process, session, history
<1>6. QED
  BY <1>4, <1>5 DEF IInv, BootIdle, RequestTurn, process

LEMMA StopCommitsStep ==
  ASSUME IInv, NEW t \in Thread, StopCommits(t) PROVE IInv'
<1>1. \A d \in Delivery : /\ row'[d] \in Row
                          /\ Sound(row'[d], op[d], sends[d], lastSent[d], consents[d])
  <2> SUFFICES ASSUME NEW d \in Delivery
               PROVE  /\ row'[d] \in Row
                      /\ Sound(row'[d], op[d], sends[d], lastSent[d], consents[d])
    OBVIOUS
  <2> DEFINE q == [row[d] EXCEPT !.state = "rejected"]
  <2>1. q \in Row /\ q.state = "rejected" /\ q.attemptId = row[d].attemptId /\ q.receipt = row[d].receipt
    BY Parts DEF Row, States
  <2>2. row'[d] = row[d] \/ (row[d].state = "pending" /\ row'[d] = q)
    BY DEF StopCommits
  <2> HIDE DEF q
  <2>3. QED
    BY <2>1, <2>2, Parts, SoundMove
<1>2. row' \in [Delivery -> Row]
  <2>1. row' = [d \in Delivery |-> row'[d]]
    BY DEF StopCommits
  <2>2. QED
    BY <1>1, <2>1
<1>3. lastSeq + 1 \in Nat /\ stops + 1 \in Nat
  BY DEF IInv, TypeOK
<1>4. stoppedSequences' \in [Thread -> Nat] /\ controls' \subseteq Thread \X Nat
  BY <1>3 DEF IInv, TypeOK, StopCommits
<1>5. TypeOK'
  BY <1>2, <1>3, <1>4 DEF IInv, TypeOK, StopCommits, session
<1>6. Agree'
  BY <1>1 DEF Agree, StopCommits
<1>7. QED
  BY <1>5, <1>6 DEF IInv, BootIdle, StopCommits

LEMMA StopProcessedStep ==
  ASSUME IInv, NEW c \in controls, StopProcessed(c[1], c[2]) PROVE IInv'
<1> DEFINE t == c[1]
           s == c[2]
<1>1. t \in Thread /\ s \in Nat
  BY DEF IInv, TypeOK
<1>2. StopProcessed(t, s)
  OBVIOUS
<1> HIDE DEF t, s
<1>3. \A d \in Delivery : /\ row'[d] \in Row /\ op'[d] \in Operation /\ op'[d].pc = op[d].pc
                          /\ Sound(row'[d], op'[d], sends[d], lastSent[d], consents[d])
  <2> SUFFICES ASSUME NEW d \in Delivery
               PROVE  /\ row'[d] \in Row /\ op'[d] \in Operation /\ op'[d].pc = op[d].pc
                      /\ Sound(row'[d], op'[d], sends[d], lastSent[d], consents[d])
    OBVIOUS
  <2> DEFINE q == [row[d] EXCEPT !.released = TRUE]
             o == [op[d] EXCEPT !.waits = op[d].waits \ {s}]
  <2>1. q \in Row /\ q.state = row[d].state /\ q.attemptId = row[d].attemptId
        /\ q.receipt = row[d].receipt
    BY Parts DEF Row
  <2>2. o \in Operation /\ o.pc = op[d].pc /\ o.attemptId = op[d].attemptId /\ o.exit = op[d].exit
        /\ o.waits \subseteq op[d].waits
    BY Parts DEF Operation
  <2>3. row'[d] \in {row[d], q} /\ op'[d] \in {op[d], o}
    BY <1>2 DEF StopProcessed
  <2> HIDE DEF q, o
  <2>4. Sound(row'[d], op[d], sends[d], lastSent[d], consents[d]) /\ row'[d] \in Row
    BY <2>1, <2>3, Parts, SameColumns
  <2>5. op'[d] \in Operation /\ op'[d].pc = op[d].pc /\ op'[d].attemptId = op[d].attemptId
        /\ op'[d].exit = op[d].exit /\ op'[d].waits \subseteq op[d].waits
    BY <2>2, <2>3, Parts
  <2>6. Sound(row'[d], op'[d], sends[d], lastSent[d], consents[d])
    BY <2>4, <2>5 DEF Sound
  <2>7. QED
    BY <2>4, <2>5, <2>6
<1>4. row' \in [Delivery -> Row] /\ op' \in [Delivery -> Operation]
  <2>1. row' = [d \in Delivery |-> row'[d]] /\ op' = [d \in Delivery |-> op'[d]]
    BY <1>2 DEF StopProcessed
  <2>2. QED
    BY <1>3, <2>1
<1>5. generation' \in [Thread -> Nat] /\ sessionStopped' \in [Thread -> BOOLEAN]
      /\ halted' \in [Thread -> Nat]
  BY <1>1, <1>2 DEF IInv, TypeOK, StopProcessed
<1>6. turn' \in [Delivery -> Turn]
  BY <1>2 DEF IInv, TypeOK, StopProcessed, Ended, Turn
<1>7. TypeOK'
  BY <1>2, <1>4, <1>5, <1>6 DEF IInv, TypeOK, StopProcessed
<1>8. Agree' /\ BootIdle'
  BY <1>2, <1>3 DEF IInv, Agree, BootIdle, StopProcessed
<1>9. QED
  BY <1>7, <1>8 DEF IInv

LEMMA StopExpiresStep ==
  ASSUME IInv, NEW c \in controls, StopExpires(c[1], c[2]) PROVE IInv'
<1> DEFINE t == c[1]
           s == c[2]
<1>1. StopExpires(t, s)
  OBVIOUS
<1> HIDE DEF t, s
<1>2. \A d \in Delivery : /\ op'[d] \in Operation /\ (op[d].pc = "idle" => op'[d].pc = "idle")
                          /\ Sound(row[d], op'[d], sends[d], lastSent[d], consents[d])
  <2> SUFFICES ASSUME NEW d \in Delivery
               PROVE  /\ op'[d] \in Operation /\ (op[d].pc = "idle" => op'[d].pc = "idle")
                      /\ Sound(row[d], op'[d], sends[d], lastSent[d], consents[d])
    OBVIOUS
  <2> DEFINE o == [op[d] EXCEPT !.pc = "settling", !.exit = "retryable", !.waits = {}]
  <2>1. /\ o \in Operation /\ o.pc = "settling" /\ o.attemptId = op[d].attemptId
        /\ o.exit = "retryable" /\ o.waits = {}
    BY Parts DEF Operation, PC, Exit
  <2>2. \/ op'[d] = op[d] \/ op'[d] = Idle
        \/ op'[d] = o /\ op[d].waits # {} /\ op[d].pc # "reading"
    BY <1>1 DEF StopExpires
  <2> HIDE DEF o
  <2>3. CASE op'[d] = op[d]
    BY <2>3, Parts
  <2>4. CASE op'[d] = Idle
    BY <2>4, Parts, IdleType, SoundIdle
  <2>5. CASE op'[d] = o /\ op[d].waits # {} /\ op[d].pc # "reading"
    <3>1. op[d].pc = "fencing" /\ lastSent[d] # op[d].attemptId
      BY <2>5, Parts DEF Sound, Owning, Unsent
    <3>2. QED
      BY <2>1, <2>5, <3>1, Parts, SoundFail DEF Owning
  <2>6. QED
    BY <2>2, <2>3, <2>4, <2>5
<1>3. op' \in [Delivery -> Operation]
  <2>1. op' = [d \in Delivery |-> op'[d]]
    BY <1>1 DEF StopExpires
  <2>2. QED
    BY <1>2, <2>1
<1>4. TypeOK'
  BY <1>1, <1>3 DEF IInv, TypeOK, StopExpires, durable, session, history
<1>5. Agree' /\ BootIdle'
  BY <1>1, <1>2 DEF IInv, Agree, BootIdle, StopExpires, durable, session, history
<1>6. QED
  BY <1>4, <1>5 DEF IInv

LEMMA TurnStartsStep ==
  ASSUME IInv, NEW d \in Delivery, TurnStarts(d) PROVE IInv'
  BY DEF IInv, TypeOK, Agree, BootIdle, TurnStarts, Turn, durable, process, history

LEMMA TurnCompletesStep ==
  ASSUME IInv, NEW d \in Delivery, TurnCompletes(d) PROVE IInv'
<1> DEFINE b == row[d].released \/ row[d].state = "accepted"
           q == [row[d] EXCEPT !.released = b]
<1>1. b \in BOOLEAN
  OBVIOUS
<1>2. row' = [row EXCEPT ![d] = q]
  BY Parts DEF TurnCompletes
<1> HIDE DEF b
<1>3. q \in Row /\ q.state = row[d].state /\ q.attemptId = row[d].attemptId
      /\ q.receipt = row[d].receipt
  BY <1>1, Parts DEF Row
<1> HIDE DEF q
<1>4. Sound(q, op[d], sends[d], lastSent[d], consents[d])
  BY <1>3, Parts, SameColumns
<1>5. Agree'
  BY <1>2, <1>3, <1>4, Parts, RowUpdate, Frame DEF TurnCompletes, process, history
<1>6. TypeOK'
  BY <1>2, <1>3, Parts, RowUpdate DEF TurnCompletes, IInv, TypeOK, process, history, Turn
<1>7. QED
  BY <1>5, <1>6 DEF IInv, BootIdle, TurnCompletes, process

LEMMA BackoffStep ==
  ASSUME IInv, NEW d \in Delivery, BackoffElapses(d) PROVE IInv'
<1> DEFINE q == [row[d] EXCEPT !.due = TRUE]
<1>1. q \in Row /\ q.state = row[d].state /\ q.attemptId = row[d].attemptId
      /\ q.receipt = row[d].receipt
  BY Parts DEF Row
<1>2. row' = [row EXCEPT ![d] = q]
  BY DEF BackoffElapses
<1> HIDE DEF q
<1>3. QED
  BY <1>1, <1>2, Parts, SameColumns, RowStep DEF BackoffElapses

LEMMA BeginStep ==
  ASSUME IInv, NEW d \in Delivery, Begin(d) PROVE IInv'
<1> DEFINE o == [Idle EXCEPT !.pc = "reading", !.waits = OutstandingControls(ThreadOf[d])]
<1>1. OutstandingControls(ThreadOf[d]) \in SUBSET Nat
  BY DEF IInv, TypeOK, OutstandingControls
<1>2. o \in Operation /\ o.pc = "reading"
  BY <1>1, IdleType DEF Operation, PC
<1>3. op' = [op EXCEPT ![d] = o] /\ phase = "running"
  BY DEF Begin
<1> HIDE DEF o
<1>4. QED
  BY <1>2, <1>3, Parts, SoundIdle, OpStep DEF Begin

LEMMA ClaimStep ==
  ASSUME IInv, NEW d \in Delivery, Claim(d) PROVE IInv'
<1>1. CASE row' = row /\ op' = [op EXCEPT ![d] = Idle]
  <2>1. UNCHANGED <<durable, phase, stoppedSequences, controls, session, history>>
    BY <1>1 DEF Claim, durable
  <2>2. QED
    BY <1>1, <2>1, Parts, IdleType, SoundIdle, OpStep
<1>2. CASE /\ phase = "running" /\ row[d].state = "pending"
           /\ row' = [row EXCEPT ![d] = Claimed(row[d])]
           /\ op' = [op EXCEPT ![d].pc = "claimed", ![d].attemptId = row[d].attemptId + 1]
  <2>1. PICK n \in Nat : n = row[d].attemptId + 1
    BY Parts DEF Row
  <2> DEFINE o == [op[d] EXCEPT !.pc = "claimed", !.attemptId = n]
             q == Claimed(row[d])
  <2>2. o \in Operation /\ o.pc = "claimed" /\ o.attemptId = n /\ o.waits = op[d].waits
    BY Parts DEF Operation, PC
  <2>3. op' = [op EXCEPT ![d] = o]
    BY <1>2, <2>1, Parts
  <2>4. q \in Row /\ q.state = "sending" /\ q.attemptId = row[d].attemptId + 1 /\ q.receipt = 0
    BY Parts, ClaimedRow
  <2>5. row' = [row EXCEPT ![d] = q]
    BY <1>2
  <2>6. op[d].waits = {}
    BY DEF Claim
  <2> HIDE DEF o, q
  <2>7. Sound(q, o, sends[d], lastSent[d], consents[d])
    BY <1>2, <2>1, <2>2, <2>4, <2>6, Parts, SoundClaim
  <2>8. Agree'
    BY <2>2, <2>3, <2>4, <2>5, <2>7, Parts, RowUpdate, OpUpdate, Frame DEF Claim, history
  <2>9. TypeOK'
    BY <2>2, <2>3, <2>4, <2>5, Parts, RowUpdate, OpUpdate DEF Claim, IInv, TypeOK, session, history
  <2>10. QED
    BY <1>2, <2>8, <2>9 DEF IInv, BootIdle, Claim
<1>3. QED
  BY <1>1, <1>2 DEF Claim

\* The operation fails before it called the provider.
LEMMA FailStep ==
  ASSUME IInv, NEW d \in Delivery, NEW exit \in {"retryable", "final", "unknown"},
         op[d].pc \in Unsent, Fails(d, exit),
         UNCHANGED <<durable, phase, stoppedSequences, controls, session, history>>
  PROVE  IInv'
<1> DEFINE o == op'[d]
<1>1. exit \in Exit
  BY DEF Exit
<1>2. /\ o \in Operation /\ op' = [op EXCEPT ![d] = o]
      /\ o.pc = "settling" /\ o.exit = exit /\ o.waits = {} /\ o.attemptId = op[d].attemptId
  BY <1>1, Parts, FailsType
<1>3. op[d].pc \in Owning /\ lastSent[d] # op[d].attemptId /\ phase # "booting"
  BY Parts DEF IInv, BootIdle, Sound, Owning, Unsent
<1> HIDE DEF o
<1>4. Sound(row[d], o, sends[d], lastSent[d], consents[d])
  BY <1>2, <1>3, Parts, SoundFail
<1>5. QED
  BY <1>2, <1>3, <1>4, OpStep

\* The operation advances to a point where it still has not called the provider.
LEMMA AdvanceStep ==
  ASSUME IInv, NEW d \in Delivery, NEW o \in Operation, op' = [op EXCEPT ![d] = o],
         op[d].pc \in Unsent, o.pc \in Owning, o.attemptId = op[d].attemptId,
         o.waits # {} => o.pc = "fencing",
         UNCHANGED <<durable, phase, stoppedSequences, controls, session, history>>
  PROVE  IInv'
<1>1. phase # "booting"
  BY DEF IInv, BootIdle, Unsent, Owning
<1>2. Sound(row[d], o, sends[d], lastSent[d], consents[d])
  BY Parts, SoundAdvance
<1>3. QED
  BY <1>1, <1>2, OpStep

\* Only the program counter moves, past the fence.
LEMMA PcStep ==
  ASSUME IInv, NEW d \in Delivery, NEW pc \in Owning, op' = [op EXCEPT ![d].pc = pc],
         op[d].pc \in Unsent, op[d].pc # "fencing" \/ op[d].waits = {},
         UNCHANGED <<durable, phase, stoppedSequences, controls, session, history>>
  PROVE  IInv'
<1> DEFINE o == [op[d] EXCEPT !.pc = pc]
<1>1. pc \in PC
  BY DEF Owning, PC
<1>2. o \in Operation /\ o.pc = pc /\ o.attemptId = op[d].attemptId /\ o.waits = op[d].waits
  BY <1>1, Parts DEF Operation
<1>3. op' = [op EXCEPT ![d] = o]
  BY Parts
<1>4. op[d].waits = {}
  BY Parts DEF Sound, Unsent, Owning
<1> HIDE DEF o
<1>5. QED
  BY <1>2, <1>3, <1>4, AdvanceStep

LEMMA TakeSlotStep ==
  ASSUME IInv, NEW d \in Delivery, TakeSlot(d) PROVE IInv'
<1>1. op[d].pc = "claimed" /\ op[d].pc \in Unsent
      /\ UNCHANGED <<durable, phase, stoppedSequences, controls, session, history>>
  BY DEF TakeSlot, Unsent, Owning
<1>2. CASE Fails(d, "retryable")
  BY <1>1, <1>2, FailStep
<1>3. CASE op' = [op EXCEPT ![d].pc = "preparing"]
  BY <1>1, <1>3, PcStep DEF Owning
<1>4. QED
  BY <1>2, <1>3 DEF TakeSlot

LEMMA PreparationFailsStep ==
  ASSUME IInv, NEW d \in Delivery, NEW exit \in Exit, PreparationFails(d, exit) PROVE IInv'
<1>1. op[d].pc \in Unsent
  BY DEF PreparationFails, Unsent, Owning
<1>2. QED
  BY <1>1, FailStep DEF PreparationFails

LEMMA PreparedStep ==
  ASSUME IInv, NEW d \in Delivery, Prepared(d) PROVE IInv'
<1> DEFINE g == generation[ThreadOf[d]]
           w == OutstandingControls(ThreadOf[d])
           o == [op[d] EXCEPT !.pc = "fencing", !.generation = g, !.waits = w]
<1>1. g \in Nat /\ w \in SUBSET Nat /\ ThreadOf[d] \in Thread
  BY DeliveryAssumption DEF IInv, TypeOK, OutstandingControls
<1>2. op' = [op EXCEPT ![d] = o]
  BY Parts DEF Prepared
<1>3. op[d].pc = "preparing" /\ op[d].pc \in Unsent
  BY DEF Prepared, Unsent, Owning
<1> HIDE DEF g, w
<1>4. o \in Operation /\ o.pc = "fencing" /\ o.attemptId = op[d].attemptId
  BY <1>1, Parts DEF Operation, PC
<1> HIDE DEF o
<1>5. Sound(row[d], o, sends[d], lastSent[d], consents[d])
  BY <1>3, <1>4, Parts, SoundAdvance DEF Owning
<1>6. Agree'
  <2>1. op'[d] = o /\ \A e \in Delivery \ {d} : op'[e] = op[e]
    BY <1>2, <1>4, Parts, OpUpdate
  <2>2. UNCHANGED <<row, sends, lastSent, consents>>
    BY DEF Prepared, durable, history
  <2>3. QED
    BY <1>5, <2>1, <2>2, Frame
<1>7. sessionStopped' \in [Thread -> BOOLEAN]
  BY <1>1 DEF Prepared, IInv, TypeOK
<1>8. TypeOK'
  BY <1>2, <1>4, <1>7, Parts, OpUpdate DEF Prepared, IInv, TypeOK, durable, history
<1>9. phase # "booting"
  BY <1>3 DEF IInv, BootIdle
<1>10. QED
  BY <1>6, <1>8, <1>9 DEF IInv, BootIdle, Prepared

LEMMA FenceStep ==
  ASSUME IInv, NEW d \in Delivery, Fence(d) PROVE IInv'
<1>1. op[d].pc \in Unsent /\ op[d].waits = {}
      /\ UNCHANGED <<durable, phase, stoppedSequences, controls, session, history>>
  BY DEF Fence, Unsent, Owning
<1>2. CASE Fails(d, "retryable") \/ Fails(d, "final")
  BY <1>1, <1>2, FailStep
<1>3. CASE op' = [op EXCEPT ![d].pc = "intent"]
  BY <1>1, <1>3, PcStep DEF Owning
<1>4. QED
  BY <1>2, <1>3 DEF Fence

LEMMA HandoffStep ==
  ASSUME IInv, NEW d \in Delivery, Handoff(d) PROVE IInv'
<1>1. op[d].pc = "intent" /\ op[d].pc \in Unsent
      /\ UNCHANGED <<durable, phase, stoppedSequences, controls, session, history>>
  BY DEF Handoff, Unsent, Owning
<1>2. CASE Fails(d, "retryable") \/ Fails(d, "final")
  BY <1>1, <1>2, FailStep
<1>3. CASE op' = [op EXCEPT ![d].pc = "ready"]
  BY <1>1, <1>3, PcStep DEF Owning
<1>4. QED
  BY <1>2, <1>3 DEF Handoff

LEMMA SendStep ==
  ASSUME IInv, NEW d \in Delivery, NEW reached \in BOOLEAN, Send(d, reached) PROVE IInv'
<1>1. op[d].pc = "ready" /\ op[d].pc \in Unsent /\ op' = [op EXCEPT ![d].pc = "calling"]
  BY DEF Send, Unsent, Owning
<1>2. CASE ~reached
  <2>1. UNCHANGED <<durable, phase, stoppedSequences, controls, session, history>>
    BY <1>2 DEF Send, session, history
  <2>2. QED
    BY <1>1, <2>1, PcStep DEF Owning
<1>3. CASE reached
  <2> DEFINE o == [op[d] EXCEPT !.pc = "calling"]
  <2>1. o \in Operation /\ o.pc = "calling" /\ o.attemptId = op[d].attemptId /\ o.waits = op[d].waits
    BY Parts DEF Operation, PC
  <2>2. op' = [op EXCEPT ![d] = o]
    BY <1>1, Parts
  <2> HIDE DEF o
  <2>3. Sound(row[d], o, sends[d] + 1, op[d].attemptId, consents[d])
    BY <1>1, <2>1, Parts, SoundSend
  <2>4. op[d].attemptId \in Nat
    BY Parts DEF Operation
  <2>5. /\ sends' \in [Delivery -> Nat] /\ lastSent' \in [Delivery -> Nat]
        /\ sends'[d] = sends[d] + 1 /\ lastSent'[d] = op[d].attemptId
        /\ \A e \in Delivery \ {d} : sends'[e] = sends[e] /\ lastSent'[e] = lastSent[e]
    BY <1>3, <2>4 DEF Send, IInv, TypeOK
  <2>6. turn' \in [Delivery -> Turn]
    BY <1>3 DEF Send, IInv, TypeOK, Turn
  <2>7. Agree'
    BY <2>1, <2>2, <2>3, <2>5, Parts, OpUpdate, Frame DEF Send, durable
  <2>8. TypeOK'
    BY <2>1, <2>2, <2>5, <2>6, Parts, OpUpdate DEF Send, IInv, TypeOK, durable
  <2>9. QED
    BY <1>1, <2>7, <2>8 DEF IInv, BootIdle, Send
<1>4. QED
  BY <1>2, <1>3

LEMMA ProviderAcceptsStep ==
  ASSUME IInv, NEW d \in Delivery, NEW exit \in Exit, ProviderAccepts(d, exit) PROVE IInv'
<1> DEFINE q == MarkAccepted(row[d], op[d].attemptId, turn[d] = "done")
           o == op'[d]
<1>1. /\ op[d].pc = "calling" /\ lastSent[d] = op[d].attemptId
      /\ row[d].attemptId = op[d].attemptId /\ row[d].state = "sending"
  BY Parts DEF ProviderAccepts, Sound, Owning
<1>2. row' = [row EXCEPT ![d] = q]
  BY <1>1 DEF ProviderAccepts
<1>3. q \in Row /\ q.state = "accepted" /\ q.attemptId = row[d].attemptId
  BY Parts, AcceptedRow DEF Operation
<1>4. o \in Operation /\ op' = [op EXCEPT ![d] = o] /\ o.pc = "settling" /\ o.waits = {}
  BY Parts, FailsType DEF ProviderAccepts
<1> HIDE DEF q, o
<1>5. Sound(q, o, sends[d], lastSent[d], consents[d])
  BY <1>1, <1>3, <1>4, Parts, SoundAccept
<1>6. Agree'
  BY <1>2, <1>3, <1>4, <1>5, Parts, RowUpdate, OpUpdate, Frame DEF ProviderAccepts, history
<1>7. TypeOK'
  BY <1>2, <1>3, <1>4, Parts, RowUpdate, OpUpdate
  DEF ProviderAccepts, IInv, TypeOK, session, history
<1>8. phase # "booting"
  BY <1>1 DEF IInv, BootIdle
<1>9. QED
  BY <1>6, <1>7, <1>8 DEF IInv, BootIdle, ProviderAccepts

LEMMA ProviderFailsStep ==
  ASSUME IInv, NEW d \in Delivery, NEW exit \in Exit, ProviderFails(d, exit) PROVE IInv'
<1> DEFINE o == op'[d]
<1>1. op[d].pc = "calling" /\ op[d].pc \in Owning /\ phase # "booting"
      /\ (exit = "unknown" \/ (exit \in {"retryable", "final"} /\ lastSent[d] # op[d].attemptId))
  BY DEF ProviderFails, IInv, BootIdle, Owning
<1>2. /\ o \in Operation /\ op' = [op EXCEPT ![d] = o] /\ o.pc = "settling" /\ o.waits = {}
      /\ o.exit = exit /\ o.attemptId = op[d].attemptId
  BY Parts, FailsType DEF ProviderFails
<1> HIDE DEF o
<1>3. Sound(row[d], o, sends[d], lastSent[d], consents[d])
  BY <1>1, <1>2, Parts, SoundFail
<1>4. QED
  BY <1>1, <1>2, <1>3, OpStep DEF ProviderFails

LEMMA SettleStep ==
  ASSUME IInv, NEW d \in Delivery, Settle(d) PROVE IInv'
<1>1. op[d].pc = "settling" /\ op' = [op EXCEPT ![d] = Idle]
  BY DEF Settle
<1>2. CASE row' = row
  <2>1. UNCHANGED <<durable, phase, stoppedSequences, controls, session, history>>
    BY <1>2 DEF Settle, durable
  <2>2. QED
    BY <1>1, <2>1, Parts, IdleType, SoundIdle, OpStep
<1>3. CASE row[d].attemptId = op[d].attemptId /\ row[d].state = "sending"
  <2>1. PICK q : /\ row' = [row EXCEPT ![d] = q]
                 /\ \/ q = Requeued(row[d]) /\ op[d].exit = "retryable"
                    \/ q = MarkRejected(row[d], op[d].exit = "unknown")
    BY <1>3 DEF Settle
  <2>2. /\ q \in Row /\ q.attemptId = row[d].attemptId /\ q.receipt = row[d].receipt
        /\ IF op[d].exit = "unknown" THEN q.state = "ambiguous" ELSE q.state \in {"pending", "rejected"}
    <3>1. CASE q = Requeued(row[d]) /\ op[d].exit = "retryable"
      BY <3>1, Parts, RequeuedRow
    <3>2. CASE q = MarkRejected(row[d], TRUE) /\ op[d].exit = "unknown"
      BY <3>2, Parts, RejectedRow
    <3>3. CASE q = MarkRejected(row[d], FALSE) /\ op[d].exit # "unknown"
      BY <3>3, Parts, RejectedRow
    <3>4. QED
      BY <2>1, <3>1, <3>2, <3>3
  <2>3. Sound(q, Idle, sends[d], lastSent[d], consents[d])
    BY <1>1, <1>3, <2>2, Parts, IdleType, SoundSettle
  <2>4. Agree'
    BY <1>1, <2>1, <2>2, <2>3, Parts, IdleType, RowUpdate, OpUpdate, Frame DEF Settle, history
  <2>5. TypeOK'
    BY <1>1, <2>1, <2>2, Parts, IdleType, RowUpdate, OpUpdate
    DEF Settle, IInv, TypeOK, session, history
  <2>6. phase' # "booting"
    BY <1>1 DEF Settle, IInv, BootIdle
  <2>7. QED
    BY <2>4, <2>5, <2>6 DEF IInv, BootIdle
<1>4. QED
  BY <1>2, <1>3 DEF Settle

LEMMA OperationDiesStep ==
  ASSUME IInv, NEW d \in Delivery, OperationDies(d) PROVE IInv'
<1>1. op' = [op EXCEPT ![d] = Idle]
  BY DEF OperationDies
<1>2. Sound(row[d], Idle, sends[d], lastSent[d], consents[d])
  BY Parts, IdleType, SoundIdle
<1>3. Agree'
  BY <1>1, <1>2, Parts, IdleType, OpUpdate, Frame DEF OperationDies, DatabaseFails, durable
<1>4. TypeOK'
  BY <1>1, Parts, IdleType, OpUpdate
  DEF OperationDies, DatabaseFails, IInv, TypeOK, durable, session
<1>5. BootIdle'
  BY <1>1, Parts, IdleType, OpUpdate DEF OperationDies, IInv, BootIdle
<1>6. QED
  BY <1>3, <1>4, <1>5 DEF IInv

LEMMA ProjectOutcomeStep ==
  ASSUME IInv, NEW d \in Delivery, ProjectOutcome(d) PROVE IInv'
<1> DEFINE q == [row[d] EXCEPT !.projected = TRUE]
<1>1. q \in Row /\ q.state = row[d].state /\ q.attemptId = row[d].attemptId
      /\ q.receipt = row[d].receipt
  BY Parts DEF Row
<1>2. row' = [row EXCEPT ![d] = q]
  BY DEF ProjectOutcome
<1> HIDE DEF q
<1>3. QED
  BY <1>1, <1>2, Parts, SameColumns, RowStep DEF ProjectOutcome

LEMMA RetryStep ==
  ASSUME IInv, NEW d \in Delivery, NEW allow \in BOOLEAN, Retry(d, allow) PROVE IInv'
<1> DEFINE q == [row[d] EXCEPT !.state = "pending", !.attempt = 0, !.due = TRUE, !.projected = FALSE]
           k == consents[d] + (IF row[d].state = "ambiguous" THEN 1 ELSE 0)
<1>1. /\ q \in Row /\ q.state = "pending" /\ q.attemptId = row[d].attemptId
      /\ q.receipt = row[d].receipt
  BY Parts DEF Row, States
<1>2. row' = [row EXCEPT ![d] = q] /\ row[d].state \in {"rejected", "ambiguous"}
  BY Parts DEF Retry
<1>3. k \in Nat /\ k = IF row[d].state = "ambiguous" THEN consents[d] + 1 ELSE consents[d]
  BY Parts
<1>4. consents' = [consents EXCEPT ![d] = k]
  BY DEF Retry
<1> HIDE DEF q, k
<1>5. Sound(q, op[d], sends[d], lastSent[d], k)
  BY <1>1, <1>2, <1>3, Parts, SoundMove
<1>6. consents' \in [Delivery -> Nat] /\ consents'[d] = k
      /\ \A e \in Delivery \ {d} : consents'[e] = consents[e]
  BY <1>3, <1>4 DEF IInv, TypeOK
<1>7. Agree'
  <2>1. row'[d] = q /\ \A e \in Delivery \ {d} : row'[e] = row[e]
    BY <1>1, <1>2, Parts, RowUpdate
  <2>2. UNCHANGED <<op, sends, lastSent>>
    BY DEF Retry, process
  <2>3. QED
    BY <1>5, <1>6, <2>1, <2>2, Frame
<1>8. retries' \in [Delivery -> Nat] /\ stoppedWork' \subseteq Delivery
  BY DEF Retry, IInv, TypeOK
<1>9. TypeOK'
  BY <1>1, <1>2, <1>6, <1>8, Parts, RowUpdate DEF Retry, IInv, TypeOK, process, session
<1>10. QED
  BY <1>7, <1>9 DEF IInv, BootIdle, Retry, process

LEMMA DiscardStep ==
  ASSUME IInv, NEW d \in Delivery, Discard(d) PROVE IInv'
<1> DEFINE q == [row[d] EXCEPT !.state = "abandoned", !.projected = TRUE]
<1>1. /\ q \in Row /\ q.state = "abandoned" /\ q.attemptId = row[d].attemptId
      /\ q.receipt = row[d].receipt
  BY Parts DEF Row, States
<1>2. row' = [row EXCEPT ![d] = q] /\ row[d].state \in {"rejected", "ambiguous"}
  BY Parts DEF Discard
<1> HIDE DEF q
<1>3. Sound(q, op[d], sends[d], lastSent[d], consents[d])
  BY <1>1, <1>2, Parts, SoundMove
<1>4. QED
  BY <1>1, <1>2, <1>3, Parts, RowStep DEF Discard

\* Outside an accepted row nothing is proven.
LEMMA NotProven ==
  ASSUME IInv, NEW d \in Delivery, Proven(d) PROVE row[d].state = "accepted"
  BY Parts DEF Proven, Sound

LEMMA RecheckStep ==
  ASSUME IInv, NEW d \in Delivery, Recheck(d) PROVE IInv'
<1>1. row' = [row EXCEPT ![d] = row[d]]
  BY NotProven, Parts DEF Recheck
<1>2. QED
  BY <1>1, Parts, RowStep DEF Recheck

LEMMA ReconcileSendingStep ==
  ASSUME IInv, NEW d \in Delivery, ReconcileSending(d) PROVE IInv'
<1> DEFINE q == MarkRejected(row[d], TRUE)
<1>1. row' = [row EXCEPT ![d] = q] /\ row[d].state = "sending" /\ op[d].pc = "idle"
  BY NotProven DEF ReconcileSending, IInv, BootIdle
<1>2. q \in Row /\ q.state = "ambiguous" /\ q.attemptId = row[d].attemptId /\ q.receipt = row[d].receipt
  BY Parts, RejectedRow
<1> HIDE DEF q
<1>3. Sound(q, op[d], sends[d], lastSent[d], consents[d])
  BY <1>1, <1>2, Parts, SoundLose
<1>4. QED
  BY <1>1, <1>2, <1>3, Parts, RowStep DEF ReconcileSending

LEMMA BeginShutdownStep ==
  ASSUME IInv, BeginShutdown PROVE IInv'
  BY DEF IInv, TypeOK, Agree, BootIdle, BeginShutdown, durable, session, history

LEMMA RestartStep ==
  ASSUME IInv, Restart PROVE IInv'
<1>1. op' \in [Delivery -> Operation] /\ \A d \in Delivery : op'[d] = Idle
  BY IdleType DEF Restart
<1>2. turn' \in [Delivery -> Turn]
  BY DEF Restart, IInv, TypeOK, Turn
<1>3. TypeOK'
  BY <1>1, <1>2 DEF Restart, IInv, TypeOK, durable
<1>4. Agree'
  BY <1>1, Parts, IdleType, SoundIdle DEF Agree, Restart, durable
<1>5. QED
  BY <1>1, <1>3, <1>4, IdleType DEF IInv, BootIdle

LEMMA StartWorkerStep ==
  ASSUME IInv, StartWorker PROVE IInv'
<1>1. /\ UNCHANGED <<stops, restarts, retries, sends, lastSent, consents, halted, stoppedWork>>
      /\ faults' \in Nat
  BY DEF StartWorker, DatabaseFails, history, IInv, TypeOK
<1>2. QED
  BY <1>1 DEF IInv, TypeOK, Agree, BootIdle, StartWorker, durable, session

-----------------------------------------------------------------------------

LEMMA InitInv == Init => IInv
<1> SUFFICES ASSUME Init PROVE IInv
  OBVIOUS
<1>1. \A d \in Delivery : /\ row[d] \in Row /\ row[d].state = "none"
                          /\ row[d].attemptId = 0 /\ row[d].receipt = 0 /\ op[d] = Idle
  BY DEF Init, Row, States
<1>2. row \in [Delivery -> Row] /\ op \in [Delivery -> Operation]
  BY <1>1, IdleType DEF Init
<1>3. TypeOK
  BY <1>2 DEF Init, TypeOK, Turn
<1>4. \A d \in Delivery : sends[d] = 0 /\ lastSent[d] = 0 /\ consents[d] = 0
  BY DEF Init
<1>5. Agree
  BY <1>1, <1>4, IdleType DEF Agree, Sound, Owning, Unsent
<1>6. QED
  BY <1>1, <1>3, <1>5, IdleType DEF IInv, BootIdle

LEMMA StutterInv == IInv /\ UNCHANGED vars => IInv'
  BY DEF IInv, TypeOK, Agree, BootIdle, vars, durable, process, session, history

LEMMA OperateStep ==
  ASSUME IInv, NEW d \in Delivery, Operate(d) PROVE IInv'
  BY ClaimStep, TakeSlotStep, PreparedStep, FenceStep, HandoffStep, SettleStep, SendStep,
     PreparationFailsStep, ProviderAcceptsStep, ProviderFailsStep
  DEF Operate

LEMMA NextInv == IInv /\ [Next]_vars => IInv'
<1> SUFFICES ASSUME IInv, Next PROVE IInv'
  BY StutterInv
<1>1. CASE \E d \in Delivery :
             \/ RequestTurn(d) \/ TurnStarts(d) \/ TurnCompletes(d) \/ BackoffElapses(d)
             \/ Wake(d) \/ Sweep(d) \/ Operate(d) \/ OperationDies(d)
             \/ ProjectOutcome(d) \/ ReconcileSending(d) \/ Discard(d) \/ Recheck(d)
             \/ \E allow \in BOOLEAN : Retry(d, allow)
  BY <1>1, RequestTurnStep, TurnStartsStep, TurnCompletesStep, BackoffStep, BeginStep, OperateStep,
     OperationDiesStep, ProjectOutcomeStep, ReconcileSendingStep, DiscardStep, RecheckStep, RetryStep
  DEF Wake, Sweep
<1>2. CASE \/ \E t \in Thread : StopCommits(t)
           \/ \E c \in controls : StopProcessed(c[1], c[2]) \/ StopExpires(c[1], c[2])
           \/ BeginShutdown \/ Restart \/ StartWorker
  BY <1>2, StopCommitsStep, StopProcessedStep, StopExpiresStep, BeginShutdownStep, RestartStep,
     StartWorkerStep
<1>3. QED
  BY <1>1, <1>2 DEF Next

\* The outbox, its operations and its history agree in every reachable state.
THEOREM Invariance == Spec => []IInv
  BY InitInv, NextInv, PTL DEF Spec

\* The types of the outbox, of the worker's operations and of the engine's fence.
THEOREM TypeCorrect == Spec => []TypeOK
<1>1. IInv => TypeOK
  BY DEF IInv
<1>2. QED
  BY <1>1, Invariance, PTL

\* No prompt reaches the provider more often than once plus the user's consents.
THEOREM NoUnwantedResend == Spec => []AtMostOnce
<1>1. IInv => AtMostOnce
  BY Parts DEF AtMostOnce, Sound
<1>2. QED
  BY <1>1, Invariance, PTL

\* A prompt reported as pending or rejected has not been sent without consent to repeat.
THEOREM UnsentIsUnsent == Spec => []UnsentMeansUnsent
<1>1. IInv => UnsentMeansUnsent
  BY Parts DEF UnsentMeansUnsent, Sound
<1>2. QED
  BY <1>1, Invariance, PTL

\* Acceptance is never recorded for an attempt that did not reach the provider.
THEOREM AcceptedIsSent == Spec => []AcceptedWasSent
<1>1. IInv => AcceptedWasSent
  BY Parts DEF AcceptedWasSent, Sound
<1>2. QED
  BY <1>1, Invariance, PTL

\* A receipt of the current attempt exists in accepted rows only.
THEOREM ReceiptMeansAccepted == Spec => []ProofOnlyInAccepted
<1>1. IInv => ProofOnlyInAccepted
  BY NotProven DEF ProofOnlyInAccepted
<1>2. QED
  BY <1>1, Invariance, PTL

-----------------------------------------------------------------------------
(* The refinement: what each step means for the contract. *)

Shown == [d \in Delivery |-> StatusOf(row[d])]
There == [d \in Delivery |-> ReachedBy(row[d], lastSent[d])]

LEMMA StatusOfState ==
  ASSUME NEW r
  PROVE  /\ r.state = "none" => StatusOf(r) = "absent"
         /\ r.state \in {"pending", "sending"} => StatusOf(r) = "open"
         /\ r.state = "accepted" => StatusOf(r) = "done"
         /\ r.state = "ambiguous" => StatusOf(r) = "uncertain"
         /\ r.state = "rejected" => StatusOf(r) = "refused"
         /\ r.state = "abandoned" => StatusOf(r) = "dropped"
  BY DEF StatusOf

LEMMA Quiet ==
  ASSUME UNCHANGED <<sends, consents>>,
         \A d \in Delivery : /\ StatusOf(row'[d]) = StatusOf(row[d])
                             /\ ReachedBy(row'[d], lastSent'[d]) = ReachedBy(row[d], lastSent[d])
  PROVE  UNCHANGED Contract!vars
  BY DEF Contract!vars

LEMMA MapUpdate ==
  ASSUME NEW d \in Delivery,
         \A e \in Delivery \ {d} : row'[e] = row[e] /\ lastSent'[e] = lastSent[e]
  PROVE  /\ Shown' = [Shown EXCEPT ![d] = StatusOf(row'[d])]
         /\ There' = [There EXCEPT ![d] = ReachedBy(row'[d], lastSent'[d])]
  BY DEF Shown, There

LEMMA RequestTurnMaps ==
  ASSUME IInv, NEW d \in Delivery, RequestTurn(d) PROVE Contract!Next
<1>1. row[d].state = "none" /\ row'[d].state = "pending"
      /\ (\A e \in Delivery \ {d} : row'[e] = row[e]) /\ UNCHANGED <<lastSent, sends, consents>>
  BY Parts DEF RequestTurn, history, Row
<1>2. /\ Shown' = [Shown EXCEPT ![d] = "open"] /\ Shown[d] = "absent"
      /\ There' = There
  BY <1>1, MapUpdate, StatusOfState DEF Shown, There, ReachedBy
<1>3. Contract!Submit(d)
  BY <1>1, <1>2 DEF Contract!Submit, Shown, There
<1>4. QED
  BY <1>3 DEF Contract!Next

\* One row moves, and nothing else the contract sees.
LEMMA OneRowMaps ==
  ASSUME IInv, NEW d \in Delivery, NEW r \in Row, row' = [row EXCEPT ![d] = r],
         UNCHANGED <<lastSent, sends>>
  PROVE  /\ row'[d] = r
         /\ Shown' = [Shown EXCEPT ![d] = StatusOf(r)]
         /\ There' = [There EXCEPT ![d] = ReachedBy(r, lastSent[d])]
         /\ Shown[d] = StatusOf(row[d]) /\ There[d] = ReachedBy(row[d], lastSent[d])
<1>1. row'[d] = r /\ \A e \in Delivery \ {d} : row'[e] = row[e] /\ lastSent'[e] = lastSent[e]
  BY Parts, RowUpdate
<1>2. /\ Shown' = [Shown EXCEPT ![d] = StatusOf(row'[d])]
      /\ There' = [There EXCEPT ![d] = ReachedBy(row'[d], lastSent'[d])]
  BY <1>1, MapUpdate
<1>3. QED
  BY <1>1, <1>2 DEF Shown, There

LEMMA SameRowMaps ==
  ASSUME IInv, NEW d \in Delivery, NEW r \in Row, row' = [row EXCEPT ![d] = r],
         r.state = row[d].state, r.attemptId = row[d].attemptId,
         UNCHANGED <<lastSent, sends, consents>>
  PROVE  UNCHANGED Contract!vars
<1>1. row'[d] = r /\ \A e \in Delivery \ {d} : row'[e] = row[e]
  BY Parts, RowUpdate
<1>2. StatusOf(r) = StatusOf(row[d]) /\ ReachedBy(r, lastSent[d]) = ReachedBy(row[d], lastSent[d])
  BY DEF StatusOf, ReachedBy
<1>3. QED
  BY <1>1, <1>2, Quiet

LEMMA StopCommitsMaps ==
  ASSUME IInv, NEW t \in Thread, StopCommits(t) PROVE Contract!Next
<1> DEFINE D == {d \in Delivery : ThreadOf[d] = t /\ row[d].state = "pending"}
<1>1. \A d \in Delivery : IF d \in D THEN row[d].state = "pending" /\ row'[d].state = "rejected"
                                     ELSE row'[d] = row[d]
  BY Parts DEF StopCommits, Row
<1>2. UNCHANGED <<lastSent, sends, consents>>
  BY DEF StopCommits
<1> HIDE DEF D
<1>3. \A d \in Delivery : StatusOf(row'[d]) = IF d \in D THEN "refused" ELSE StatusOf(row[d])
  BY <1>1, StatusOfState
<1>4. \A d \in Delivery : /\ ReachedBy(row'[d], lastSent'[d]) = ReachedBy(row[d], lastSent[d])
                          /\ d \in D => StatusOf(row[d]) = "open" /\ ~ReachedBy(row[d], lastSent[d])
  BY <1>1, <1>2, StatusOfState DEF ReachedBy
<1>5. Contract!Refuse(D)
  <2>1. D \subseteq Delivery
    BY DEF D
  <2>2. QED
    BY <1>2, <1>3, <1>4, <2>1 DEF Contract!Refuse
<1>6. QED
  BY <1>5 DEF Contract!Next, D

LEMMA StopProcessedMaps ==
  ASSUME IInv, NEW c \in controls, StopProcessed(c[1], c[2]) PROVE UNCHANGED Contract!vars
<1>1. \A d \in Delivery : row'[d].state = row[d].state /\ row'[d].attemptId = row[d].attemptId
  BY Parts DEF StopProcessed, Row
<1>2. \A d \in Delivery : /\ StatusOf(row'[d]) = StatusOf(row[d])
                          /\ ReachedBy(row'[d], lastSent[d]) = ReachedBy(row[d], lastSent[d])
  BY <1>1 DEF StatusOf, ReachedBy
<1>3. QED
  BY <1>2, Quiet DEF StopProcessed

LEMMA TurnCompletesMaps ==
  ASSUME IInv, NEW d \in Delivery, TurnCompletes(d) PROVE UNCHANGED Contract!vars
<1> DEFINE b == row[d].released \/ row[d].state = "accepted"
           q == [row[d] EXCEPT !.released = b]
<1>1. b \in BOOLEAN
  OBVIOUS
<1>2. row' = [row EXCEPT ![d] = q]
  BY Parts DEF TurnCompletes
<1> HIDE DEF b
<1>3. q \in Row /\ q.state = row[d].state /\ q.attemptId = row[d].attemptId
  BY <1>1, Parts DEF Row
<1> HIDE DEF q
<1>4. QED
  BY <1>2, <1>3, SameRowMaps DEF TurnCompletes, history

LEMMA BackoffMaps ==
  ASSUME IInv, NEW d \in Delivery, BackoffElapses(d) PROVE UNCHANGED Contract!vars
<1> DEFINE q == [row[d] EXCEPT !.due = TRUE]
<1>1. q \in Row /\ q.state = row[d].state /\ q.attemptId = row[d].attemptId
  BY Parts DEF Row
<1>2. row' = [row EXCEPT ![d] = q]
  BY DEF BackoffElapses
<1> HIDE DEF q
<1>3. QED
  BY <1>1, <1>2, SameRowMaps DEF BackoffElapses, history

LEMMA ProjectOutcomeMaps ==
  ASSUME IInv, NEW d \in Delivery, ProjectOutcome(d) PROVE UNCHANGED Contract!vars
<1> DEFINE q == [row[d] EXCEPT !.projected = TRUE]
<1>1. q \in Row /\ q.state = row[d].state /\ q.attemptId = row[d].attemptId
  BY Parts DEF Row
<1>2. row' = [row EXCEPT ![d] = q]
  BY DEF ProjectOutcome
<1> HIDE DEF q
<1>3. QED
  BY <1>1, <1>2, SameRowMaps DEF ProjectOutcome, history

LEMMA RecheckMaps ==
  ASSUME IInv, NEW d \in Delivery, Recheck(d) PROVE UNCHANGED Contract!vars
<1>1. row' = [row EXCEPT ![d] = row[d]]
  BY NotProven, Parts DEF Recheck
<1>2. QED
  BY <1>1, Parts, SameRowMaps DEF Recheck, history

\* Steps that touch no row and send nothing.
LEMMA SilentMaps ==
  ASSUME UNCHANGED <<row, lastSent, sends, consents>> PROVE UNCHANGED Contract!vars
  BY Quiet

\* A claim opens a new attempt, which is not at the provider.
LEMMA ClaimMaps ==
  ASSUME IInv, NEW d \in Delivery, Claim(d) PROVE UNCHANGED Contract!vars
<1>1. UNCHANGED <<lastSent, sends, consents>>
  BY DEF Claim, history
<1>2. CASE row' = row
  BY <1>1, <1>2, SilentMaps
<1>3. CASE row[d].state = "pending" /\ row' = [row EXCEPT ![d] = Claimed(row[d])]
  <2> DEFINE q == Claimed(row[d])
  <2>1. q \in Row /\ q.state = "sending" /\ q.attemptId = row[d].attemptId + 1
    BY Parts, ClaimedRow
  <2>2. row'[d] = q /\ \A e \in Delivery \ {d} : row'[e] = row[e]
    BY <1>3, <2>1, Parts, RowUpdate
  <2> HIDE DEF q
  <2>3. lastSent[d] # q.attemptId
    BY <2>1, Parts DEF Sound, Row
  <2>4. StatusOf(q) = StatusOf(row[d])
    BY <1>3, <2>1, StatusOfState
  <2>5. ReachedBy(q, lastSent[d]) = FALSE /\ ReachedBy(row[d], lastSent[d]) = FALSE
    BY <1>3, <2>3 DEF ReachedBy
  <2>6. QED
    BY <1>1, <2>2, <2>4, <2>5, Quiet
<1>4. QED
  BY <1>2, <1>3 DEF Claim

LEMMA SendMaps ==
  ASSUME IInv, NEW d \in Delivery, NEW reached \in BOOLEAN, Send(d, reached)
  PROVE  Contract!Next \/ UNCHANGED Contract!vars
<1>1. CASE ~reached
  BY <1>1, SilentMaps DEF Send, durable
<1>2. CASE reached
  <2>1. row[d].state = "sending" /\ row[d].attemptId = op[d].attemptId /\ lastSent[d] # row[d].attemptId
    BY Parts DEF Send, Sound, Owning, Unsent
  <2>2. /\ sends' = [sends EXCEPT ![d] = @ + 1] /\ UNCHANGED <<row, consents>>
        /\ lastSent'[d] = row[d].attemptId /\ \A e \in Delivery \ {d} : lastSent'[e] = lastSent[e]
    BY <1>2, <2>1 DEF Send, durable, IInv, TypeOK
  <2>3. Shown' = Shown /\ There' = [There EXCEPT ![d] = ReachedBy(row[d], lastSent'[d])]
    BY <2>2, MapUpdate DEF Shown
  <2>4. Shown[d] = "open" /\ There[d] = FALSE /\ ReachedBy(row[d], lastSent'[d]) = TRUE
    BY <2>1, <2>2, StatusOfState DEF Shown, There, ReachedBy
  <2>5. Contract!Reach(d)
    BY <2>2, <2>3, <2>4 DEF Contract!Reach, Shown, There
  <2>6. QED
    BY <2>5 DEF Contract!Next
<1>3. QED
  BY <1>1, <1>2

LEMMA ProviderAcceptsMaps ==
  ASSUME IInv, NEW d \in Delivery, NEW exit \in Exit, ProviderAccepts(d, exit) PROVE Contract!Next
<1> DEFINE q == MarkAccepted(row[d], op[d].attemptId, turn[d] = "done")
<1>1. /\ row[d].attemptId = op[d].attemptId /\ row[d].state = "sending"
      /\ lastSent[d] = row[d].attemptId /\ UNCHANGED <<lastSent, sends, consents>>
  BY Parts DEF ProviderAccepts, Sound, Owning, history
<1>2. row' = [row EXCEPT ![d] = q]
  BY <1>1 DEF ProviderAccepts
<1>3. q \in Row /\ q.state = "accepted" /\ q.attemptId = row[d].attemptId
  BY Parts, AcceptedRow DEF Operation
<1> HIDE DEF q
<1>4. /\ Shown' = [Shown EXCEPT ![d] = StatusOf(q)]
      /\ There' = [There EXCEPT ![d] = ReachedBy(q, lastSent[d])]
      /\ Shown[d] = StatusOf(row[d]) /\ There[d] = ReachedBy(row[d], lastSent[d])
  BY <1>1, <1>2, <1>3, OneRowMaps
<1>5. StatusOf(q) = "done" /\ StatusOf(row[d]) = "open"
  BY <1>1, <1>3, StatusOfState
<1>6. ReachedBy(q, lastSent[d]) = TRUE /\ ReachedBy(row[d], lastSent[d]) = TRUE
  BY <1>1, <1>3 DEF ReachedBy
<1>7. There' = There
  BY <1>4, <1>6 DEF There
<1>8. Contract!Accept(d)
  BY <1>1, <1>4, <1>5, <1>6, <1>7 DEF Contract!Accept, Shown, There
<1>9. QED
  BY <1>8 DEF Contract!Next

\* An open row whose attempt is not known to have reached the provider becomes uncertain.
LEMMA LoseMaps ==
  ASSUME IInv, NEW d \in Delivery, NEW q \in Row, row' = [row EXCEPT ![d] = q],
         row[d].state = "sending", q.state = "ambiguous", q.attemptId = row[d].attemptId,
         UNCHANGED <<lastSent, sends, consents>>
  PROVE  Contract!Next
<1>1. /\ Shown' = [Shown EXCEPT ![d] = StatusOf(q)]
      /\ There' = [There EXCEPT ![d] = ReachedBy(q, lastSent[d])]
      /\ Shown[d] = StatusOf(row[d]) /\ There[d] = ReachedBy(row[d], lastSent[d])
  BY OneRowMaps
<1>2. StatusOf(q) = "uncertain" /\ StatusOf(row[d]) = "open"
  BY StatusOfState
<1>3. ReachedBy(q, lastSent[d]) = ReachedBy(row[d], lastSent[d])
  BY DEF ReachedBy
<1>4. There' = There
  BY <1>1, <1>3 DEF There
<1>5. Contract!Lose(d)
  BY <1>1, <1>2, <1>4 DEF Contract!Lose, Shown, There
<1>6. QED
  BY <1>5 DEF Contract!Next

LEMMA SettleMaps ==
  ASSUME IInv, NEW d \in Delivery, Settle(d) PROVE Contract!Next \/ UNCHANGED Contract!vars
<1>1. UNCHANGED <<lastSent, sends, consents>> /\ op[d].pc = "settling"
  BY DEF Settle, history
<1>2. CASE row' = row
  BY <1>1, <1>2, SilentMaps
<1>3. CASE row[d].attemptId = op[d].attemptId /\ row[d].state = "sending"
  <2>1. PICK q : /\ row' = [row EXCEPT ![d] = q]
                 /\ \/ q = Requeued(row[d]) /\ op[d].exit = "retryable"
                    \/ q = MarkRejected(row[d], op[d].exit = "unknown")
    BY <1>3 DEF Settle
  <2>2. CASE q = MarkRejected(row[d], TRUE) /\ op[d].exit = "unknown"
    <3>1. q \in Row /\ q.state = "ambiguous" /\ q.attemptId = row[d].attemptId
      BY <2>2, Parts, RejectedRow
    <3>2. QED
      BY <1>1, <1>3, <2>1, <3>1, LoseMaps
  <2>3. CASE op[d].exit # "unknown"
    <3>1. q \in Row /\ q.state \in {"pending", "rejected"}
      <4>1. CASE q = Requeued(row[d])
        BY <4>1, Parts, RequeuedRow
      <4>2. CASE q = MarkRejected(row[d], FALSE)
        BY <4>2, Parts, RejectedRow
      <4>3. QED
        BY <2>1, <2>3, <4>1, <4>2
    <3>2. lastSent[d] # row[d].attemptId
      BY <1>1, <1>3, <2>3, Parts DEF Sound
    <3>3. /\ Shown' = [Shown EXCEPT ![d] = StatusOf(q)]
          /\ There' = [There EXCEPT ![d] = ReachedBy(q, lastSent[d])]
          /\ Shown[d] = StatusOf(row[d]) /\ There[d] = ReachedBy(row[d], lastSent[d])
      BY <1>1, <2>1, <3>1, OneRowMaps
    <3>4. ReachedBy(q, lastSent[d]) = FALSE /\ ReachedBy(row[d], lastSent[d]) = FALSE
      BY <3>1, <3>2 DEF ReachedBy
    <3>5. There' = There
      BY <3>3, <3>4 DEF There
    <3>6. CASE q.state = "pending"
      <4>1. Shown' = Shown
        BY <1>3, <3>3, <3>6, StatusOfState DEF Shown
      <4>2. QED
        BY <1>1, <3>5, <4>1 DEF Contract!vars, Shown, There
    <3>7. CASE q.state = "rejected"
      <4>1. /\ Shown' = [e \in Delivery |-> IF e \in {d} THEN "refused" ELSE Shown[e]]
            /\ Shown[d] = "open"
        BY <1>3, <3>3, <3>7, StatusOfState DEF Shown
      <4>2. Contract!Refuse({d})
        BY <1>1, <3>3, <3>4, <3>5, <4>1 DEF Contract!Refuse, Shown, There
      <4>3. QED
        BY <4>2 DEF Contract!Next
    <3>8. QED
      BY <3>1, <3>6, <3>7
  <2>4. QED
    BY <2>1, <2>2, <2>3
<1>4. QED
  BY <1>2, <1>3 DEF Settle

LEMMA RetryMaps ==
  ASSUME IInv, NEW d \in Delivery, NEW allow \in BOOLEAN, Retry(d, allow) PROVE Contract!Next
<1> DEFINE q == [row[d] EXCEPT !.state = "pending", !.attempt = 0, !.due = TRUE, !.projected = FALSE]
<1>1. /\ row' = [row EXCEPT ![d] = q] /\ row[d].state \in {"rejected", "ambiguous"}
      /\ UNCHANGED <<lastSent, sends>>
  BY Parts DEF Retry
<1>2. q \in Row /\ q.state = "pending"
  BY Parts DEF Row, States
<1> HIDE DEF q
<1>3. /\ Shown' = [Shown EXCEPT ![d] = StatusOf(q)]
      /\ There' = [There EXCEPT ![d] = ReachedBy(q, lastSent[d])]
      /\ Shown[d] = StatusOf(row[d]) /\ There[d] = ReachedBy(row[d], lastSent[d])
  BY <1>1, <1>2, OneRowMaps
<1>4. StatusOf(q) = "open" /\ ReachedBy(q, lastSent[d]) = FALSE
  BY <1>2, StatusOfState DEF ReachedBy
<1>5. CASE row[d].state = "rejected"
  <2>1. StatusOf(row[d]) = "refused" /\ ReachedBy(row[d], lastSent[d]) = FALSE
    BY <1>5, StatusOfState DEF ReachedBy
  <2>2. There' = There
    BY <1>3, <1>4, <2>1 DEF There
  <2>3. consents' = consents
    BY <1>5 DEF Retry, IInv, TypeOK
  <2>4. Contract!RetryRefused(d)
    BY <1>1, <1>3, <1>4, <2>1, <2>2, <2>3 DEF Contract!RetryRefused, Shown, There
  <2>5. QED
    BY <2>4 DEF Contract!Next
<1>6. CASE row[d].state = "ambiguous"
  <2>1. StatusOf(row[d]) = "uncertain"
    BY <1>6, StatusOfState
  <2>2. consents' = [consents EXCEPT ![d] = @ + 1]
    BY <1>6 DEF Retry
  <2>3. Contract!RetryUncertain(d)
    BY <1>1, <1>3, <1>4, <2>1, <2>2 DEF Contract!RetryUncertain, Shown, There
  <2>4. QED
    BY <2>3 DEF Contract!Next
<1>7. QED
  BY <1>1, <1>5, <1>6

LEMMA DiscardMaps ==
  ASSUME IInv, NEW d \in Delivery, Discard(d) PROVE Contract!Next
<1> DEFINE q == [row[d] EXCEPT !.state = "abandoned", !.projected = TRUE]
<1>1. /\ row' = [row EXCEPT ![d] = q] /\ row[d].state \in {"rejected", "ambiguous"}
      /\ UNCHANGED <<lastSent, sends, consents>>
  BY Parts DEF Discard, history
<1>2. q \in Row /\ q.state = "abandoned"
  BY Parts DEF Row, States
<1> HIDE DEF q
<1>3. /\ Shown' = [Shown EXCEPT ![d] = StatusOf(q)]
      /\ There' = [There EXCEPT ![d] = ReachedBy(q, lastSent[d])]
      /\ Shown[d] = StatusOf(row[d])
  BY <1>1, <1>2, OneRowMaps
<1>4. StatusOf(q) = "dropped" /\ ReachedBy(q, lastSent[d]) = FALSE
      /\ StatusOf(row[d]) \in {"refused", "uncertain"}
  BY <1>1, <1>2, StatusOfState DEF ReachedBy
<1>5. Contract!Drop(d)
  BY <1>1, <1>3, <1>4 DEF Contract!Drop, Shown, There
<1>6. QED
  BY <1>5 DEF Contract!Next

LEMMA ReconcileSendingMaps ==
  ASSUME IInv, NEW d \in Delivery, ReconcileSending(d) PROVE Contract!Next
<1> DEFINE q == MarkRejected(row[d], TRUE)
<1>1. row' = [row EXCEPT ![d] = q] /\ row[d].state = "sending" /\ UNCHANGED <<lastSent, sends, consents>>
  BY NotProven DEF ReconcileSending, history
<1>2. q \in Row /\ q.state = "ambiguous" /\ q.attemptId = row[d].attemptId
  BY Parts, RejectedRow
<1> HIDE DEF q
<1>3. QED
  BY <1>1, <1>2, LoseMaps

LEMMA OperateMaps ==
  ASSUME IInv, NEW d \in Delivery, Operate(d) PROVE Contract!Next \/ UNCHANGED Contract!vars
<1>1. CASE \/ TakeSlot(d) \/ Prepared(d) \/ Fence(d) \/ Handoff(d)
           \/ \E exit \in Exit : PreparationFails(d, exit) \/ ProviderFails(d, exit)
  <2>1. UNCHANGED <<row, lastSent, sends, consents>>
    BY <1>1 DEF TakeSlot, Prepared, Fence, Handoff, PreparationFails, ProviderFails, durable, history
  <2>2. QED
    BY <2>1, SilentMaps
<1>2. CASE \/ Claim(d) \/ Settle(d) \/ \E reached \in BOOLEAN : Send(d, reached)
           \/ \E exit \in Exit : ProviderAccepts(d, exit)
  BY <1>2, ClaimMaps, SettleMaps, SendMaps, ProviderAcceptsMaps
<1>3. QED
  BY <1>1, <1>2 DEF Operate

LEMMA NextMaps == IInv /\ [Next]_vars => [Contract!Next]_(Contract!vars)
<1> SUFFICES ASSUME IInv, [Next]_vars PROVE Contract!Next \/ UNCHANGED Contract!vars
  OBVIOUS
<1>1. CASE UNCHANGED vars
  BY <1>1, SilentMaps DEF vars, durable, history
<1>2. CASE \E d \in Delivery : TurnStarts(d) \/ Wake(d) \/ Sweep(d) \/ OperationDies(d)
  <2>1. UNCHANGED <<row, lastSent, sends, consents>>
    BY <1>2 DEF TurnStarts, Wake, Sweep, Begin, OperationDies, DatabaseFails, durable, history
  <2>2. QED
    BY <2>1, SilentMaps
<1>3. CASE \/ \E c \in controls : StopExpires(c[1], c[2])
           \/ BeginShutdown \/ Restart \/ StartWorker
  <2>1. UNCHANGED <<row, lastSent, sends, consents>>
    BY <1>3 DEF StopExpires, BeginShutdown, Restart, StartWorker, DatabaseFails, durable, history
  <2>2. QED
    BY <2>1, SilentMaps
<1>4. CASE \E d \in Delivery :
             \/ RequestTurn(d) \/ TurnCompletes(d) \/ BackoffElapses(d) \/ Operate(d)
             \/ ProjectOutcome(d) \/ ReconcileSending(d) \/ Discard(d) \/ Recheck(d)
             \/ \E allow \in BOOLEAN : Retry(d, allow)
  BY <1>4, RequestTurnMaps, TurnCompletesMaps, BackoffMaps, OperateMaps, ProjectOutcomeMaps,
     ReconcileSendingMaps, DiscardMaps, RecheckMaps, RetryMaps
<1>5. CASE \/ \E t \in Thread : StopCommits(t)
           \/ \E c \in controls : StopProcessed(c[1], c[2])
  BY <1>5, StopCommitsMaps, StopProcessedMaps
<1>6. QED
  BY <1>1, <1>2, <1>3, <1>4, <1>5 DEF Next

\* Every behaviour of the outbox is one its contract allows.
THEOREM OutboxImplementsContract == Spec => ImplementsContract
<1>1. Init => Contract!Init
  <2> SUFFICES ASSUME Init PROVE Contract!Init
    OBVIOUS
  <2>1. \A d \in Delivery : StatusOf(row[d]) = "absent" /\ ReachedBy(row[d], lastSent[d]) = FALSE
    BY DEF Init, StatusOf, ReachedBy
  <2>2. QED
    BY <2>1 DEF Init, Contract!Init
<1>2. QED
  BY <1>1, Invariance, NextMaps, PTL DEF Spec, ImplementsContract, Contract!Spec

=============================================================================
