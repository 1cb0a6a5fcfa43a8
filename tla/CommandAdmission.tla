--------------------------- MODULE CommandAdmission ---------------------------
(***************************************************************************)
(* The bounded admission queue in front of the orchestration engine        *)
(* (apps/server/src/orchestration/commandAdmission.ts).                     *)
(*                                                                         *)
(* Two lanes hold command envelopes: `ordinary`, limited by a number of    *)
(* entries and by their encoded bytes, and `controls` (stop, interrupt,    *)
(* approval, user input), limited by a number of entries of their own.  An *)
(* admitted envelope keeps its reservation, also after the worker took it  *)
(* off its lane, until `release`.  A control may own one continuation,     *)
(* which travels in the control lane and shares its owner's reservation.   *)
(*                                                                         *)
(* `enqueue` never refuses a command because its lane is full: the caller  *)
(* blocks on a one-shot notification (`changed`) and tries again.  A       *)
(* caller that captured the notification is "blocked"; `notify` completes  *)
(* it and makes the caller "woken".  The worker's `take` uses the same     *)
(* notification.                                                           *)
(***************************************************************************)
EXTENDS Integers, Sequences, FiniteSets, Functions

CONSTANTS
  Item,             \* command envelopes (every dispatch makes a fresh one)
  Control,          \* those whose command is a control (isControlCommand)
  Bytes(_),         \* encoded size of a set of envelopes
  OrdinaryEntries,  \* limit of the ordinary lane, 1024 in the code
  OrdinaryBytes,    \* limit of the ordinary lane, 32 MiB in the code
  ControlEntries,   \* limit of the control lane, 64 in the code
  NoOwner           \* the entry is not a continuation

ASSUME ItemAssumption == IsFiniteSet(Item) /\ Control \subseteq Item /\ NoOwner \notin Item

ASSUME LimitAssumption ==
  OrdinaryEntries \in Nat /\ OrdinaryBytes \in Nat /\ ControlEntries \in Nat

\* The size of a set of envelopes is the sum of theirs.
ASSUME BytesAssumption ==
  /\ Bytes({}) = 0
  /\ \A S \in SUBSET Item : Bytes(S) \in Nat
  /\ \A S, T \in SUBSET Item : S \cap T = {} => Bytes(S \cup T) = Bytes(S) + Bytes(T)

VARIABLES
  ordinary, controls,  \* the two lanes: envelopes the worker has not taken yet
  kind,                \* what `accepted` holds for an envelope, "absent" if nothing
  owner,               \* the control whose reservation a continuation shares
  ordinaryEntries, ordinaryBytes, controlEntries,
  closed,
  waiting,             \* state of the `enqueue` call that offers an envelope
  taker                \* state of the worker's `take` call

lanes    == <<ordinary, controls>>
counters == <<ordinaryEntries, ordinaryBytes, controlEntries>>
vars     == <<lanes, kind, owner, counters, closed, waiting, taker>>

Accepted(k) == {i \in Item : kind[i] = k}
Queued      == Range(ordinary) \cup Range(controls)

TypeOK ==
  /\ ordinary \in Seq(Item) /\ controls \in Seq(Item)
  /\ kind \in [Item -> {"absent", "ordinary", "control", "continuation"}]
  /\ owner \in [Item -> Item \cup {NoOwner}]
  /\ ordinaryEntries \in Nat /\ ordinaryBytes \in Nat /\ controlEntries \in Nat
  /\ closed \in BOOLEAN
  /\ waiting \in [Item -> {"none", "blocked", "woken"}]
  /\ taker \in {"ready", "blocked", "woken", "stopped"}

Init ==
  /\ ordinary = <<>> /\ controls = <<>>
  /\ kind = [i \in Item |-> "absent"]
  /\ owner = [i \in Item |-> NoOwner]
  /\ ordinaryEntries = 0 /\ ordinaryBytes = 0 /\ controlEntries = 0
  /\ closed = FALSE
  /\ waiting = [i \in Item |-> "none"]
  /\ taker = "ready"

-----------------------------------------------------------------------------
\* An envelope no dispatch is using: not accepted, not waiting, and not the
\* identity a live continuation still refers to.
Fresh(i) == kind[i] = "absent" /\ waiting[i] = "none" /\ \A j \in Item : owner[j] # i

Woken(state) == IF state = "blocked" THEN "woken" ELSE state

\* `notify`: complete the current notification.  `done` are the envelopes whose
\* `enqueue` call returns in the same step.
Notify(done) ==
  /\ waiting' = [i \in Item |-> IF i \in done THEN "none" ELSE Woken(waiting[i])]
  /\ taker' = Woken(taker)

\* Mutant: the byte limit does not count the envelope that asks.
OrdinaryFullBefore(i) ==
  \/ ordinaryEntries >= OrdinaryEntries
  \/ ordinaryBytes >= OrdinaryBytes

OrdinaryFull(i) ==
  \/ ordinaryEntries >= OrdinaryEntries
  \/ ordinaryBytes + Bytes({i}) > OrdinaryBytes

ControlFull == controlEntries >= ControlEntries

\* The tail of `admit` for the ordinary lane, once it is not full.
AdmitOrdinary(i) ==
  /\ kind' = [kind EXCEPT ![i] = "ordinary"]
  /\ ordinaryEntries' = ordinaryEntries + 1
  /\ ordinaryBytes' = ordinaryBytes + Bytes({i})
  /\ ordinary' = Append(ordinary, i)
  /\ Notify({i})
  /\ UNCHANGED <<controls, owner, controlEntries, closed>>

\* offer of a command that is not a control; a refused offer changes nothing.
OfferOrdinary(i) ==
  /\ Fresh(i) /\ i \notin Control /\ ~closed
  /\ ~OrdinaryFull(i)
  /\ AdmitOrdinary(i)

OfferControl(i) ==
  /\ Fresh(i) /\ i \in Control /\ ~closed
  /\ ~ControlFull
  /\ kind' = [kind EXCEPT ![i] = "control"]
  /\ controlEntries' = controlEntries + 1
  /\ controls' = Append(controls, i)
  /\ Notify({i})
  /\ UNCHANGED <<ordinary, owner, ordinaryEntries, ordinaryBytes, closed>>

\* `enqueue` finds the lane full: capture the notification and wait for it.
EnqueueWaits(i) ==
  /\ Fresh(i) /\ i \notin Control /\ ~closed
  /\ Bytes({i}) <= OrdinaryBytes
  /\ OrdinaryFull(i)
  /\ waiting' = [waiting EXCEPT ![i] = "blocked"]
  /\ UNCHANGED <<lanes, kind, owner, counters, closed, taker>>

\* The notification arrived: one more turn of the loop in `admit`.
EnqueueResumes(i) ==
  /\ waiting[i] = "woken"
  /\ \/ ~closed /\ ~OrdinaryFull(i) /\ AdmitOrdinary(i)
     \/ /\ closed \/ OrdinaryFull(i)
        /\ waiting' = [waiting EXCEPT ![i] = IF closed THEN "none" ELSE "blocked"]
        /\ UNCHANGED <<lanes, kind, owner, counters, closed, taker>>

\* The caller is interrupted while it waits; nothing was admitted for it.
EnqueueInterrupted(i) ==
  /\ waiting[i] # "none"
  /\ waiting' = [waiting EXCEPT ![i] = "none"]
  /\ UNCHANGED <<lanes, kind, owner, counters, closed, taker>>

\* A command dispatched on behalf of the control `o`.
OfferContinuation(i, o) ==
  /\ Fresh(i) /\ i \notin Control /\ ~closed
  /\ kind[o] = "control"
  /\ Bytes({i}) <= OrdinaryBytes
  /\ \A j \in Item : owner[j] # o
  /\ kind' = [kind EXCEPT ![i] = "continuation"]
  /\ owner' = [owner EXCEPT ![i] = o]
  /\ controls' = Append(controls, i)
  /\ Notify({i})
  /\ UNCHANGED <<ordinary, counters, closed>>

-----------------------------------------------------------------------------
\* `take`: the controls first, then the ordinary lane.
TakeControl ==
  /\ taker \in {"ready", "woken"}
  /\ controls # <<>>
  /\ controls' = Tail(controls)
  /\ taker' = "ready"
  /\ UNCHANGED <<ordinary, kind, owner, counters, closed, waiting>>

TakeOrdinary ==
  /\ taker \in {"ready", "woken"}
  /\ controls = <<>> /\ ordinary # <<>>
  /\ ordinary' = Tail(ordinary)
  /\ taker' = "ready"
  /\ UNCHANGED <<controls, kind, owner, counters, closed, waiting>>

TakeWaits ==
  /\ taker \in {"ready", "woken"}
  /\ controls = <<>> /\ ordinary = <<>>
  /\ taker' = IF closed THEN "stopped" ELSE "blocked"
  /\ UNCHANGED <<lanes, kind, owner, counters, closed, waiting>>

\* Mutant: one lane order for all, the ordinary lane first.
TakeOrdinaryFirst ==
  \/ /\ taker \in {"ready", "woken"}
     /\ ordinary # <<>>
     /\ ordinary' = Tail(ordinary)
     /\ taker' = "ready"
     /\ UNCHANGED <<controls, kind, owner, counters, closed, waiting>>
  \/ ordinary = <<>> /\ TakeControl
  \/ TakeWaits

Take == TakeControl \/ TakeOrdinary \/ TakeWaits

\* Mutant: a released continuation gives a control entry back.
ReleaseAllCountsContinuations(S) ==
  LET R == S \cap Accepted("ordinary")
  IN  /\ kind' = [i \in Item |-> IF i \in S THEN "absent" ELSE kind[i]]
      /\ owner' = [i \in Item |-> IF i \in S THEN NoOwner ELSE owner[i]]
      /\ ordinaryEntries' = ordinaryEntries - Cardinality(R)
      /\ ordinaryBytes' = ordinaryBytes - Bytes(R)
      /\ controlEntries' = controlEntries - Cardinality((S \cap Accepted("control"))
                                               \cup (S \cap Accepted("continuation")))
      /\ Notify({})
      /\ UNCHANGED closed

\* Mutant: the entry is freed but nobody is told.
ReleaseAllSilently(S) ==
  LET R == S \cap Accepted("ordinary")
  IN  /\ kind' = [i \in Item |-> IF i \in S THEN "absent" ELSE kind[i]]
      /\ owner' = [i \in Item |-> IF i \in S THEN NoOwner ELSE owner[i]]
      /\ ordinaryEntries' = ordinaryEntries - Cardinality(R)
      /\ ordinaryBytes' = ordinaryBytes - Bytes(R)
      /\ controlEntries' = controlEntries - Cardinality(S \cap Accepted("control"))
      /\ UNCHANGED <<closed, waiting, taker>>

\* `release` of every envelope of S.  An envelope that is not accepted (any more)
\* is left alone, and a continuation gives nothing back.
ReleaseAll(S) ==
  LET R == S \cap Accepted("ordinary")
  IN  /\ kind' = [i \in Item |-> IF i \in S THEN "absent" ELSE kind[i]]
      /\ owner' = [i \in Item |-> IF i \in S THEN NoOwner ELSE owner[i]]
      /\ ordinaryEntries' = ordinaryEntries - Cardinality(R)
      /\ ordinaryBytes' = ordinaryBytes - Bytes(R)
      /\ controlEntries' = controlEntries - Cardinality(S \cap Accepted("control"))
      /\ Notify({})
      /\ UNCHANGED closed

\* The engine releases what it took off a lane; its finalizer releases
\* everything that is still accepted, after it closed the queue.
Release(i) ==
  /\ kind[i] # "absent"
  /\ i \notin Queued \/ closed
  /\ ReleaseAll({i})
  /\ UNCHANGED lanes

\* What stays of a lane, in its order, when the entries of S are spliced out of it.
Spliced(lane, S) ==
  LET Kept     == {n \in DOMAIN lane : lane[n] \notin S}
      Place(n) == Cardinality({m \in Kept : m <= n})
  IN  [p \in 1 .. Cardinality(Kept) |-> lane[CHOOSE n \in Kept : Place(n) = p]]

\* Mutant: the cancelled envelope stays on its lane.
CancelQueuedKeepsEntry(S) ==
  /\ S # {} /\ S \subseteq Range(ordinary)
  /\ ReleaseAll(S)
  /\ UNCHANGED lanes

\* A stop cancels the queued ordinary commands its predicate selects.
CancelQueued(S) ==
  /\ S # {} /\ S \subseteq Range(ordinary)
  /\ ordinary' = Spliced(ordinary, S)
  /\ ReleaseAll(S)
  /\ UNCHANGED controls

Close ==
  /\ ~closed
  /\ closed' = TRUE
  /\ Notify({})
  /\ UNCHANGED <<lanes, kind, owner, counters>>

Next ==
  \/ \E i \in Item :
       \/ OfferOrdinary(i) \/ OfferControl(i)
       \/ EnqueueWaits(i) \/ EnqueueResumes(i) \/ EnqueueInterrupted(i)
       \/ Release(i)
       \/ \E o \in Item : OfferContinuation(i, o)
  \/ \E S \in SUBSET Item : CancelQueued(S)
  \/ Take
  \/ Close

\* The worker is a loop around `take`; a woken caller is a runnable fiber.
Fairness == WF_vars(Take) /\ \A i \in Item : WF_vars(EnqueueResumes(i))

Spec == Init /\ [][Next]_vars /\ Fairness

-----------------------------------------------------------------------------
\* No lane is ever over its limit, whatever was cancelled, released or resumed.
Bounded ==
  /\ ordinaryEntries <= OrdinaryEntries
  /\ ordinaryBytes <= OrdinaryBytes
  /\ controlEntries <= ControlEntries

\* The counters are the true load: nothing is counted twice, leaked on the way
\* through cancel and release, or given back by a continuation.
CountersExact ==
  /\ ordinaryEntries = Cardinality(Accepted("ordinary"))
  /\ ordinaryBytes = Bytes(Accepted("ordinary"))
  /\ controlEntries = Cardinality(Accepted("control"))

\* While the queue is open, a lane holds each of its envelopes once and only
\* while it is accepted: cancel and interruption leave no ghost entry behind.
NoGhostEntry ==
  /\ IsInjective(ordinary) /\ IsInjective(controls)
  /\ ~closed => /\ \A i \in Range(ordinary) : kind[i] = "ordinary"
                /\ \A i \in Range(controls) : kind[i] \in {"control", "continuation"}

\* A caller is only ever left blocked while there is a reason to wait: the one-shot
\* notification is never lost between the check and the wait.
NoLostWakeup ==
  /\ \A i \in Item : waiting[i] = "blocked" => ~closed /\ OrdinaryFull(i)
  /\ taker = "blocked" => ~closed /\ controls = <<>> /\ ordinary = <<>>

\* A caller that waits holds no reservation, so interrupting it leaks none and
\* never admits a ghost entry.
WaiterHoldsNothing == \A i \in Item : waiting[i] # "none" => kind[i] = "absent"

\* A control's lease carries at most one continuation at a time.
OneContinuation ==
  \A i, j \in Accepted("continuation") : owner[i] = owner[j] => i = j

\* The books of the queue are right whatever cancel, release, interruption and resumption
\* come in between: what is counted, what is on the lanes and what is accepted agree.
AccountingExact == CountersExact /\ NoGhostEntry /\ WaiterHoldsNothing /\ OneContinuation

\* Controls pass a saturated ordinary lane: whatever is offered, a queued control
\* is eventually taken.
ControlsAreTaken ==
  \A i \in Item : i \in Range(controls) ~> i \notin Range(controls)

=============================================================================
