--------------------------- MODULE DrainableWorker ---------------------------
(***************************************************************************)
(* The bounded background worker (makeDrainableWorker) on which the        *)
(* reactors, the ingestion and the next-turn queue of the server run.      *)
(* Fibers enqueue (wait for room) or offer (do not wait) items; one loop   *)
(* fiber processes them one at a time, controls before bulk.  An item with *)
(* a key replaces the item of the entry of that key that is still queued,  *)
(* or marks the active entry dirty, so that it runs once more.  drain      *)
(* waits until nothing is outstanding, close refuses new items first.      *)
(*                                                                         *)
(* A request is one call of enqueue or offer and stands for its item.  An  *)
(* entry has the name of the request that created it.  What the code does  *)
(* between two suspension points of a fiber is one action: the admission   *)
(* is uninterruptible and the loop captures `changed` in the same turn in  *)
(* which it finds the queue empty.  `accepted`, `attempted` and            *)
(* `drain[d].saw` are history variables.                                   *)
(***************************************************************************)
EXTENDS Integers, Sequences, SequencesExt, FiniteSets, FiniteSetsExt, Functions

CONSTANTS
  Request,         \* calls of enqueue and offer
  Offer,           \* the calls that do not wait
  SelfNotify,      \* the calls an item's own processing makes
  ControlRequest,  \* isControl
  Key, KeyOf, NoKey,
  RevisionOf, SizeOf,
  Drainer,         \* calls of drain and close
  Closer,          \* the calls of close
  None,
  MaxEntries, MaxBytes, ControlEntries,
  RejectWhenFull   \* admission: "reject"

ASSUME RequestAssumption ==
  /\ Offer \subseteq Request /\ SelfNotify \subseteq Request /\ ControlRequest \subseteq Request
  /\ Closer \subseteq Drainer
  /\ None \notin Request /\ NoKey \notin Key
  /\ KeyOf \in [Request -> Key \cup {NoKey}]
  /\ RevisionOf \in [Request -> Nat] /\ SizeOf \in [Request -> Nat]
ASSUME BoundAssumption ==
  /\ MaxEntries \in Nat /\ MaxBytes \in Nat /\ ControlEntries \in Nat
  /\ RejectWhenFull \in BOOLEAN
\* The lane of an item depends on its key only (ProviderCommandReactor, the one worker
\* with controls, has no keys).
ASSUME LaneAssumption ==
  \A r, s \in Request : KeyOf[r] = KeyOf[s] /\ KeyOf[r] # NoKey =>
                          (r \in ControlRequest <=> s \in ControlRequest)

VARIABLES
  phase,               \* "accepting", "draining", "failed" or "closed"
  queue,               \* Seq(Request): the entries waiting
  entry,               \* [Request -> record]: item, bytes and dirty of each entry
  queuedByKey,         \* [Key -> Request \cup {None}]
  active,              \* the entry being processed
  running,             \* the item its processing was started with
  outstanding, bytes, controlOutstanding, controlBytes,
  idles,               \* Seq: every idle Deferred made, the last one is `idle`
  loop,                \* where the loop fiber is
  call,                \* [Request -> state of the call]
  drain,               \* [Drainer -> record]: state, awaited Deferred, what it must cover
  accepted, attempted

vars == <<phase, queue, entry, queuedByKey, active, running, outstanding, bytes,
          controlOutstanding, controlBytes, idles, loop, call, drain, accepted, attempted>>
counters == <<outstanding, bytes, controlOutstanding, controlBytes>>

Entry == [item : Request, bytes : Nat, dirty : BOOLEAN]
Settled == {"accepted", "full", "unavailable", "too_large", "interrupted"}

\* Every variable stays in its domain.
TypeOK ==
  /\ phase \in {"accepting", "draining", "failed", "closed"}
  /\ queue \in Seq(Request) /\ accepted \in Seq(Request)
  /\ entry \in [Request -> Entry]
  /\ queuedByKey \in [Key -> Request \cup {None}]
  /\ active \in Request \cup {None} /\ running \in Request \cup {None}
  /\ \A n \in {outstanding, bytes, controlOutstanding, controlBytes} : n \in Nat
  /\ idles \in Seq({"pending", "ok", "error"})
  /\ loop \in {"scan", "parked", "processing", "waiting", "done"}
  /\ call \in [Request -> {"new", "waiting", "retry"} \cup Settled]
  /\ drain \in [Drainer -> [state : {"new", "waiting", "ok", "error"}, idle : Nat, saw : Nat]]
  /\ attempted \subseteq Request

Init ==
  /\ phase = "accepting" /\ queue = <<>> /\ active = None /\ running = None
  /\ entry = [r \in Request |-> [item |-> r, bytes |-> 0, dirty |-> FALSE]]
  /\ queuedByKey = [k \in Key |-> None]
  /\ outstanding = 0 /\ bytes = 0 /\ controlOutstanding = 0 /\ controlBytes = 0
  /\ idles = <<"ok">>
  /\ loop = "scan"
  /\ call = [r \in Request |-> "new"]
  /\ drain = [d \in Drainer |-> [state |-> "new", idle |-> 0, saw |-> 0]]
  /\ accepted = <<>> /\ attempted = {}

-----------------------------------------------------------------------------
(* The Deferreds.  `changed` is one-shot and replaced by every notify: a fiber *)
(* that captured it is "waiting" (a caller) or "parked" (the loop).            *)

Idle == Len(idles)

\* Deferred.succeed / Deferred.fail: only the first settlement counts.
SettleIdle(outcome) ==
  IF idles[Idle] = "pending" THEN [idles EXCEPT ![Idle] = outcome] ELSE idles

Woken(c) == [r \in Request |-> IF c[r] = "waiting" THEN "retry" ELSE c[r]]
Unparked(l) == IF l = "parked" THEN "scan" ELSE l

-----------------------------------------------------------------------------
(* admit *)

IsControl(r) == r \in ControlRequest

\* Mutant: the entry of the key that is being processed is overlooked.
PreviousQueued(r) == IF KeyOf[r] = NoKey THEN None ELSE queuedByKey[KeyOf[r]]

\* The entry whose reservation the item takes over: the queued one of its key, or
\* the active one.
Previous(r) ==
  IF KeyOf[r] = NoKey THEN None
  ELSE IF queuedByKey[KeyOf[r]] # None THEN queuedByKey[KeyOf[r]]
  ELSE IF active # None /\ KeyOf[active] = KeyOf[r] THEN active
  ELSE None

Superseded(r) ==
  /\ Previous(r) # None
  /\ RevisionOf[entry[Previous(r)].item] > RevisionOf[r]

ExtraBytes(r) == SizeOf[r] - (IF Previous(r) = None THEN 0 ELSE entry[Previous(r)].bytes)

OverBytes(r) == bytes - controlBytes + ExtraBytes(r) > MaxBytes

Full(r) ==
  IF IsControl(r)
  THEN Previous(r) = None /\ controlOutstanding >= ControlEntries
  ELSE \/ OverBytes(r)
       \/ Previous(r) = None /\ outstanding - controlOutstanding >= MaxEntries

\* Mutant: a new item for the active key is taken in without a rerun.
NoRerun(r) == FALSE

Rerun(r) == Previous(r) = active

\* The item replaces that of the previous entry, an active one runs again.
Coalesce(r) ==
  /\ entry' = [entry EXCEPT ![Previous(r)] =
       [item |-> r, bytes |-> SizeOf[r], dirty |-> @.dirty \/ Rerun(r)]]
  /\ bytes' = bytes + ExtraBytes(r)
  /\ controlBytes' = IF IsControl(r) THEN controlBytes + ExtraBytes(r) ELSE controlBytes
  /\ UNCHANGED <<queue, queuedByKey, outstanding, controlOutstanding, idles>>

Push(r) ==
  /\ idles' = IF outstanding = 0 THEN Append(idles, "pending") ELSE idles
  /\ entry' = [entry EXCEPT ![r] = [item |-> r, bytes |-> SizeOf[r], dirty |-> FALSE]]
  /\ outstanding' = outstanding + 1
  /\ bytes' = bytes + SizeOf[r]
  /\ controlOutstanding' = IF IsControl(r) THEN controlOutstanding + 1 ELSE controlOutstanding
  /\ controlBytes' = IF IsControl(r) THEN controlBytes + SizeOf[r] ELSE controlBytes
  /\ queue' = Append(queue, r)
  /\ queuedByKey' = IF KeyOf[r] = NoKey THEN queuedByKey ELSE [queuedByKey EXCEPT ![KeyOf[r]] = r]

\* The loop fiber is the caller of a self-notification: it stays in process until the
\* call settles.
LoopAfter(r, l) == IF r \in SelfNotify THEN "processing" ELSE l

\* A call that has its turn: new, or woken by `changed`.  The processing of an item
\* notifies its own key.
CanTry(r) ==
  /\ call[r] \in {"new", "retry"}
  /\ r \in SelfNotify /\ call[r] = "new" =>
       loop = "processing" /\ KeyOf[r] # NoKey /\ KeyOf[r] = KeyOf[running]

AdmitRefused(r) ==
  /\ CanTry(r)
  /\ \/ SizeOf[r] > MaxBytes /\ call' = [call EXCEPT ![r] = "too_large"]
     \/ /\ SizeOf[r] <= MaxBytes
        /\ phase # "accepting"
        /\ call' = [call EXCEPT ![r] = "unavailable"]
  /\ loop' = LoopAfter(r, loop)
  /\ UNCHANGED <<phase, queue, entry, queuedByKey, active, running, counters, idles, drain,
                 accepted, attempted>>

\* An item older than the one of its key is accepted and dropped.
AdmitSuperseded(r) ==
  /\ CanTry(r) /\ SizeOf[r] <= MaxBytes /\ phase = "accepting"
  /\ Superseded(r)
  /\ call' = [call EXCEPT ![r] = "accepted"]
  /\ accepted' = Append(accepted, r)
  /\ loop' = LoopAfter(r, loop)
  /\ UNCHANGED <<phase, queue, entry, queuedByKey, active, running, counters, idles, drain,
                 attempted>>

AdmitFull(r) ==
  /\ CanTry(r) /\ SizeOf[r] <= MaxBytes /\ phase = "accepting"
  /\ ~Superseded(r) /\ Full(r)
  /\ IF r \in Offer \/ RejectWhenFull
     THEN call' = [call EXCEPT ![r] = "full"] /\ loop' = LoopAfter(r, loop)
     ELSE /\ call' = [call EXCEPT ![r] = "waiting"]
          /\ loop' = IF r \in SelfNotify THEN "waiting" ELSE loop
  /\ UNCHANGED <<phase, queue, entry, queuedByKey, active, running, counters, idles, drain,
                 accepted, attempted>>

Admit(r) ==
  /\ CanTry(r) /\ SizeOf[r] <= MaxBytes /\ phase = "accepting"
  /\ ~Superseded(r) /\ ~Full(r)
  /\ IF Previous(r) # None THEN Coalesce(r) ELSE Push(r)
  /\ accepted' = Append(accepted, r)
  /\ call' = [Woken(call) EXCEPT ![r] = "accepted"]
  /\ loop' = LoopAfter(r, Unparked(loop))
  /\ UNCHANGED <<phase, active, running, drain, attempted>>

\* The fiber that waits for room is interrupted.
Interrupt(r) ==
  /\ call[r] \in {"waiting", "retry"} /\ r \notin SelfNotify
  /\ call' = [call EXCEPT ![r] = "interrupted"]
  /\ UNCHANGED <<phase, queue, entry, queuedByKey, active, running, counters, idles, loop,
                 drain, accepted, attempted>>

-----------------------------------------------------------------------------
(* The loop fiber *)

\* The first control, or else the head.
NextEntry ==
  LET controls == {i \in DOMAIN queue : IsControl(queue[i])}
  IN  IF controls = {} THEN 1 ELSE Min(controls)

\* The entry leaves the queue and the map, its item of this moment is processed.
Take ==
  /\ loop = "scan" /\ queue # <<>>
  /\ LET e == queue[NextEntry]
     IN  /\ queue' = RemoveAt(queue, NextEntry)
         /\ queuedByKey' = IF KeyOf[e] = NoKey THEN queuedByKey
                           ELSE [queuedByKey EXCEPT ![KeyOf[e]] = None]
         /\ active' = e
         /\ running' = entry[e].item
  /\ loop' = "processing"
  /\ UNCHANGED <<phase, entry, counters, idles, call, drain, accepted, attempted>>

Park ==
  /\ loop = "scan" /\ queue = <<>> /\ phase = "accepting"
  /\ loop' = "parked"
  /\ UNCHANGED <<phase, queue, entry, queuedByKey, active, running, counters, idles, call,
                 drain, accepted, attempted>>

\* A dirty entry goes back to the tail with its reservation.
Requeue ==
  /\ entry' = [entry EXCEPT ![active].dirty = FALSE]
  /\ queue' = Append(queue, active)
  /\ queuedByKey' = IF KeyOf[active] = NoKey THEN queuedByKey
                    ELSE [queuedByKey EXCEPT ![KeyOf[active]] = active]
  /\ UNCHANGED <<counters, idles>>

\* Mutant: the bytes the entry was created with are given back, not those it has now.
ReservedAtFirst == SizeOf[active]

Reserved == entry[active].bytes

Release ==
  /\ outstanding' = outstanding - 1
  /\ bytes' = bytes - Reserved
  /\ controlOutstanding' = IF IsControl(active) THEN controlOutstanding - 1 ELSE controlOutstanding
  /\ controlBytes' = IF IsControl(active) THEN controlBytes - Reserved ELSE controlBytes
  /\ idles' = IF outstanding = 1 THEN SettleIdle("ok") ELSE idles
  /\ UNCHANGED <<entry, queue, queuedByKey>>

\* The processing has ended, well or badly.
Finish ==
  /\ loop = "processing"
  /\ active' = None /\ running' = None
  /\ attempted' = attempted \cup {running}
  /\ IF entry[active].dirty THEN Requeue ELSE Release
  /\ call' = Woken(call)
  /\ loop' = "scan"
  /\ UNCHANGED <<phase, drain, accepted>>

\* Mutant: what was queued is dropped without telling the drains.
IdleForgotten == idles

IdleFails == SettleIdle("error")

\* Everything queued or active is given up, its waiters are told.
Abandon ==
  /\ queue' = <<>> /\ queuedByKey' = [k \in Key |-> None] /\ active' = None /\ running' = None
  /\ outstanding' = 0 /\ bytes' = 0 /\ controlOutstanding' = 0 /\ controlBytes' = 0
  /\ idles' = IdleFails
  /\ call' = [r \in Request |->
       IF r \in SelfNotify /\ call[r] \in {"waiting", "retry"} THEN "interrupted" ELSE Woken(call)[r]]
  /\ loop' = "done"
  /\ UNCHANGED <<entry, drain, accepted, attempted>>

\* The loop finds nothing to do in a worker that accepts nothing: it returns.
LoopReturns ==
  /\ loop = "scan" /\ queue = <<>> /\ phase # "accepting"
  /\ phase' = IF phase = "failed" THEN phase ELSE "closed"
  /\ Abandon

\* The scope is closed: the loop is interrupted wherever it is.
ScopeCloses ==
  /\ loop # "done"
  /\ phase' = IF phase = "failed" THEN phase ELSE "closed"
  /\ Abandon

\* The loop dies outside of process (its error handler throws).
LoopDies ==
  /\ loop = "processing" /\ outstanding > 0
  /\ phase' = "failed"
  /\ Abandon

-----------------------------------------------------------------------------
(* drain and close *)

StartDrain(d) ==
  /\ drain[d].state = "new"
  /\ IF phase = "failed"
     THEN drain' = [drain EXCEPT ![d] = [state |-> "error", idle |-> 0, saw |-> Len(accepted)]]
     ELSE drain' = [drain EXCEPT ![d] = [state |-> "waiting", idle |-> Idle, saw |-> Len(accepted)]]
  /\ IF d \in Closer /\ phase = "accepting"
     THEN phase' = "draining" /\ call' = Woken(call) /\ loop' = Unparked(loop)
     ELSE UNCHANGED <<phase, call, loop>>
  /\ UNCHANGED <<queue, entry, queuedByKey, active, running, counters, idles, accepted, attempted>>

\* The awaited Deferred is done; close then marks the worker closed.
EndDrain(d) ==
  /\ drain[d].state = "waiting" /\ idles[drain[d].idle] # "pending"
  /\ drain' = [drain EXCEPT ![d].state = idles[drain[d].idle]]
  /\ IF d \in Closer /\ idles[drain[d].idle] = "ok"
     THEN phase' = "closed" /\ call' = Woken(call) /\ loop' = Unparked(loop)
     ELSE UNCHANGED <<phase, call, loop>>
  /\ UNCHANGED <<queue, entry, queuedByKey, active, running, counters, idles, accepted, attempted>>

Next ==
  \/ \E r \in Request : AdmitRefused(r) \/ AdmitSuperseded(r) \/ AdmitFull(r) \/ Admit(r) \/ Interrupt(r)
  \/ Take \/ Park \/ Finish \/ LoopReturns \/ ScopeCloses \/ LoopDies
  \/ \E d \in Drainer : StartDrain(d) \/ EndDrain(d)

\* A woken fiber gets its turn; processing ends (with an error if it must).
Fairness ==
  /\ \A r \in Request : WF_vars(call[r] = "retry" /\ (AdmitRefused(r) \/ AdmitSuperseded(r) \/ AdmitFull(r) \/ Admit(r)))
  /\ WF_vars(Take \/ Finish \/ LoopReturns)
  /\ \A d \in Drainer : WF_vars(EndDrain(d))

Spec == Init /\ [][Next]_vars /\ Fairness

-----------------------------------------------------------------------------
(* Properties *)

Live == Range(queue) \cup ({active} \ {None})
Bulk == Live \ ControlRequest
Bytes(S) == MapThenSumSet(LAMBDA e : entry[e].bytes, S)

\* The counters of entries are the true load in every interleaving of admission,
\* coalescing, reruns, interrupts and the death of the loop; each lane keeps its limit,
\* and a key has one live entry, the one the map knows while it is queued.
EntriesExact ==
  /\ outstanding = Cardinality(Live)
  /\ controlOutstanding = Cardinality(Live \cap ControlRequest)
  /\ Cardinality(Bulk) <= MaxEntries /\ controlOutstanding <= ControlEntries
  /\ IsInjective(queue)
  /\ \A e, f \in Live : KeyOf[e] = KeyOf[f] /\ KeyOf[e] # NoKey => e = f
  /\ \A k \in Key : {queuedByKey[k]} \ {None} = {e \in Range(queue) : KeyOf[e] = k}

\* The counters of bytes are exact as well, though an entry changes its size whenever its
\* item is replaced, and the bulk lane keeps its limit.
BytesExact ==
  /\ bytes = Bytes(Live) /\ controlBytes = Bytes(Live \cap ControlRequest)
  /\ Bytes(Bulk) <= MaxBytes

\* Entries and bytes are kept by hand through admission, replacement, rerun, release and
\* the death of the loop, and are the true load after each of them.
AccountingExact == EntriesExact /\ BytesExact

\* s is r, or an item of r's key accepted later or with a newer revision.
Replaces(s, r) ==
  \/ s = r
  \/ /\ KeyOf[s] = KeyOf[r] /\ KeyOf[r] # NoKey
     /\ \/ RevisionOf[s] > RevisionOf[r]
        \/ \E i, j \in DOMAIN accepted : i > j /\ accepted[i] = s /\ accepted[j] = r

Served(r) == \E s \in attempted : Replaces(s, r)

\* Until the worker is closed or fails, an accepted item is never forgotten: it was
\* processed, or it, or what replaced it, is being processed or still will be.
NothingLost ==
  phase \in {"accepting", "draining"} =>
    \A r \in Range(accepted) :
      \/ Served(r)
      \/ \E e \in Live : /\ Replaces(entry[e].item, r)
                         /\ e = active => entry[e].dirty \/ entry[e].item = running
      \/ running # None /\ Replaces(running, r)

\* A drain that succeeds has seen the end of everything accepted before it was called,
\* reruns included.
DrainIsComplete ==
  \A d \in Drainer : drain[d].state = "ok" => \A i \in 1..drain[d].saw : Served(accepted[i])

\* Nobody waits for ever: a call that waits for room is admitted or refused in the end
\* (there are finitely many calls, and each settles once), and a drain or close returns,
\* even one that waits on a Deferred since replaced.
EveryoneReturns ==
  <>[](/\ \A r \in Request : call[r] \notin {"waiting", "retry"}
       /\ \A d \in Drainer : drain[d].state # "waiting")
=============================================================================
