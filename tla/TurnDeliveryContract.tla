------------------------ MODULE TurnDeliveryContract ------------------------
(***************************************************************************)
(* What the provider-turn outbox promises about one submitted prompt, with *)
(* no workers, slots, receipts, crashes or controls in sight.              *)
(*                                                                         *)
(* A submitted prompt is open.  While it is open it may reach the provider *)
(* once.  It is reported done only if it did reach it, refused only if it  *)
(* did not, and uncertain otherwise.  From refused or uncertain only the   *)
(* user goes on: a retry opens the prompt again, and a retry of an         *)
(* uncertain one is the user's consent to a possible duplicate.            *)
(***************************************************************************)
EXTENDS Integers

CONSTANT Delivery

VARIABLES
  status,    \* what F5 says about the prompt
  reached,   \* the prompt, as opened last, is at the provider
  sends,     \* times the prompt reached the provider
  consents   \* times the user accepted a possible duplicate

vars == <<status, reached, sends, consents>>

Status == {"absent", "open", "done", "uncertain", "refused", "dropped"}

TypeOK ==
  /\ status \in [Delivery -> Status]
  /\ reached \in [Delivery -> BOOLEAN]
  /\ sends \in [Delivery -> Nat] /\ consents \in [Delivery -> Nat]

Init ==
  /\ status = [d \in Delivery |-> "absent"]
  /\ reached = [d \in Delivery |-> FALSE]
  /\ sends = [d \in Delivery |-> 0] /\ consents = [d \in Delivery |-> 0]

Submit(d) ==
  /\ status[d] = "absent"
  /\ status' = [status EXCEPT ![d] = "open"]
  /\ UNCHANGED <<reached, sends, consents>>

Reach(d) ==
  /\ status[d] = "open" /\ ~reached[d]
  /\ reached' = [reached EXCEPT ![d] = TRUE]
  /\ sends' = [sends EXCEPT ![d] = @ + 1]
  /\ UNCHANGED <<status, consents>>

Accept(d) ==
  /\ status[d] = "open" /\ reached[d]
  /\ status' = [status EXCEPT ![d] = "done"]
  /\ UNCHANGED <<reached, sends, consents>>

\* One stop refuses every unsent prompt of its thread at once.
Refuse(D) ==
  /\ \A d \in D : status[d] = "open" /\ ~reached[d]
  /\ status' = [d \in Delivery |-> IF d \in D THEN "refused" ELSE status[d]]
  /\ UNCHANGED <<reached, sends, consents>>

Lose(d) ==
  /\ status[d] = "open"
  /\ status' = [status EXCEPT ![d] = "uncertain"]
  /\ UNCHANGED <<reached, sends, consents>>

RetryRefused(d) ==
  /\ status[d] = "refused"
  /\ status' = [status EXCEPT ![d] = "open"]
  /\ UNCHANGED <<reached, sends, consents>>

RetryUncertain(d) ==
  /\ status[d] = "uncertain"
  /\ status' = [status EXCEPT ![d] = "open"]
  /\ reached' = [reached EXCEPT ![d] = FALSE]
  /\ consents' = [consents EXCEPT ![d] = @ + 1]
  /\ UNCHANGED sends

Drop(d) ==
  /\ status[d] \in {"refused", "uncertain"}
  /\ status' = [status EXCEPT ![d] = "dropped"]
  /\ reached' = [reached EXCEPT ![d] = FALSE]
  /\ UNCHANGED <<sends, consents>>

Next ==
  \/ \E d \in Delivery :
       \/ Submit(d) \/ Reach(d) \/ Accept(d) \/ Lose(d)
       \/ RetryRefused(d) \/ RetryUncertain(d) \/ Drop(d)
  \/ \E D \in SUBSET Delivery : Refuse(D)

Spec == Init /\ [][Next]_vars

\* A prompt reaches the provider once, and once more per consent.
NoUnwantedDuplicate == \A d \in Delivery : sends[d] <= 1 + consents[d]

=============================================================================
