------------------------ MODULE CommandAdmissionProofs ------------------------
(***************************************************************************)
(* What CommandAdmission guarantees for every set of envelopes, every size *)
(* and every limit: the counters are the true load, no lane passes its     *)
(* limit, no caller stays blocked without a reason, a lane holds nothing   *)
(* that is not accepted, and a lease carries one continuation.             *)
(***************************************************************************)
EXTENDS CommandAdmission, FiniteSetTheorems, TLAPS

\* Neither bound is inductive alone: a release gives back what the counters say was
\* taken, and a resumed caller may only be admitted because it held nothing while it
\* waited.
IInv == TypeOK /\ Bounded /\ CountersExact /\ NoLostWakeup /\ WaiterHoldsNothing

\* Who owns whom: exactly the live continuations have an owner, each one of its own.
Ownership ==
  /\ \A i \in Item : owner[i] # NoOwner <=> kind[i] = "continuation"
  /\ \A i, j \in Item : owner[i] = owner[j] /\ owner[i] # NoOwner => i = j

\* What the lanes and the leases need on top of it.
LInv == IInv /\ NoGhostEntry /\ Ownership

-----------------------------------------------------------------------------
\* Every part of `accepted` is finite, and its size is a natural number.
LEMMA AcceptedFinite ==
  ASSUME NEW k
  PROVE  /\ Accepted(k) \subseteq Item
         /\ IsFiniteSet(Accepted(k))
         /\ Cardinality(Accepted(k)) \in Nat
         /\ Bytes(Accepted(k)) \in Nat
<1>1. Accepted(k) \in SUBSET Item
  BY DEF Accepted
<1>2. IsFiniteSet(Accepted(k))
  BY <1>1, FS_Subset, ItemAssumption
<1> QED
  BY <1>1, <1>2, FS_CardinalityType, BytesAssumption

\* After `notify` nobody is blocked.
LEMMA NotifyWakes ==
  ASSUME TypeOK, NEW done \in SUBSET Item, Notify(done)
  PROVE  /\ waiting' \in [Item -> {"none", "blocked", "woken"}]
         /\ taker' \in {"ready", "blocked", "woken", "stopped"}
         /\ \A i \in Item : waiting'[i] # "blocked"
         /\ \A i \in Item : waiting'[i] # "none" => i \notin done /\ waiting[i] # "none"
         /\ taker' # "blocked"
BY DEF TypeOK, Notify, Woken

\* Admission of one envelope adds it, and only it, to the accepted ones.
LEMMA AcceptOne ==
  ASSUME TypeOK, NEW i \in Item, NEW k \in {"ordinary", "control", "continuation"},
         kind[i] = "absent", kind' = [kind EXCEPT ![i] = k]
  PROVE  /\ Accepted(k)' = Accepted(k) \cup {i}
         /\ \A m \in {"ordinary", "control", "continuation"} \ {k} : Accepted(m)' = Accepted(m)
         /\ Cardinality(Accepted(k)') = Cardinality(Accepted(k)) + 1
         /\ Bytes(Accepted(k)') = Bytes(Accepted(k)) + Bytes({i})
<1>1. Accepted(k)' = Accepted(k) \cup {i}
  BY DEF Accepted, TypeOK
<1>2. \A m \in {"ordinary", "control", "continuation"} \ {k} : Accepted(m)' = Accepted(m)
  BY DEF Accepted, TypeOK
<1>3. i \notin Accepted(k)
  BY DEF Accepted
<1>4. Cardinality(Accepted(k) \cup {i}) = Cardinality(Accepted(k)) + 1
  BY <1>3, AcceptedFinite, FS_AddElement
<1>5. Bytes(Accepted(k) \cup {i}) = Bytes(Accepted(k)) + Bytes({i})
  <2>1. Accepted(k) \in SUBSET Item /\ {i} \in SUBSET Item /\ Accepted(k) \cap {i} = {}
    BY <1>3, AcceptedFinite
  <2> QED
    BY <2>1, BytesAssumption
<1> QED
  BY <1>1, <1>2, <1>4, <1>5

\* The ordinary tail of `admit` keeps the invariant when the lane is not full.
LEMMA AdmitOrdinaryPreserves ==
  ASSUME IInv, NEW i \in Item, kind[i] = "absent", ~OrdinaryFull(i), AdmitOrdinary(i)
  PROVE  IInv'
<1> USE DEF IInv
<1>1. Bytes({i}) \in Nat
  <2>1. {i} \in SUBSET Item
    OBVIOUS
  <2> QED
    BY <2>1, BytesAssumption
<1>2. /\ waiting' \in [Item -> {"none", "blocked", "woken"}]
      /\ taker' \in {"ready", "blocked", "woken", "stopped"}
      /\ \A j \in Item : waiting'[j] # "blocked"
      /\ taker' # "blocked"
  BY NotifyWakes DEF AdmitOrdinary
<1>3. TypeOK'
  <2>1. kind' \in [Item -> {"absent", "ordinary", "control", "continuation"}]
    BY DEF TypeOK, AdmitOrdinary
  <2>2. ordinaryEntries' \in Nat /\ ordinaryBytes' \in Nat
    BY <1>1 DEF TypeOK, AdmitOrdinary
  <2>3. UNCHANGED <<owner, controlEntries, closed>>
    BY DEF AdmitOrdinary
  <2>4. ordinary' \in Seq(Item) /\ controls' \in Seq(Item)
    BY DEF TypeOK, AdmitOrdinary
  <2> QED
    BY <1>2, <2>1, <2>2, <2>3, <2>4 DEF TypeOK
<1>4. Bounded'
  BY <1>1, LimitAssumption DEF TypeOK, Bounded, AdmitOrdinary, OrdinaryFull
<1>5. CountersExact'
  BY AcceptOne DEF CountersExact, AdmitOrdinary
<1>6. NoLostWakeup'
  BY <1>2 DEF NoLostWakeup
<1>7. WaiterHoldsNothing'
  BY NotifyWakes DEF WaiterHoldsNothing, AdmitOrdinary, TypeOK
<1> QED
  BY <1>3, <1>4, <1>5, <1>6, <1>7

\* `release` of any set of envelopes keeps the invariant, whether or not they are
\* accepted: this is what makes a second release of the same envelope harmless.
LEMMA ReleaseAllPreserves ==
  ASSUME IInv, NEW S \in SUBSET Item, ReleaseAll(S),
         ordinary' \in Seq(Item), controls' \in Seq(Item)
  PROVE  IInv'
<1> USE DEF IInv
<1> DEFINE O == Accepted("ordinary")
           C == Accepted("control")
<1>1. /\ O \subseteq Item /\ IsFiniteSet(O) /\ Cardinality(O) \in Nat /\ Bytes(O) \in Nat
      /\ C \subseteq Item /\ IsFiniteSet(C) /\ Cardinality(C) \in Nat
  BY AcceptedFinite
<1>2. Accepted("ordinary")' = O \ S /\ Accepted("control")' = C \ S
  BY DEF Accepted, ReleaseAll, TypeOK
<1>3. /\ Cardinality(O \ S) = Cardinality(O) - Cardinality(O \cap S)
      /\ Cardinality(C \ S) = Cardinality(C) - Cardinality(C \cap S)
  BY <1>1, FS_Difference
<1>4. Cardinality(O \cap S) \in Nat /\ Cardinality(C \cap S) \in Nat
  <2>1. O \cap S \in SUBSET Item /\ C \cap S \in SUBSET Item
    BY <1>1
  <2>2. IsFiniteSet(O \cap S) /\ IsFiniteSet(C \cap S)
    BY <2>1, FS_Subset, ItemAssumption
  <2> QED
    BY <2>2, FS_CardinalityType
<1>5. Bytes(O) = Bytes(O \ S) + Bytes(O \cap S) /\ Bytes(O \ S) \in Nat /\ Bytes(O \cap S) \in Nat
  <2>1. /\ O \ S \in SUBSET Item /\ O \cap S \in SUBSET Item
        /\ (O \ S) \cap (O \cap S) = {} /\ (O \ S) \cup (O \cap S) = O
    BY <1>1
  <2> QED
    BY <2>1, BytesAssumption
<1>6. S \cap O = O \cap S /\ S \cap C = C \cap S
  OBVIOUS
<1>7. /\ ordinaryEntries' = ordinaryEntries - Cardinality(O \cap S)
      /\ ordinaryBytes' = ordinaryBytes - Bytes(O \cap S)
      /\ controlEntries' = controlEntries - Cardinality(C \cap S)
  BY <1>6 DEF ReleaseAll
<1>8. /\ waiting' \in [Item -> {"none", "blocked", "woken"}]
      /\ taker' \in {"ready", "blocked", "woken", "stopped"}
      /\ \A j \in Item : waiting'[j] # "blocked"
      /\ taker' # "blocked"
  BY NotifyWakes DEF ReleaseAll
<1> HIDE DEF O, C
<1>load. /\ ordinaryEntries' = Cardinality(O \ S) /\ ordinaryBytes' = Bytes(O \ S)
       /\ controlEntries' = Cardinality(C \ S)
  <2>1. ordinaryEntries = Cardinality(O) /\ ordinaryBytes = Bytes(O) /\ controlEntries = Cardinality(C)
    BY DEF CountersExact, O, C
  <2> QED
    BY <1>1, <1>3, <1>4, <1>5, <1>7, <2>1
<1>9. CountersExact'
  BY <1>2, <1>load DEF CountersExact
<1>10. Bounded'
  BY <1>4, <1>5, <1>7, LimitAssumption DEF TypeOK, Bounded
<1>11. TypeOK'
  <2>1. kind' \in [Item -> {"absent", "ordinary", "control", "continuation"}]
    BY DEF TypeOK, ReleaseAll
  <2>2. owner' \in [Item -> Item \cup {NoOwner}]
    BY DEF TypeOK, ReleaseAll
  <2>3. ordinaryEntries' \in Nat /\ ordinaryBytes' \in Nat /\ controlEntries' \in Nat
    <3>1. ordinaryBytes' \in Nat
      BY <1>5, <1>load
    <3>2. O \ S \in SUBSET Item /\ C \ S \in SUBSET Item
      BY <1>1
    <3>3. IsFiniteSet(O \ S) /\ IsFiniteSet(C \ S)
      BY <3>2, FS_Subset, ItemAssumption
    <3> QED
      BY <1>load, <3>1, <3>3, FS_CardinalityType
  <2>4. closed' \in BOOLEAN
    BY DEF TypeOK, ReleaseAll
  <2> QED
    BY <1>8, <2>1, <2>2, <2>3, <2>4 DEF TypeOK
<1>12. NoLostWakeup'
  BY <1>8 DEF NoLostWakeup
<1>13. WaiterHoldsNothing'
  BY NotifyWakes DEF WaiterHoldsNothing, ReleaseAll, TypeOK
<1> QED
  BY <1>9, <1>10, <1>11, <1>12, <1>13

-----------------------------------------------------------------------------
\* Splicing the entries of S out of a lane leaves exactly the others on it, and none
\* of them twice.
LEMMA SplicedLane ==
  ASSUME NEW lane \in Seq(Item), NEW S
  PROVE  /\ Spliced(lane, S) \in Seq(Item)
         /\ Range(Spliced(lane, S)) = Range(lane) \ S
         /\ IsInjective(lane) => IsInjective(Spliced(lane, S))
<1> DEFINE Kept     == {n \in DOMAIN lane : lane[n] \notin S}
           UpTo(n)  == {m \in Kept : m <= n}
           Place(n) == Cardinality(UpTo(n))
           N        == Cardinality(Kept)
           pick(p)  == CHOOSE n \in Kept : Place(n) = p
           place    == [n \in Kept |-> Place(n)]
<1>1. Kept \subseteq 1 .. Len(lane) /\ DOMAIN lane = 1 .. Len(lane) /\ Len(lane) \in Nat
  OBVIOUS
<1>2. IsFiniteSet(Kept) /\ N \in Nat
  <2>1. IsFiniteSet(1 .. Len(lane))
    BY <1>1, FS_Interval
  <2> QED
    BY <1>1, <2>1, FS_Subset, FS_CardinalityType
<1>3. ASSUME NEW n \in Kept
      PROVE  /\ IsFiniteSet(UpTo(n)) /\ Place(n) \in 1 .. N
             /\ \A m \in Kept : n < m => Place(n) < Place(m)
  <2>1. ASSUME NEW m \in Kept
        PROVE  IsFiniteSet(UpTo(m)) /\ Place(m) \in Nat /\ Place(m) <= N
    <3>1. UpTo(m) \in SUBSET Kept
      OBVIOUS
    <3> QED
      BY <1>2, <3>1, FS_Subset, FS_CardinalityType
  <2>2. Place(n) # 0
    <3>1. n \in UpTo(n)
      BY <1>1
    <3> QED
      BY <2>1, <3>1, FS_EmptySet
  <2>3. ASSUME NEW m \in Kept, n < m
        PROVE  Place(n) < Place(m)
    <3>1. UpTo(n) \in SUBSET UpTo(m) /\ m \in UpTo(m) /\ m \notin UpTo(n)
      BY <1>1, <2>3
    <3>2. UpTo(n) # UpTo(m)
      BY <3>1
    <3> HIDE DEF UpTo
    <3>3. IsFiniteSet(UpTo(m)) /\ Cardinality(UpTo(m)) \in Nat /\ Cardinality(UpTo(n)) \in Nat
      BY <2>1
    <3>4. Cardinality(UpTo(n)) <= Cardinality(UpTo(m)) /\ Cardinality(UpTo(n)) # Cardinality(UpTo(m))
      BY <3>1, <3>2, <3>3, FS_Subset
    <3> QED
      BY <3>3, <3>4
  <2> HIDE DEF UpTo, N
  <2> QED
    BY <1>2, <2>1, <2>2, <2>3
<1>4. \A p \in 1 .. N : \E n \in Kept : Place(n) = p
  <2>1. place \in [Kept -> 1 .. N]
    BY <1>3
  <2>2. ASSUME NEW n \in Kept, NEW m \in Kept, place[n] = place[m]
        PROVE  n = m
    <3>1. n \in Nat /\ m \in Nat
      BY <1>1
    <3>2. Place(n) = Place(m)
      BY <2>2
    <3>3. Place(n) \in 1 .. N /\ Place(m) \in 1 .. N
      BY <1>3
    <3>4. ~(n < m) /\ ~(m < n)
      <4> HIDE DEF Kept
      <4>1. (n < m => Place(n) < Place(m)) /\ (m < n => Place(m) < Place(n))
        BY <1>3
      <4> HIDE DEF Place
      <4> QED
        BY <3>2, <3>3, <4>1
    <3> QED
      BY <3>1, <3>4
  <2>3. place \in Injection(Kept, 1 .. N)
    BY <2>1, <2>2 DEF Injection, IsInjective
  <2>4. IsFiniteSet(1 .. N) /\ Cardinality(1 .. N) = N
    BY <1>2, FS_Interval
  <2> HIDE DEF place, N
  <2>5. place \in Surjection(Kept, 1 .. N)
    BY <2>3, <2>4, FS_Injection DEF N
  <2>6. \A p \in 1 .. N : \E n \in Kept : place[n] = p
    BY <2>5 DEF Surjection
  <2> QED
    BY <2>6 DEF place
<1>5. \A p \in 1 .. N : pick(p) \in Kept /\ Place(pick(p)) = p
  <2> HIDE DEF Kept, Place, N
  <2> QED
    BY <1>4
<1>6. Spliced(lane, S) = [p \in 1 .. N |-> lane[pick(p)]]
  BY DEF Spliced
<1>7. \A n \in Kept : pick(Place(n)) = n /\ Place(n) \in 1 .. N
  <2> TAKE n \in Kept
  <2>1. Place(n) \in 1 .. N
    BY <1>3
  <2>2. pick(Place(n)) \in Kept /\ Place(pick(Place(n))) = Place(n)
    BY <1>5, <2>1
  <2>3. ASSUME NEW a \in Kept, NEW b \in Kept, Place(a) = Place(b)
        PROVE  a = b
    <3>1. (a < b => Place(a) < Place(b)) /\ (b < a => Place(b) < Place(a))
      BY <1>3
    <3>2. Place(a) \in 1 .. N /\ a \in Nat /\ b \in Nat
      BY <1>1, <1>3
    <3> HIDE DEF Place, Kept
    <3> QED
      BY <2>3, <3>1, <3>2
  <2> QED
    BY <2>1, <2>2, <2>3
<1>8. \A n \in Kept : n \in DOMAIN lane /\ lane[n] \in Item /\ lane[n] \notin S
  BY <1>1
<1>9. Range(lane) \ S = {lane[n] : n \in Kept}
  BY DEF Range
<1> HIDE DEF Kept, Place, N, pick
<1>10. Spliced(lane, S) \in Seq(Item)
  BY <1>2, <1>5, <1>6, <1>8
<1>11. Range(Spliced(lane, S)) = {lane[n] : n \in Kept}
  BY <1>5, <1>6, <1>7 DEF Range
<1>12. ASSUME IsInjective(lane) PROVE IsInjective(Spliced(lane, S))
  <2>1. \A n, m \in Kept : lane[n] = lane[m] => n = m
    BY <1>8, <1>12 DEF IsInjective
  <2>2. \A p, r \in 1 .. N : pick(p) = pick(r) => p = r
    BY <1>5
  <2> QED
    BY <1>5, <1>6, <2>1, <2>2 DEF IsInjective
<1> QED
  BY <1>9, <1>10, <1>11, <1>12

\* A new entry goes to the end of a lane, the worker takes the first one.
LEMMA LaneEnds ==
  ASSUME NEW lane \in Seq(Item), IsInjective(lane)
  PROVE  /\ \A i \in Item : Range(Append(lane, i)) = Range(lane) \cup {i}
         /\ \A i \in Item \ Range(lane) : IsInjective(Append(lane, i))
         /\ lane # <<>> => Tail(lane) \in Seq(Item) /\ IsInjective(Tail(lane))
                                                  /\ Range(Tail(lane)) \subseteq Range(lane)
<1>0. Len(lane) \in Nat /\ DOMAIN lane = 1 .. Len(lane)
  OBVIOUS
<1>1. ASSUME NEW i \in Item
      PROVE  /\ Range(Append(lane, i)) = Range(lane) \cup {i}
             /\ i \notin Range(lane) => IsInjective(Append(lane, i))
  <2> DEFINE long == Append(lane, i)
  <2>1. /\ DOMAIN long = 1 .. Len(lane) + 1 /\ long[Len(lane) + 1] = i
        /\ \A n \in 1 .. Len(lane) : long[n] = lane[n]
    OBVIOUS
  <2>2. \A n \in 1 .. Len(lane) + 1 : n \in 1 .. Len(lane) \/ n = Len(lane) + 1
    BY <1>0
  <2>3. Len(lane) + 1 \in 1 .. Len(lane) + 1 /\ 1 .. Len(lane) \subseteq 1 .. Len(lane) + 1
    BY <1>0
  <2> HIDE DEF long
  <2>4. Range(long) = Range(lane) \cup {i}
    BY <1>0, <2>1, <2>2, <2>3 DEF Range
  <2>5. i \notin Range(lane) => IsInjective(long)
    BY <1>0, <2>1, <2>2, <2>3 DEF Range, IsInjective
  <2> QED
    BY <2>4, <2>5 DEF long
<1>2. ASSUME lane # <<>>
      PROVE  Tail(lane) \in Seq(Item) /\ IsInjective(Tail(lane)) /\ Range(Tail(lane)) \subseteq Range(lane)
  <2>1. /\ Tail(lane) \in Seq(Item) /\ DOMAIN Tail(lane) = 1 .. Len(lane) - 1
        /\ \A n \in 1 .. Len(lane) - 1 : Tail(lane)[n] = lane[n + 1]
    BY <1>2
  <2>2. \A n \in 1 .. Len(lane) - 1 : n + 1 \in 1 .. Len(lane) /\ n \in Int
    BY <1>0
  <2>3. \A n, m \in 1 .. Len(lane) - 1 : n + 1 = m + 1 => n = m
    BY <1>0
  <2> QED
    BY <1>0, <2>1, <2>2, <2>3 DEF Range, IsInjective
<1> QED
  BY <1>1, <1>2

-----------------------------------------------------------------------------
\* The empty queue satisfies the invariant.
LEMMA InitEstablishes == Init => IInv
<1> SUFFICES ASSUME Init PROVE IInv
  OBVIOUS
<1>1. Accepted("ordinary") = {} /\ Accepted("control") = {}
  BY DEF Init, Accepted
<1>2. CountersExact
  <2>1. Cardinality({}) = 0 /\ Bytes({}) = 0
    <3>1. Cardinality({}) = 0
      BY FS_EmptySet
    <3>2. Bytes({}) = 0
      BY BytesAssumption
    <3> QED
      BY <3>1, <3>2
  <2> QED
    BY <1>1, <2>1 DEF Init, CountersExact
<1>3. TypeOK /\ NoLostWakeup /\ WaiterHoldsNothing
  <2>1. TypeOK
    <3>1. kind \in [Item -> {"absent", "ordinary", "control", "continuation"}]
      BY DEF Init
    <3>2. owner \in [Item -> Item \cup {NoOwner}]
      BY DEF Init
    <3>3. waiting \in [Item -> {"none", "blocked", "woken"}]
      BY DEF Init
    <3>4. ordinaryEntries \in Nat /\ ordinaryBytes \in Nat /\ controlEntries \in Nat
      BY DEF Init
    <3>5. closed \in BOOLEAN /\ taker \in {"ready", "blocked", "woken", "stopped"}
      BY DEF Init
    <3>6. ordinary \in Seq(Item) /\ controls \in Seq(Item)
      BY DEF Init
    <3> QED
      BY <3>1, <3>2, <3>3, <3>4, <3>5, <3>6 DEF TypeOK
  <2>2. NoLostWakeup
    BY DEF Init, NoLostWakeup
  <2>3. WaiterHoldsNothing
    BY DEF Init, WaiterHoldsNothing
  <2> QED
    BY <2>1, <2>2, <2>3
<1>4. Bounded
  BY LimitAssumption DEF Init, Bounded
<1> QED
  BY <1>2, <1>3, <1>4 DEF IInv

\* A step that leaves the accepted envelopes and the counters alone only has to
\* respect the types and the waiters.
LEMMA LoadUnchanged ==
  ASSUME IInv, UNCHANGED <<kind, owner, counters>>,
         ordinary' \in Seq(Item), controls' \in Seq(Item),
         closed' \in BOOLEAN,
         waiting' \in [Item -> {"none", "blocked", "woken"}],
         taker' \in {"ready", "blocked", "woken", "stopped"},
         \A i \in Item : waiting'[i] # "none" => kind[i] = "absent",
         NoLostWakeup'
  PROVE  IInv'
<1>1. TypeOK' /\ Bounded'
  BY DEF IInv, TypeOK, Bounded, counters
<1>2. CountersExact'
  BY DEF IInv, CountersExact, Accepted, counters
<1>3. WaiterHoldsNothing'
  BY DEF WaiterHoldsNothing
<1> QED
  BY <1>1, <1>2, <1>3 DEF IInv

\* Every step of the queue keeps the invariant.
LEMMA NextPreserves == IInv /\ [Next]_vars => IInv'
<1> SUFFICES ASSUME IInv, [Next]_vars PROVE IInv'
  OBVIOUS
<1>t. TypeOK /\ NoLostWakeup /\ WaiterHoldsNothing
  BY DEF IInv
<1>1. ASSUME NEW i \in Item, OfferOrdinary(i) PROVE IInv'
  BY <1>1, AdmitOrdinaryPreserves DEF OfferOrdinary, Fresh
<1>2. ASSUME NEW i \in Item, OfferControl(i) PROVE IInv'
  <2>1. Notify({i}) /\ kind[i] = "absent"
    BY <1>2 DEF OfferControl, Fresh
  <2>2. /\ waiting' \in [Item -> {"none", "blocked", "woken"}]
        /\ taker' \in {"ready", "blocked", "woken", "stopped"}
        /\ \A j \in Item : waiting'[j] # "blocked"
        /\ \A j \in Item : waiting'[j] # "none" => j # i /\ waiting[j] # "none"
        /\ taker' # "blocked"
    BY <1>t, <2>1, NotifyWakes
  <2>3. TypeOK'
    BY <1>2, <1>t, <2>2 DEF OfferControl, TypeOK
  <2>4. Bounded'
    BY <1>2, <1>t, LimitAssumption DEF IInv, TypeOK, Bounded, OfferControl, ControlFull
  <2>5. CountersExact'
    BY <1>2, <1>t, <2>1, AcceptOne DEF IInv, CountersExact, OfferControl
  <2>6. NoLostWakeup' /\ WaiterHoldsNothing'
    BY <1>2, <1>t, <2>2 DEF NoLostWakeup, WaiterHoldsNothing, OfferControl, TypeOK
  <2> QED
    BY <2>3, <2>4, <2>5, <2>6 DEF IInv
<1>3. ASSUME NEW i \in Item, EnqueueWaits(i) PROVE IInv'
  <2>1. NoLostWakeup'
    BY <1>3, <1>t DEF EnqueueWaits, NoLostWakeup, OrdinaryFull, TypeOK, lanes, counters
  <2>2. \A j \in Item : waiting'[j] # "none" => kind[j] = "absent"
    BY <1>3, <1>t DEF EnqueueWaits, WaiterHoldsNothing, Fresh, TypeOK
  <2> QED
    BY <1>3, <1>t, <2>1, <2>2, LoadUnchanged DEF EnqueueWaits, TypeOK, lanes
<1>4. ASSUME NEW i \in Item, EnqueueResumes(i) PROVE IInv'
  <2>1. kind[i] = "absent"
    BY <1>4, <1>t DEF EnqueueResumes, WaiterHoldsNothing
  <2>2. CASE ~closed /\ ~OrdinaryFull(i) /\ AdmitOrdinary(i)
    BY <2>1, <2>2, AdmitOrdinaryPreserves
  <2>3. CASE /\ closed \/ OrdinaryFull(i)
             /\ waiting' = [waiting EXCEPT ![i] = IF closed THEN "none" ELSE "blocked"]
             /\ UNCHANGED <<lanes, kind, owner, counters, closed, taker>>
    <3>1. NoLostWakeup'
      BY <1>t, <2>3 DEF NoLostWakeup, OrdinaryFull, TypeOK, lanes, counters
    <3>2. \A j \in Item : waiting'[j] # "none" => kind[j] = "absent"
      BY <1>t, <2>1, <2>3 DEF WaiterHoldsNothing, TypeOK
    <3> QED
      BY <1>t, <2>3, <3>1, <3>2, LoadUnchanged DEF TypeOK, lanes
  <2> QED
    BY <1>4, <2>2, <2>3 DEF EnqueueResumes
<1>5. ASSUME NEW i \in Item, EnqueueInterrupted(i) PROVE IInv'
  <2>1. NoLostWakeup'
    BY <1>5, <1>t DEF EnqueueInterrupted, NoLostWakeup, OrdinaryFull, TypeOK, lanes, counters
  <2>2. \A j \in Item : waiting'[j] # "none" => kind[j] = "absent"
    BY <1>5, <1>t DEF EnqueueInterrupted, WaiterHoldsNothing, TypeOK
  <2> QED
    BY <1>5, <1>t, <2>1, <2>2, LoadUnchanged DEF EnqueueInterrupted, TypeOK, lanes
<1>6. ASSUME NEW i \in Item, Release(i) PROVE IInv'
  BY <1>6, <1>t, ReleaseAllPreserves DEF Release, TypeOK, lanes
<1>7. ASSUME NEW i \in Item, NEW o \in Item, OfferContinuation(i, o) PROVE IInv'
  <2>1. Notify({i}) /\ kind[i] = "absent"
    BY <1>7 DEF OfferContinuation, Fresh
  <2>2. /\ waiting' \in [Item -> {"none", "blocked", "woken"}]
        /\ taker' \in {"ready", "blocked", "woken", "stopped"}
        /\ \A j \in Item : waiting'[j] # "blocked"
        /\ \A j \in Item : waiting'[j] # "none" => j # i /\ waiting[j] # "none"
        /\ taker' # "blocked"
    BY <1>t, <2>1, NotifyWakes
  <2>3. TypeOK'
    BY <1>7, <1>t, <2>2 DEF OfferContinuation, TypeOK, counters
  <2>4. Bounded'
    BY <1>7 DEF IInv, Bounded, OfferContinuation, counters
  <2>5. CountersExact'
    BY <1>7, <1>t, <2>1, AcceptOne DEF IInv, CountersExact, OfferContinuation, counters
  <2>6. NoLostWakeup' /\ WaiterHoldsNothing'
    BY <1>7, <1>t, <2>2 DEF NoLostWakeup, WaiterHoldsNothing, OfferContinuation, TypeOK
  <2> QED
    BY <2>3, <2>4, <2>5, <2>6 DEF IInv
<1>8. ASSUME NEW S \in SUBSET Item, CancelQueued(S) PROVE IInv'
  <2>1. ordinary' \in Seq(Item) /\ controls' \in Seq(Item)
    BY <1>8, <1>t, SplicedLane DEF CancelQueued, TypeOK
  <2> QED
    BY <1>8, <2>1, ReleaseAllPreserves DEF CancelQueued
<1>9. ASSUME Take PROVE IInv'
  <2>1. UNCHANGED <<kind, owner, counters, closed, waiting>>
    BY <1>9 DEF Take, TakeControl, TakeOrdinary, TakeWaits
  <2>2. taker' \in {"ready", "blocked", "stopped"}
    BY <1>9 DEF Take, TakeControl, TakeOrdinary, TakeWaits
  <2>3. taker' = "blocked" => ~closed /\ controls' = <<>> /\ ordinary' = <<>>
    BY <1>9 DEF Take, TakeControl, TakeOrdinary, TakeWaits, lanes
  <2>4. NoLostWakeup'
    BY <1>t, <2>1, <2>3 DEF NoLostWakeup, OrdinaryFull, counters
  <2>5. ordinary' \in Seq(Item) /\ controls' \in Seq(Item)
    <3>1. \A lane \in Seq(Item) : lane # <<>> => Tail(lane) \in Seq(Item)
      OBVIOUS
    <3>2. ordinary \in Seq(Item) /\ controls \in Seq(Item)
      BY <1>t DEF TypeOK
    <3>3. /\ controls' = controls \/ (controls # <<>> /\ controls' = Tail(controls))
          /\ ordinary' = ordinary \/ (ordinary # <<>> /\ ordinary' = Tail(ordinary))
      BY <1>9 DEF Take, TakeControl, TakeOrdinary, TakeWaits, lanes
    <3> QED
      BY <3>1, <3>2, <3>3
  <2> QED
    BY <1>t, <2>1, <2>2, <2>4, <2>5, LoadUnchanged DEF TypeOK, WaiterHoldsNothing
<1>10. ASSUME Close PROVE IInv'
  <2>1. /\ waiting' \in [Item -> {"none", "blocked", "woken"}]
        /\ taker' \in {"ready", "blocked", "woken", "stopped"}
        /\ \A j \in Item : waiting'[j] # "blocked"
        /\ \A j \in Item : waiting'[j] # "none" => waiting[j] # "none"
        /\ taker' # "blocked"
    BY <1>10, <1>t, NotifyWakes DEF Close
  <2>2. NoLostWakeup' /\ \A j \in Item : waiting'[j] # "none" => kind[j] = "absent"
    BY <1>t, <2>1 DEF NoLostWakeup, WaiterHoldsNothing
  <2> QED
    BY <1>10, <1>t, <2>1, <2>2, LoadUnchanged DEF Close, TypeOK, lanes
<1>11. CASE UNCHANGED vars
  <2>1. NoLostWakeup'
    BY <1>t, <1>11 DEF NoLostWakeup, OrdinaryFull, vars, lanes, counters
  <2> QED
    BY <1>t, <1>11, <2>1, LoadUnchanged DEF vars, TypeOK, WaiterHoldsNothing, lanes
<1> QED
  BY <1>1, <1>2, <1>3, <1>4, <1>5, <1>6, <1>7, <1>8, <1>9, <1>10, <1>11 DEF Next

\* The inductive invariant holds in every behaviour of the queue.
THEOREM Invariance == Spec => []IInv
BY InitEstablishes, NextPreserves, PTL DEF Spec

\* The variables keep their types.
THEOREM TypeCorrect == Spec => []TypeOK
<1>1. IInv => TypeOK
  BY DEF IInv
<1> QED
  BY <1>1, Invariance, PTL

\* For every limit and every set of commands, neither lane of makeCommandAdmission
\* passes its limit, and the counters it decides by are the true load.
THEOREM AdmissionIsBounded == Spec => [](Bounded /\ CountersExact)
<1>1. IInv => Bounded /\ CountersExact
  BY DEF IInv
<1> QED
  BY <1>1, Invariance, PTL

\* No `enqueue` or `take` call is left blocked on a notification that has already
\* been given: a blocked caller has a reason to wait, and holds nothing.
THEOREM WakeupsAreNotLost == Spec => [](NoLostWakeup /\ WaiterHoldsNothing)
<1>1. IInv => NoLostWakeup /\ WaiterHoldsNothing
  BY DEF IInv
<1> QED
  BY <1>1, Invariance, PTL
-----------------------------------------------------------------------------
\* The empty queue has no entries and no owners.
LEMMA LanesInit == Init => NoGhostEntry /\ Ownership
<1> SUFFICES ASSUME Init PROVE NoGhostEntry /\ Ownership
  OBVIOUS
<1>1. NoGhostEntry
  BY DEF Init, NoGhostEntry, IsInjective, Range
<1>2. Ownership
  BY DEF Init, Ownership
<1> QED
  BY <1>1, <1>2

\* Only lanes, kinds, owners and `closed` matter to the lanes and the leases.
LEMMA LanesUnchanged ==
  ASSUME NoGhostEntry, Ownership, UNCHANGED <<lanes, kind, owner>>, closed => closed'
  PROVE  NoGhostEntry' /\ Ownership'
<1>1. NoGhostEntry'
  BY DEF NoGhostEntry, lanes, Range, IsInjective
<1>2. Ownership'
  BY DEF Ownership
<1> QED
  BY <1>1, <1>2

\* The entry of a new envelope is the only one of it: what is not accepted is on no lane.
LEMMA AdmitOrdinaryLanes ==
  ASSUME TypeOK, NoGhostEntry, Ownership, NEW i \in Item,
         kind[i] = "absent", ~closed, AdmitOrdinary(i)
  PROVE  NoGhostEntry' /\ Ownership'
<1>1. ordinary' = Append(ordinary, i) /\ UNCHANGED <<controls, owner, closed>>
  BY DEF AdmitOrdinary
<1>2. kind' = [kind EXCEPT ![i] = "ordinary"]
  BY DEF AdmitOrdinary
<1>3. i \notin Range(ordinary) /\ i \notin Range(controls)
  BY DEF NoGhostEntry
<1>4. Range(ordinary)' = Range(ordinary) \cup {i} /\ IsInjective(ordinary)'
  BY <1>1, <1>3, LaneEnds DEF NoGhostEntry, TypeOK
<1>5. Range(ordinary) \subseteq Item /\ Range(controls) \subseteq Item
  BY DEF TypeOK, Range
<1>6. \A j \in Item : kind'[j] = IF j = i THEN "ordinary" ELSE kind[j]
  BY <1>2 DEF TypeOK
<1>7. NoGhostEntry'
  <2>1. IsInjective(controls)' /\ Range(controls)' = Range(controls)
    BY <1>1 DEF NoGhostEntry
  <2> QED
    BY <1>1, <1>3, <1>4, <1>5, <1>6, <2>1 DEF NoGhostEntry
<1>8. Ownership'
  BY <1>1, <1>6 DEF Ownership
<1> QED
  BY <1>7, <1>8

\* A control or a continuation enters the control lane in the same way.
LEMMA ControlLane ==
  ASSUME TypeOK, NoGhostEntry, NEW i \in Item, NEW k \in {"control", "continuation"},
         kind[i] = "absent", ~closed, UNCHANGED <<ordinary, closed>>,
         kind' = [kind EXCEPT ![i] = k], controls' = Append(controls, i)
  PROVE  NoGhostEntry'
<1>3. i \notin Range(ordinary) /\ i \notin Range(controls)
  BY DEF NoGhostEntry
<1>4. Range(controls)' = Range(controls) \cup {i} /\ IsInjective(controls)'
  BY <1>3, LaneEnds DEF NoGhostEntry, TypeOK
<1>5. Range(ordinary) \subseteq Item /\ Range(controls) \subseteq Item
  BY DEF TypeOK, Range
<1>6. \A j \in Item : kind'[j] = IF j = i THEN k ELSE kind[j]
  BY DEF TypeOK
<1>7. IsInjective(ordinary)' /\ Range(ordinary)' = Range(ordinary)
  BY DEF NoGhostEntry
<1> QED
  BY <1>3, <1>4, <1>5, <1>6, <1>7 DEF NoGhostEntry

\* What is released owns nothing any more.
LEMMA ReleaseOwners ==
  ASSUME TypeOK, Ownership, NEW S \in SUBSET Item, ReleaseAll(S)
  PROVE  /\ Ownership'
         /\ \A j \in Item : kind'[j] = IF j \in S THEN "absent" ELSE kind[j]
         /\ closed' = closed
<1>1. \A j \in Item : /\ kind'[j] = IF j \in S THEN "absent" ELSE kind[j]
                     /\ owner'[j] = IF j \in S THEN NoOwner ELSE owner[j]
  BY DEF ReleaseAll
<1>2. Ownership'
  BY <1>1 DEF Ownership
<1> QED
  BY <1>1, <1>2 DEF ReleaseAll

\* Every step keeps lane, reservation and lease together.
LEMMA LanesStep == LInv /\ [Next]_vars => LInv'
<1> SUFFICES ASSUME LInv, [Next]_vars PROVE NoGhostEntry' /\ Ownership'
  BY NextPreserves DEF LInv
<1>t. TypeOK /\ NoGhostEntry /\ Ownership /\ WaiterHoldsNothing
  BY DEF LInv, IInv
<1>u. Range(ordinary) \subseteq Item /\ Range(controls) \subseteq Item
  BY <1>t DEF TypeOK, Range
<1>1. ASSUME NEW i \in Item, OfferOrdinary(i) PROVE NoGhostEntry' /\ Ownership'
  BY <1>1, <1>t, AdmitOrdinaryLanes DEF OfferOrdinary, Fresh
<1>2. ASSUME NEW i \in Item, OfferControl(i) PROVE NoGhostEntry' /\ Ownership'
  <2>1. NoGhostEntry'
    BY <1>2, <1>t, ControlLane DEF OfferControl, Fresh
  <2>2. \A j \in Item : kind'[j] = IF j = i THEN "control" ELSE kind[j]
    BY <1>2, <1>t DEF OfferControl, TypeOK
  <2>3. Ownership'
    BY <1>2, <1>t, <2>2 DEF OfferControl, Ownership, Fresh
  <2> QED
    BY <2>1, <2>3
<1>3. ASSUME NEW i \in Item, EnqueueWaits(i) \/ EnqueueInterrupted(i) PROVE NoGhostEntry' /\ Ownership'
  BY <1>3, <1>t, LanesUnchanged DEF EnqueueWaits, EnqueueInterrupted
<1>4. ASSUME NEW i \in Item, EnqueueResumes(i) PROVE NoGhostEntry' /\ Ownership'
  <2>1. CASE ~closed /\ ~OrdinaryFull(i) /\ AdmitOrdinary(i)
    <3>1. kind[i] = "absent"
      BY <1>4, <1>t DEF EnqueueResumes, WaiterHoldsNothing
    <3> QED
      BY <1>t, <2>1, <3>1, AdmitOrdinaryLanes
  <2>2. CASE UNCHANGED <<lanes, kind, owner, counters, closed, taker>>
    BY <1>t, <2>2, LanesUnchanged
  <2> QED
    BY <1>4, <2>1, <2>2 DEF EnqueueResumes
<1>5. ASSUME NEW i \in Item, NEW o \in Item, OfferContinuation(i, o) PROVE NoGhostEntry' /\ Ownership'
  <2>1. NoGhostEntry'
    BY <1>5, <1>t, ControlLane DEF OfferContinuation, Fresh
  <2>2. \A j \in Item : /\ kind'[j] = IF j = i THEN "continuation" ELSE kind[j]
                       /\ owner'[j] = IF j = i THEN o ELSE owner[j]
    BY <1>5, <1>t DEF OfferContinuation, TypeOK
  <2>3. o # NoOwner /\ \A j \in Item : owner[j] # o
    BY <1>5, ItemAssumption DEF OfferContinuation
  <2>4. Ownership'
    BY <1>t, <2>2, <2>3 DEF Ownership
  <2> QED
    BY <2>1, <2>4
<1>6. ASSUME NEW i \in Item, Release(i) PROVE NoGhostEntry' /\ Ownership'
  <2>1. /\ Ownership' /\ closed' = closed /\ UNCHANGED lanes
        /\ \A j \in Item : kind'[j] = IF j = i THEN "absent" ELSE kind[j]
    BY <1>6, <1>t, ReleaseOwners DEF Release
  <2>2. UNCHANGED <<ordinary, controls>> /\ Range(ordinary)' = Range(ordinary)
                                        /\ Range(controls)' = Range(controls)
    BY <2>1 DEF lanes
  <2>3. ~closed => i \notin Range(ordinary) /\ i \notin Range(controls)
    BY <1>6 DEF Release, Queued
  <2>4. NoGhostEntry'
    BY <1>t, <1>u, <2>1, <2>2, <2>3 DEF NoGhostEntry
  <2> QED
    BY <2>1, <2>4
<1>7. ASSUME NEW S \in SUBSET Item, CancelQueued(S) PROVE NoGhostEntry' /\ Ownership'
  <2>1. /\ Ownership' /\ closed' = closed /\ UNCHANGED controls
        /\ \A j \in Item : kind'[j] = IF j \in S THEN "absent" ELSE kind[j]
    BY <1>7, <1>t, ReleaseOwners DEF CancelQueued
  <2>2. Range(ordinary)' = Range(ordinary) \ S /\ IsInjective(ordinary)'
    BY <1>7, <1>t, SplicedLane DEF CancelQueued, TypeOK, NoGhostEntry
  <2>3. Range(controls)' = Range(controls) /\ IsInjective(controls)'
    BY <1>t, <2>1 DEF NoGhostEntry
  <2>4. ~closed => Range(controls) \cap S = {}
    <3>1. S \subseteq Range(ordinary)
      BY <1>7 DEF CancelQueued
    <3> QED
      BY <1>t, <3>1 DEF NoGhostEntry
  <2>5. NoGhostEntry'
    BY <1>t, <1>u, <2>1, <2>2, <2>3, <2>4 DEF NoGhostEntry
  <2> QED
    BY <2>1, <2>5
<1>8. ASSUME TakeControl PROVE NoGhostEntry' /\ Ownership'
  <2>1. UNCHANGED <<ordinary, kind, owner, closed>> /\ controls # <<>> /\ controls' = Tail(controls)
    BY <1>8 DEF TakeControl
  <2>2. IsInjective(controls)' /\ Range(controls)' \subseteq Range(controls)
    BY <1>t, <2>1, LaneEnds DEF TypeOK, NoGhostEntry
  <2>3. IsInjective(ordinary)' /\ Range(ordinary)' = Range(ordinary)
    BY <1>t, <2>1 DEF NoGhostEntry
  <2> QED
    BY <1>t, <2>1, <2>2, <2>3 DEF NoGhostEntry, Ownership
<1>9. ASSUME TakeOrdinary PROVE NoGhostEntry' /\ Ownership'
  <2>1. UNCHANGED <<controls, kind, owner, closed>> /\ ordinary # <<>> /\ ordinary' = Tail(ordinary)
    BY <1>9 DEF TakeOrdinary
  <2>2. IsInjective(ordinary)' /\ Range(ordinary)' \subseteq Range(ordinary)
    BY <1>t, <2>1, LaneEnds DEF TypeOK, NoGhostEntry
  <2>3. IsInjective(controls)' /\ Range(controls)' = Range(controls)
    BY <1>t, <2>1 DEF NoGhostEntry
  <2> QED
    BY <1>t, <2>1, <2>2, <2>3 DEF NoGhostEntry, Ownership
<1>10. ASSUME TakeWaits PROVE NoGhostEntry' /\ Ownership'
  BY <1>10, <1>t, LanesUnchanged DEF TakeWaits
<1>11. ASSUME Close PROVE NoGhostEntry' /\ Ownership'
  BY <1>11, <1>t, LanesUnchanged DEF Close
<1>12. CASE UNCHANGED vars
  BY <1>12, <1>t, LanesUnchanged DEF vars
<1> QED
  BY <1>1, <1>2, <1>3, <1>4, <1>5, <1>6, <1>7, <1>8, <1>9, <1>10, <1>11, <1>12 DEF Next, Take

\* The books of makeCommandAdmission are right for every set of commands: the counters are
\* the true load, no lane holds an entry that is not accepted (or one twice), a caller that
\* waits holds nothing, and a control's lease carries at most one continuation.
THEOREM BooksAreExact == Spec => []AccountingExact
<1>1. Init => LInv
  BY InitEstablishes, LanesInit DEF LInv
<1>2. Spec => []LInv
  BY <1>1, LanesStep, PTL DEF Spec
<1>3. LInv => AccountingExact
  <2> SUFFICES ASSUME LInv PROVE AccountingExact
    OBVIOUS
  <2>1. OneContinuation
    BY DEF LInv, Ownership, OneContinuation, Accepted
  <2> QED
    BY <2>1 DEF LInv, IInv, AccountingExact
<1> QED
  BY <1>2, <1>3, PTL
=============================================================================
