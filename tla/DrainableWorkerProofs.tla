------------------------ MODULE DrainableWorkerProofs ------------------------
(*****************************************************************************)
(* The bounded worker, for every set of requests, keys and limits: entries   *)
(* and their bytes are counted exactly, coalescing loses no item, and a      *)
(* drain that succeeds has seen the end of everything accepted before it.    *)
(*                                                                           *)
(* The bytes are a fold over a set of entries: that the fold exists, and     *)
(* does not depend on its order, is shown on a smallest counterexample.      *)
(*****************************************************************************)
EXTENDS DrainableWorker, FiniteSetTheorems, WellFoundedInduction, TLAPS

-----------------------------------------------------------------------------
(* The inductive invariant. *)

Phases == {"accepting", "draining", "failed", "closed"}
Places == {"scan", "parked", "processing", "waiting", "done"}
Calls  == {"new", "waiting", "retry"} \cup Settled
Drain  == [state : {"new", "waiting", "ok", "error"}, idle : Nat, saw : Nat]

\* TypeOK without the counters of bytes.
Types ==
  /\ phase \in Phases /\ loop \in Places
  /\ queue \in Seq(Request) /\ accepted \in Seq(Request)
  /\ entry \in [Request -> Entry]
  /\ queuedByKey \in [Key -> Request \cup {None}]
  /\ active \in Request \cup {None} /\ running \in Request \cup {None}
  /\ outstanding \in Nat /\ controlOutstanding \in Nat
  /\ idles \in Seq({"pending", "ok", "error"}) /\ Idle > 0
  /\ call \in [Request -> Calls] /\ drain \in [Drainer -> Drain]
  /\ attempted \subseteq Request

\* Every live entry is where the map of keys says, once, and its request was admitted.
Shape ==
  /\ IsInjective(queue) /\ active \notin Range(queue)
  /\ \A e \in Live : call[e] = "accepted" /\ KeyOf[entry[e].item] = KeyOf[e]
  /\ \A e, f \in Live : KeyOf[e] = KeyOf[f] /\ KeyOf[e] # NoKey => e = f
  /\ \A k \in Key : {queuedByKey[k]} \ {None} = {e \in Range(queue) : KeyOf[e] = k}

Counts ==
  /\ IsFiniteSet(Live)
  /\ outstanding = Cardinality(Live)
  /\ controlOutstanding = Cardinality(Live \cap ControlRequest)
  /\ outstanding - controlOutstanding <= MaxEntries /\ controlOutstanding <= ControlEntries

\* The bytes of each lane are those of its entries.
Sizes ==
  /\ bytes = Bytes(Live) /\ controlBytes = Bytes(Live \cap ControlRequest)
  /\ bytes - controlBytes = Bytes(Bulk) /\ Bytes(Bulk) <= MaxBytes

\* The loop has an item exactly while it processes one, and only the processing of an
\* item waits on its own behalf.
Looping ==
  /\ active # None <=> loop \in {"processing", "waiting"}
  /\ active # None <=> running # None
  /\ active # None => entry[active].dirty \/ entry[active].item = running
  /\ loop = "done" => phase \in {"failed", "closed"} /\ queue = <<>>
  /\ \A r \in SelfNotify : call[r] \in {"waiting", "retry"} => loop = "waiting"
  /\ \A r, s \in SelfNotify :
       call[r] \in {"waiting", "retry"} /\ call[s] \in {"waiting", "retry"} => r = s

\* What is accepted was processed, or is on its way, itself or what replaced it.
Covers(r) ==
  \/ Served(r)
  \/ \E e \in Live : /\ Replaces(entry[e].item, r)
                     /\ e = active => entry[e].dirty \/ entry[e].item = running
  \/ running # None /\ Replaces(running, r)

Covered == loop # "done" => \A r \in Range(accepted) : Covers(r)

\* Only the last Deferred may be pending, and it is while anything is outstanding.
Pending ==
  /\ idles[Idle] = "pending" <=> outstanding > 0
  /\ \A n \in 1 .. Idle - 1 : idles[n] # "pending"

SawServed(d) == \A i \in 1 .. drain[d].saw : Served(accepted[i])

\* A Deferred that says ok was settled when everything accepted had been processed.
Drained ==
  /\ idles[Idle] = "ok" => \A r \in Range(accepted) : Served(r)
  /\ \A d \in Drainer :
       /\ drain[d].saw <= Len(accepted)
       /\ drain[d].state = "waiting" => drain[d].idle \in 1 .. Idle
       /\ drain[d].state = "waiting" /\ idles[drain[d].idle] = "ok" => SawServed(d)
       /\ drain[d].state = "ok" => SawServed(d)

IInv == Types /\ Shape /\ Counts /\ Sizes /\ Looping /\ Covered /\ Pending /\ Drained

-----------------------------------------------------------------------------
(* Sequences. *)

LEMMA RangeAppend ==
  ASSUME NEW S, NEW s \in Seq(S), NEW x \in S
  PROVE  /\ Append(s, x) \in Seq(S)
         /\ Range(Append(s, x)) = Range(s) \cup {x}
         /\ IsInjective(s) /\ x \notin Range(s) => IsInjective(Append(s, x))
<1> DEFINE t == Append(s, x)
<1>1. t \in Seq(S) /\ Len(t) = Len(s) + 1 /\ DOMAIN t = 1 .. Len(s) + 1 /\ DOMAIN s = 1 .. Len(s)
  OBVIOUS
<1>2. /\ \A i \in 1 .. Len(s) : t[i] = s[i]
      /\ t[Len(s) + 1] = x
  OBVIOUS
<1> HIDE DEF t
<1>3. Range(t) = Range(s) \cup {x}
  <2>1. ASSUME NEW y \in Range(t) PROVE y \in Range(s) \cup {x}
    BY <1>1, <1>2 DEF Range
  <2>2. ASSUME NEW y \in Range(s) PROVE y \in Range(t)
    <3>1. PICK i \in 1 .. Len(s) : y = s[i]
      BY <1>1 DEF Range
    <3> QED BY <3>1, <1>1, <1>2 DEF Range
  <2>3. x \in Range(t)
    <3>1. Len(s) + 1 \in DOMAIN t
      BY <1>1
    <3> QED BY <3>1, <1>2 DEF Range
  <2> QED BY <2>1, <2>2, <2>3
<1>4. ASSUME IsInjective(s), x \notin Range(s)
      PROVE  IsInjective(t)
  <2>1. SUFFICES ASSUME NEW i \in 1 .. Len(s) + 1, NEW j \in 1 .. Len(s) + 1, t[i] = t[j]
                 PROVE  i = j
    BY <1>1 DEF IsInjective
  <2>2. \A n \in 1 .. Len(s) : s[n] # x
    BY <1>1, <1>4 DEF Range
  <2> QED BY <1>1, <1>2, <1>4, <2>1, <2>2 DEF IsInjective
<1> QED BY <1>1, <1>3, <1>4 DEF t

LEMMA RangeRemoveAt ==
  ASSUME NEW S, NEW s \in Seq(S), NEW n \in DOMAIN s, IsInjective(s)
  PROVE  /\ RemoveAt(s, n) \in Seq(S)
         /\ Range(RemoveAt(s, n)) = Range(s) \ {s[n]}
         /\ IsInjective(RemoveAt(s, n))
<1> DEFINE t == RemoveAt(s, n)
           at(i) == IF i < n THEN i ELSE i + 1
<1>0. n \in 1 .. Len(s) /\ DOMAIN s = 1 .. Len(s) /\ Len(s) \in Nat
  OBVIOUS
<1> DEFINE before == SubSeq(s, 1, n - 1)
           after == SubSeq(s, n + 1, Len(s))
<1>1. /\ before \in Seq(S) /\ Len(before) = n - 1
      /\ \A i \in 1 .. n - 1 : before[i] = s[i]
  BY <1>0
<1>2. /\ after \in Seq(S) /\ Len(after) = Len(s) - n
      /\ \A i \in 1 .. Len(s) - n : after[i] = s[n + i]
  BY <1>0
<1>9. t = before \o after
  BY DEF RemoveAt
<1> HIDE DEF t, before, after
<1>3. t \in Seq(S) /\ Len(t) = Len(s) - 1 /\ DOMAIN t = 1 .. Len(s) - 1
  <2>1. t \in Seq(S) /\ Len(t) = Len(before) + Len(after)
    <3>1. before \in Seq(S) /\ after \in Seq(S)
      BY <1>1, <1>2
    <3> QED BY <3>1, <1>9
  <2> QED BY <2>1, <1>0, <1>1, <1>2
<1>4. ASSUME NEW i \in 1 .. Len(s) - 1
      PROVE  t[i] = s[at(i)] /\ at(i) \in 1 .. Len(s) /\ at(i) # n
  <2>1. CASE i < n
    BY <2>1, <1>0, <1>1, <1>2, <1>9
  <2>2. CASE i >= n
    <3>1. i - (n - 1) \in 1 .. Len(s) - n
      BY <2>2, <1>0
    <3>2. t[i] = after[i - (n - 1)]
      BY <2>2, <1>0, <1>1, <1>2, <1>9, <3>1
    <3> QED BY <2>2, <3>1, <3>2, <1>0, <1>2
  <2> QED BY <2>1, <2>2, <1>0
<1>5. ASSUME NEW j \in 1 .. Len(s), j # n
      PROVE  \E i \in 1 .. Len(s) - 1 : at(i) = j
  <2>1. CASE j < n
    BY <2>1, <1>0
  <2>2. CASE j > n
    <3>1. j - 1 \in 1 .. Len(s) - 1 /\ at(j - 1) = j
      BY <2>2, <1>0
    <3> QED BY <3>1
  <2> QED BY <2>1, <2>2, <1>5, <1>0
<1> HIDE DEF at
<1>6. Range(t) = Range(s) \ {s[n]}
  <2>1. ASSUME NEW y \in Range(t) PROVE y \in Range(s) \ {s[n]}
    <3>1. PICK i \in 1 .. Len(s) - 1 : y = t[i]
      BY <1>3 DEF Range
    <3> QED BY <3>1, <1>4, <1>0 DEF Range, IsInjective
  <2>2. ASSUME NEW y \in Range(s) \ {s[n]} PROVE y \in Range(t)
    <3>1. PICK j \in 1 .. Len(s) : y = s[j]
      BY <1>0 DEF Range
    <3>2. PICK i \in 1 .. Len(s) - 1 : at(i) = j
      BY <3>1, <2>2, <1>5
    <3> QED BY <3>1, <3>2, <1>3, <1>4 DEF Range
  <2> QED BY <2>1, <2>2
<1>7. IsInjective(t)
  <2>1. SUFFICES ASSUME NEW i \in 1 .. Len(s) - 1, NEW j \in 1 .. Len(s) - 1, t[i] = t[j]
                 PROVE  i = j
    BY <1>3 DEF IsInjective
  <2>2. at(i) = at(j)
    BY <2>1, <1>0, <1>4 DEF IsInjective
  <2> QED BY <2>2, <1>0 DEF at
<1> QED BY <1>3, <1>6, <1>7 DEF t

LEMMA RangeEmpty == Range(<<>>) = {} /\ IsInjective(<<>>)
  BY DEF Range, IsInjective

\* A set of positions has a first one.
LEMMA FirstPosition ==
  ASSUME NEW T, T \subseteq Nat \ {0}, T # {}
  PROVE  Min(T) \in T /\ \A y \in T : Min(T) <= y
<1> DEFINE Below == {1 .. n : n \in T}
<1>1. Below \subseteq FiniteSubsetsOf(Nat) /\ Below # {}
  <2>1. ASSUME NEW n \in T PROVE 1 .. n \in FiniteSubsetsOf(Nat)
    <3>1. IsFiniteSet(1 .. n) /\ 1 .. n \subseteq Nat
      BY FS_Interval
    <3> QED BY <3>1 DEF FiniteSubsetsOf
  <2> QED BY <2>1
<1>2. PICK I \in Below : \A J \in Below : ~ (<<J, I>> \in StrictSubsetOrdering(Nat))
  BY <1>1, FS_StrictSubsetOrderingWellFounded, WFMin
<1>3. PICK x \in T : I = 1 .. x
  BY <1>2
<1>4. ASSUME NEW y \in T PROVE x <= y
  <2>1. CASE y < x
    <3>1. 1 .. y \subseteq 1 .. x /\ x \in 1 .. x /\ x \notin 1 .. y
      BY <2>1, <1>3
    <3>2. <<1 .. y, I>> \in StrictSubsetOrdering(Nat)
      BY <3>1, <1>3 DEF StrictSubsetOrdering
    <3> QED BY <3>2, <1>2
  <2> QED BY <2>1
<1> QED BY <1>4 DEF Min

LEMMA NextIsQueued ==
  ASSUME queue \in Seq(Request), queue # <<>>
  PROVE  NextEntry \in DOMAIN queue
<1> DEFINE C == {i \in DOMAIN queue : IsControl(queue[i])}
<1>1. DOMAIN queue = 1 .. Len(queue) /\ Len(queue) > 0 /\ Len(queue) \in Nat
  OBVIOUS
<1>2. C \subseteq Nat \ {0} /\ C \subseteq DOMAIN queue
  BY <1>1
<1> HIDE DEF C
<1>3. C # {} => Min(C) \in C
  BY <1>2, FirstPosition
<1>4. NextEntry = IF C = {} THEN 1 ELSE Min(C)
  BY DEF NextEntry, C
<1> QED BY <1>1, <1>2, <1>3, <1>4

-----------------------------------------------------------------------------
(* Sums of bytes: what the fold of the model yields, for every finite set.     *)

One(s) == CHOOSE x \in s : TRUE

\* g is the fold over the subsets of U, one element at a time.
Folds(g, E, U) ==
  g = [s \in SUBSET U |-> IF s = {} THEN 0 ELSE E[One(s)].bytes + g[s \ {One(s)}]]

BytesOf(E, S) == (CHOOSE g : Folds(g, E, S))[S]

LEMMA BytesIs == \A S : Bytes(S) = BytesOf(entry, S)
  BY DEF Bytes, MapThenSumSet, MapThenFoldSet, Folds, BytesOf, One

LEMMA BytesIsAfter ==
  /\ Bytes(Live)' = BytesOf(entry', Live') /\ Bytes(Bulk)' = BytesOf(entry', Bulk')
  /\ Bytes(Live \cap ControlRequest)' = BytesOf(entry', Live' \cap ControlRequest)
  BY DEF Bytes, MapThenSumSet, MapThenFoldSet, Folds, BytesOf, One

LEMMA OneIs ==
  ASSUME NEW s, s # {}
  PROVE  One(s) \in s
BY DEF One

\* A set of finite sets has one that contains no other.
LEMMA SmallestSet ==
  ASSUME NEW U, IsFiniteSet(U), NEW T, T \subseteq SUBSET U, T # {}
  PROVE  \E s \in T : \A r \in T : r \subseteq s => r = s
<1>1. T \subseteq FiniteSubsetsOf(U)
  BY FS_FiniteSubsetsOfFinite
<1>2. PICK s \in T : \A r \in T : ~ (<<r, s>> \in StrictSubsetOrdering(U))
  BY <1>1, FS_StrictSubsetOrderingWellFounded, WFMin
<1>3. ASSUME NEW r \in T, r \subseteq s, r # s PROVE FALSE
  <2>1. <<r, s>> \in StrictSubsetOrdering(U)
    BY <1>3 DEF StrictSubsetOrdering
  <2> QED BY <2>1, <1>2
<1> QED BY <1>2, <1>3

LEMMA EntryBytes ==
  ASSUME NEW E \in [Request -> Entry], NEW x \in Request
  PROVE  E[x].bytes \in Nat
BY DEF Entry

\* The fold is defined for the sets of up to any number of elements, hence for all.
LEMMA FoldExists ==
  ASSUME NEW U \in SUBSET Request, IsFiniteSet(U), NEW E \in [Request -> Entry]
  PROVE  \E g \in [SUBSET U -> Nat] : Folds(g, E, U)
<1> DEFINE Body(g, s)  == IF s = {} THEN 0 ELSE E[One(s)].bytes + g[s \ {One(s)}]
           UpTo(g, n)  == \A s \in SUBSET U : Cardinality(s) < n => g[s] = Body(g, s)
           Bad         == {n \in Nat \ {0} : ~ \E g \in [SUBSET U -> Nat] : UpTo(g, n)}
<1>0. Cardinality(U) \in Nat
  BY FS_CardinalityType
<1>1. \A s \in SUBSET U : /\ IsFiniteSet(s) /\ Cardinality(s) \in Nat /\ Cardinality(s) <= Cardinality(U)
                          /\ s # {} => /\ Cardinality(s) >= 1
                                       /\ One(s) \in s /\ E[One(s)].bytes \in Nat
                                       /\ s \ {One(s)} \in SUBSET U
                                       /\ Cardinality(s \ {One(s)}) = Cardinality(s) - 1
  <2> TAKE s \in SUBSET U
  <2>1. IsFiniteSet(s) /\ Cardinality(s) \in Nat /\ Cardinality(s) <= Cardinality(U)
    BY FS_Subset, FS_CardinalityType
  <2>2. ASSUME s # {}
        PROVE  /\ Cardinality(s) >= 1
               /\ One(s) \in s /\ E[One(s)].bytes \in Nat /\ s \ {One(s)} \in SUBSET U
               /\ Cardinality(s \ {One(s)}) = Cardinality(s) - 1
    <3>1. One(s) \in s
      BY <2>2, OneIs
    <3>2. One(s) \in Request /\ s \ {One(s)} \in SUBSET U
      BY <3>1
    <3>3. IsFiniteSet(s \ {One(s)}) /\ Cardinality(s \ {One(s)}) = Cardinality(s) - 1
      BY <2>1, <3>1, FS_RemoveElement
    <3>4. Cardinality(s \ {One(s)}) \in Nat
      BY <3>3, FS_CardinalityType
    <3> QED BY <2>1, <3>1, <3>2, <3>3, <3>4, EntryBytes
  <2> QED BY <2>1, <2>2
<1>2. Bad = {}
  <2> SUFFICES ASSUME Bad # {} PROVE FALSE
    OBVIOUS
  <2> DEFINE m == Min(Bad)
  <2>1. m \in Bad /\ m \in Nat \ {0} /\ \A y \in Bad : m <= y
    BY FirstPosition
  <2> HIDE DEF m
  <2>2. CASE m = 1
    <3> DEFINE g == [s \in SUBSET U |-> 0]
    <3>1. ASSUME NEW s \in SUBSET U, Cardinality(s) < 1 PROVE s = {}
      <4>1. s # {} => Cardinality(s) >= 1
        BY <1>1
      <4>2. Cardinality(s) \in Nat
        BY <1>1
      <4> QED BY <3>1, <4>1, <4>2
    <3>2. UpTo(g, 1) /\ g \in [SUBSET U -> Nat]
      BY <3>1
    <3> QED BY <2>1, <2>2, <3>2
  <2>3. CASE m # 1
    <3> DEFINE k == m - 1
    <3>1. k \in Nat \ {0} /\ m = k + 1
      BY <2>1, <2>3
    <3>2. k \notin Bad
      <4> HIDE DEF Bad
      <4> QED BY <2>1, <3>1
    <3> HIDE DEF k
    <3>3. PICK g \in [SUBSET U -> Nat] : UpTo(g, k)
      BY <3>1, <3>2
    <3> DEFINE h == [s \in SUBSET U |-> IF Cardinality(s) < k THEN g[s] ELSE Body(g, s)]
    <3>4. ASSUME NEW s \in SUBSET U PROVE Body(g, s) \in Nat
      <4>1. CASE s = {}
        BY <4>1
      <4>2. CASE s # {}
        <5>1. E[One(s)].bytes \in Nat /\ s \ {One(s)} \in SUBSET U
          BY <1>1, <4>2
        <5>2. g[s \ {One(s)}] \in Nat
          BY <5>1
        <5> QED BY <5>1, <5>2
      <4> QED BY <4>1, <4>2
    <3>5. h \in [SUBSET U -> Nat]
      BY <3>3, <3>4
    <3>6. ASSUME NEW s \in SUBSET U, Cardinality(s) < m PROVE h[s] = Body(h, s)
      <4>1. h[s] = Body(g, s)
        BY <3>3
      <4>2. CASE s = {}
        BY <4>1, <4>2
      <4>3. CASE s # {}
        <5>1. s \ {One(s)} \in SUBSET U /\ Cardinality(s \ {One(s)}) < k
          BY <1>1, <3>1, <3>6, <4>3
        <5>2. h[s \ {One(s)}] = g[s \ {One(s)}]
          BY <5>1
        <5> QED BY <4>1, <4>3, <5>2
      <4> QED BY <4>2, <4>3
    <3>7. UpTo(h, m)
      BY <3>6
    <3> QED BY <2>1, <3>5, <3>7
  <2> QED BY <2>2, <2>3
<1>3. PICK g \in [SUBSET U -> Nat] : UpTo(g, Cardinality(U) + 1)
  <2>1. Cardinality(U) + 1 \in Nat \ {0}
    BY <1>0
  <2>2. Cardinality(U) + 1 \notin Bad
    BY <1>2, Zenon
  <2> QED BY <2>1, <2>2
<1>4. ASSUME NEW s \in SUBSET U PROVE Cardinality(s) < Cardinality(U) + 1
  <2>1. Cardinality(s) \in Nat /\ Cardinality(s) <= Cardinality(U)
    BY <1>1
  <2> QED BY <1>0, <2>1
<1>5. \A s \in SUBSET U : g[s] = Body(g, s)
  BY <1>3, <1>4
<1>6. g = [s \in SUBSET U |-> Body(g, s)]
  BY <1>5
<1> QED BY <1>6 DEF Folds

\* Two folds agree where both are defined.
LEMMA FoldUnique ==
  ASSUME NEW U \in SUBSET Request, IsFiniteSet(U), NEW E \in [Request -> Entry],
         NEW V \in SUBSET U, NEW g, NEW h, Folds(g, E, U), Folds(h, E, V)
  PROVE  \A s \in SUBSET V : g[s] = h[s]
<1> DEFINE Bad == {s \in SUBSET V : g[s] # h[s]}
<1>1. SUFFICES ASSUME Bad # {} PROVE FALSE
  OBVIOUS
<1>2. PICK s \in Bad : \A r \in Bad : r \subseteq s => r = s
  <2>1. Bad \subseteq SUBSET U
    OBVIOUS
  <2> HIDE DEF Bad
  <2> QED BY <1>1, <2>1, SmallestSet
<1>3. CASE s = {}
  BY <1>2, <1>3 DEF Folds
<1>4. CASE s # {}
  <2>1. One(s) \in s /\ s \ {One(s)} \subseteq s /\ s \ {One(s)} # s
    BY <1>4, OneIs
  <2>2. g[s \ {One(s)}] = h[s \ {One(s)}]
    BY <1>2, <2>1
  <2>3. g[s] = E[One(s)].bytes + g[s \ {One(s)}] /\ h[s] = E[One(s)].bytes + h[s \ {One(s)}]
    BY <1>2, <1>4 DEF Folds
  <2> QED BY <1>2, <2>2, <2>3
<1> QED BY <1>3, <1>4

\* The order does not matter.
LEMMA FoldRemoves ==
  ASSUME NEW U \in SUBSET Request, IsFiniteSet(U), NEW E \in [Request -> Entry],
         NEW g \in [SUBSET U -> Nat], Folds(g, E, U)
  PROVE  \A s \in SUBSET U : \A x \in s : g[s] = E[x].bytes + g[s \ {x}]
<1> DEFINE Bad == {s \in SUBSET U : \E x \in s : g[s] # E[x].bytes + g[s \ {x}]}
<1>1. SUFFICES ASSUME Bad # {} PROVE FALSE
  OBVIOUS
<1>2. PICK s \in Bad : \A r \in Bad : r \subseteq s => r = s
  <2>1. Bad \subseteq SUBSET U
    OBVIOUS
  <2> HIDE DEF Bad
  <2> QED BY <1>1, <2>1, SmallestSet
<1>3. PICK x \in s : g[s] # E[x].bytes + g[s \ {x}]
  BY <1>2
<1> DEFINE y == One(s)
<1>4. y \in s
  BY <1>3, OneIs
<1>5. g[s] = E[y].bytes + g[s \ {y}]
  BY <1>2, <1>3 DEF Folds
<1> HIDE DEF y
<1>6. x # y
  BY <1>3, <1>5, Zenon
<1>7. s \ {y} \notin Bad /\ s \ {x} \notin Bad /\ s \ {x} \in SUBSET U /\ s \ {y} \in SUBSET U
  BY <1>2, <1>3, <1>4
<1> DEFINE t == (s \ {x}) \ {y}
<1>8. g[s \ {y}] = E[x].bytes + g[t]
  <2>1. g[s \ {y}] = E[x].bytes + g[(s \ {y}) \ {x}]
    BY <1>3, <1>6, <1>7
  <2>2. (s \ {y}) \ {x} = t
    OBVIOUS
  <2> QED BY <2>1, <2>2, Zenon
<1>9. g[s \ {x}] = E[y].bytes + g[t]
  BY <1>4, <1>6, <1>7
<1>10. t \in SUBSET U
  BY <1>7
<1> HIDE DEF t
<1>11. E[x].bytes \in Nat /\ E[y].bytes \in Nat
  BY <1>2, <1>3, <1>4, EntryBytes
<1>12. g[t] \in Nat
  BY <1>10
<1> QED BY <1>3, <1>5, <1>8, <1>9, <1>11, <1>12

LEMMA BytesAre ==
  ASSUME NEW U \in SUBSET Request, IsFiniteSet(U), NEW E \in [Request -> Entry],
         NEW f, Folds(f, E, U), NEW V \in SUBSET U
  PROVE  BytesOf(E, V) = f[V]
<1> DEFINE h == CHOOSE h : Folds(h, E, V)
<1>1. V \in SUBSET Request /\ IsFiniteSet(V)
  BY FS_Subset
<1>2. Folds(h, E, V)
  BY <1>1, FoldExists
<1>3. BytesOf(E, V) = h[V]
  BY DEF BytesOf
<1> HIDE DEF h
<1>4. \A s \in SUBSET V : f[s] = h[s]
  BY <1>2, FoldUnique
<1> QED BY <1>3, <1>4

LEMMA BytesRemove ==
  ASSUME NEW U \in SUBSET Request, IsFiniteSet(U), NEW E \in [Request -> Entry]
  PROVE  /\ BytesOf(E, U) \in Nat
         /\ U = {} => BytesOf(E, U) = 0
         /\ \A x \in U : BytesOf(E, U \ {x}) \in Nat /\ BytesOf(E, U) = E[x].bytes + BytesOf(E, U \ {x})
<1>2. PICK f \in [SUBSET U -> Nat] : Folds(f, E, U)
  BY FoldExists
<1>6. ASSUME NEW V \in SUBSET U PROVE BytesOf(E, V) = f[V]
  BY <1>2, BytesAre
<1>7. BytesOf(E, U) \in Nat
  BY <1>2, <1>6
<1>8. U = {} => f[U] = 0
  BY <1>2 DEF Folds
<1>9. ASSUME NEW x \in U
      PROVE  BytesOf(E, U \ {x}) \in Nat /\ BytesOf(E, U) = E[x].bytes + BytesOf(E, U \ {x})
  <2>1. f[U] = E[x].bytes + f[U \ {x}] /\ f[U \ {x}] \in Nat
    BY <1>2, FoldRemoves
  <2> QED BY <1>6, <2>1
<1> QED BY <1>6, <1>7, <1>8, <1>9

\* Only the bytes of the elements count.
LEMMA BytesSame ==
  ASSUME NEW U \in SUBSET Request, IsFiniteSet(U),
         NEW E \in [Request -> Entry], NEW F \in [Request -> Entry], \A x \in U : E[x].bytes = F[x].bytes
  PROVE  BytesOf(E, U) = BytesOf(F, U)
<1> DEFINE Bad == {s \in SUBSET U : BytesOf(E, s) # BytesOf(F, s)}
<1>1. SUFFICES ASSUME Bad # {} PROVE FALSE
  OBVIOUS
<1>2. PICK s \in Bad : \A r \in Bad : r \subseteq s => r = s
  <2>1. Bad \subseteq SUBSET U
    OBVIOUS
  <2> HIDE DEF Bad
  <2> QED BY <1>1, <2>1, SmallestSet
<1>3. s \in SUBSET Request /\ IsFiniteSet(s)
  BY <1>2, FS_Subset
<1>4. s # {}
  BY <1>2, <1>3, BytesRemove
<1>5. PICK x \in s : TRUE
  BY <1>4
<1>6. s \ {x} \notin Bad
  BY <1>2, <1>5
<1>7. BytesOf(E, s) = E[x].bytes + BytesOf(E, s \ {x}) /\ BytesOf(F, s) = F[x].bytes + BytesOf(F, s \ {x})
  BY <1>3, <1>5, BytesRemove
<1> QED BY <1>2, <1>5, <1>6, <1>7

LEMMA BytesAdd ==
  ASSUME NEW U \in SUBSET Request, IsFiniteSet(U), NEW r \in Request \ U,
         NEW E \in [Request -> Entry], NEW F \in [Request -> Entry], \A x \in U : E[x].bytes = F[x].bytes
  PROVE  BytesOf(F, U \cup {r}) = F[r].bytes + BytesOf(E, U)
<1>1. U \cup {r} \in SUBSET Request /\ IsFiniteSet(U \cup {r}) /\ r \in U \cup {r}
  BY FS_AddElement
<1>2. (U \cup {r}) \ {r} = U
  OBVIOUS
<1>3. BytesOf(F, U \cup {r}) = F[r].bytes + BytesOf(F, U)
  BY <1>1, <1>2, BytesRemove
<1>4. BytesOf(F, U) = BytesOf(E, U)
  BY BytesSame
<1> QED BY <1>3, <1>4

LEMMA BytesReplace ==
  ASSUME NEW U \in SUBSET Request, IsFiniteSet(U), NEW p \in U,
         NEW E \in [Request -> Entry], NEW F \in [Request -> Entry],
         \A x \in U \ {p} : E[x].bytes = F[x].bytes
  PROVE  BytesOf(F, U) = BytesOf(E, U) + (F[p].bytes - E[p].bytes)
<1>1. U \ {p} \in SUBSET Request /\ IsFiniteSet(U \ {p})
  BY FS_Subset
<1>2. /\ BytesOf(F, U) = F[p].bytes + BytesOf(F, U \ {p})
      /\ BytesOf(E, U) = E[p].bytes + BytesOf(E, U \ {p}) /\ BytesOf(E, U \ {p}) \in Nat
  BY BytesRemove
<1>3. BytesOf(F, U \ {p}) = BytesOf(E, U \ {p})
  BY <1>1, BytesSame
<1>4. E[p].bytes \in Nat /\ F[p].bytes \in Nat
  BY EntryBytes
<1> QED BY <1>2, <1>3, <1>4

-----------------------------------------------------------------------------
(* What the steps do to each other's state. *)

\* Waking the callers settles nobody.
LEMMA WokenIs ==
  ASSUME call \in [Request -> Calls]
  PROVE  /\ Woken(call) \in [Request -> Calls]
         /\ \A r \in Request : call[r] = "accepted" => Woken(call)[r] = "accepted"
         /\ \A r \in Request : Woken(call)[r] \in {"waiting", "retry"} => call[r] \in {"waiting", "retry"}
  BY DEF Woken, Calls, Settled

\* The entries, the loop's item and the Deferreds stay, an admitted request stays admitted.
Quiet ==
  /\ UNCHANGED <<queue, entry, queuedByKey, active, running, outstanding, controlOutstanding,
                 bytes, controlBytes, idles, attempted>>
  /\ \A r \in Request : call[r] = "accepted" => call'[r] = "accepted"

LEMMA QuietSteps ==
  ASSUME Types
  PROVE  /\ \A r \in Request : AdmitRefused(r) \/ AdmitSuperseded(r) \/ AdmitFull(r) \/ Interrupt(r) => Quiet
         /\ \A d \in Drainer : StartDrain(d) \/ EndDrain(d) => Quiet
         /\ Park \/ UNCHANGED vars => Quiet
<1> USE DEF Quiet, counters
<1>1. ASSUME NEW r \in Request PROVE AdmitRefused(r) => Quiet
  BY DEF Types, AdmitRefused, CanTry
<1>2. ASSUME NEW r \in Request PROVE AdmitSuperseded(r) => Quiet
  BY DEF Types, AdmitSuperseded, CanTry
<1>3. ASSUME NEW r \in Request PROVE AdmitFull(r) => Quiet
  BY DEF Types, AdmitFull, CanTry
<1>4. ASSUME NEW r \in Request PROVE Interrupt(r) => Quiet
  BY DEF Types, Interrupt
<1>5. ASSUME NEW d \in Drainer PROVE StartDrain(d) => Quiet
  BY WokenIs DEF Types, StartDrain
<1>6. ASSUME NEW d \in Drainer PROVE EndDrain(d) => Quiet
  BY WokenIs DEF Types, EndDrain
<1>7. Park \/ UNCHANGED vars => Quiet
  BY DEF Park, vars
<1> QED BY <1>1, <1>2, <1>3, <1>4, <1>5, <1>6, <1>7

\* Every end of the loop gives everything up.
LEMMA AbandonSteps ==
  ASSUME LoopReturns \/ ScopeCloses \/ LoopDies
  PROVE  Abandon /\ loop # "done" /\ phase' \in {"failed", "closed"}
  BY DEF LoopReturns, ScopeCloses, LoopDies

\* An item in the works occupies a place.
LEMMA Occupied ==
  ASSUME Types, Counts
  PROVE  /\ active # None => /\ active \in Live /\ outstanding > 0
                             /\ active \in ControlRequest => controlOutstanding > 0
         /\ queue # <<>> => outstanding > 0
         /\ outstanding = 0 => Live = {}
         /\ \A e \in Live : e \in Request /\ outstanding > 0
         /\ Live \cap ControlRequest = {} \/ controlOutstanding > 0
<1>1. Live \subseteq Request
  BY DEF Live, Types, Range
<1>2. \A S : IsFiniteSet(S) /\ S # {} => Cardinality(S) > 0
  <2>1. SUFFICES ASSUME NEW S, IsFiniteSet(S), NEW x \in S PROVE Cardinality(S) > 0
    OBVIOUS
  <2>2. Cardinality(S) \in Nat /\ Cardinality(S \ {x}) = Cardinality(S) - 1 /\ Cardinality(S \ {x}) \in Nat
    BY <2>1, FS_CardinalityType, FS_RemoveElement
  <2> QED BY <2>2
<1>3. Live # {} => outstanding > 0
  BY <1>2 DEF Counts
<1>4. IsFiniteSet(Live \cap ControlRequest)
  BY FS_Subset DEF Counts
<1>5. Live \cap ControlRequest # {} => controlOutstanding > 0
  BY <1>2, <1>4 DEF Counts
<1>6. active # None => active \in Live
  BY DEF Live, Types
<1>7. queue # <<>> => Live # {}
  <2>1. queue # <<>> => queue[1] \in Range(queue)
    BY DEF Types, Range
  <2> QED BY <2>1 DEF Live
<1> QED BY <1>1, <1>3, <1>5, <1>6, <1>7 DEF Counts

\* The entry of the same key, if one is live.
LEMMA PreviousIs ==
  ASSUME Types, Shape, NEW r \in Request
  PROVE  /\ Previous(r) # None =>
              Previous(r) \in Live /\ KeyOf[r] # NoKey /\ KeyOf[Previous(r)] = KeyOf[r]
         /\ Previous(r) = None /\ KeyOf[r] # NoKey => \A e \in Live : KeyOf[e] # KeyOf[r]
         /\ Previous(r) = None /\ KeyOf[r] # NoKey => queuedByKey[KeyOf[r]] = None
         /\ Previous(r) \in Request \cup {None}
<1>1. CASE KeyOf[r] = NoKey
  <2>1. Previous(r) = None
    BY <1>1 DEF Previous
  <2> QED BY <1>1, <2>1
<1>2. CASE KeyOf[r] # NoKey
  <2> DEFINE k == KeyOf[r]
             q == queuedByKey[k]
  <2>1. k \in Key /\ q \in Request \cup {None} /\ {q} \ {None} = {e \in Range(queue) : KeyOf[e] = k}
    BY <1>2, RequestAssumption DEF Types, Shape
  <2>2. Range(queue) \subseteq Live /\ Live = Range(queue) \cup ({active} \ {None})
    BY DEF Live
  <2>3. CASE q # None
    <3>1. Previous(r) = q
      BY <1>2, <2>3 DEF Previous
    <3>2. q \in Range(queue) /\ KeyOf[q] = k
      BY <2>1, <2>3
    <3> QED BY <3>1, <3>2, <1>2, <2>1, <2>2, <2>3
  <2>4. CASE q = None /\ active # None /\ KeyOf[active] = k
    <3>1. Previous(r) = active
      BY <1>2, <2>4 DEF Previous
    <3> QED BY <3>1, <1>2, <2>2, <2>4 DEF Types
  <2>5. CASE q = None /\ ~(active # None /\ KeyOf[active] = k)
    <3>1. Previous(r) = None
      BY <1>2, <2>5 DEF Previous
    <3>2. \A e \in Live : KeyOf[e] # k
      BY <2>1, <2>2, <2>5
    <3> QED BY <3>1, <3>2, <2>5
  <2> QED BY <2>3, <2>4, <2>5
<1> QED BY <1>1, <1>2

-----------------------------------------------------------------------------
(* Types. *)

LEMMA EntryType ==
  ASSUME Types, NEW r \in Request
  PROVE  /\ entry[r] \in Entry /\ entry[r].item \in Request /\ entry[r].dirty \in BOOLEAN
         /\ SizeOf[r] \in Nat
         /\ \A b \in BOOLEAN : [item |-> r, bytes |-> SizeOf[r], dirty |-> b] \in Entry
         /\ [entry[r] EXCEPT !.dirty = FALSE] \in Entry
<1>1. entry[r] \in Entry /\ SizeOf[r] \in Nat
  BY RequestAssumption DEF Types
<1> QED BY <1>1 DEF Entry

LEMMA SettleIdleIs ==
  ASSUME Types, NEW o \in {"ok", "error"}
  PROVE  /\ SettleIdle(o) \in Seq({"pending", "ok", "error"})
         /\ Len(SettleIdle(o)) = Len(idles)
         /\ SettleIdle(o)[Idle] = IF idles[Idle] = "pending" THEN o ELSE idles[Idle]
         /\ \A n \in 1 .. Idle - 1 : SettleIdle(o)[n] = idles[n]
<1>1. idles \in Seq({"pending", "ok", "error"}) /\ Idle \in 1 .. Len(idles) /\ Idle = Len(idles)
  BY DEF Types, Idle
<1>2. CASE idles[Idle] = "pending"
  <2>1. SettleIdle(o) = [idles EXCEPT ![Idle] = o]
    BY <1>2 DEF SettleIdle
  <2> QED BY <1>1, <1>2, <2>1
<1>3. CASE idles[Idle] # "pending"
  BY <1>1, <1>3 DEF SettleIdle
<1> QED BY <1>2, <1>3

LEMMA TypesInit == Init => Types
<1> SUFFICES ASSUME Init PROVE Types
  OBVIOUS
<1>1. entry \in [Request -> Entry]
  BY DEF Init, Entry
<1>2. idles \in Seq({"pending", "ok", "error"}) /\ Idle > 0
  BY DEF Init, Idle
<1>3. drain \in [Drainer -> Drain]
  BY DEF Init, Drain
<1> QED BY <1>1, <1>2, <1>3 DEF Init, Types, Phases, Places, Calls

LEMMA TypesQuiet ==
  ASSUME Types, Quiet, phase' \in Phases, loop' \in Places, accepted' \in Seq(Request),
         call' \in [Request -> Calls], drain' \in [Drainer -> Drain]
  PROVE  Types'
  BY DEF Types, Quiet, Idle

LEMMA TypesStep ==
  ASSUME IInv, [Next]_vars
  PROVE  Types'
<1> USE DEF IInv
<1>1. ASSUME NEW r \in Request, AdmitRefused(r) PROVE Types'
  BY <1>1, QuietSteps, TypesQuiet DEF Types, AdmitRefused, LoopAfter, Places, Calls, Settled
<1>2. ASSUME NEW r \in Request, AdmitSuperseded(r) PROVE Types'
  <2>1. accepted' \in Seq(Request)
    BY <1>2 DEF Types, AdmitSuperseded
  <2> QED BY <1>2, <2>1, QuietSteps, TypesQuiet DEF Types, AdmitSuperseded, LoopAfter, Places, Calls, Settled
<1>3. ASSUME NEW r \in Request, AdmitFull(r) PROVE Types'
  BY <1>3, QuietSteps, TypesQuiet DEF Types, AdmitFull, LoopAfter, Places, Calls, Settled
<1>4. ASSUME NEW r \in Request, Admit(r) PROVE Types'
  <2>1. accepted' \in Seq(Request) /\ UNCHANGED <<phase, active, running, drain, attempted>>
    BY <1>4 DEF Types, Admit
  <2>2. call' \in [Request -> Calls]
    BY <1>4, WokenIs DEF Types, Admit, Calls, Settled
  <2>3. loop' \in Places
    BY <1>4 DEF Types, Admit, LoopAfter, Unparked, Places
  <2>4. CASE Previous(r) # None
    <3>1. Coalesce(r)
      BY <1>4, <2>4 DEF Admit
    <3>2. Previous(r) \in Request
      BY <2>4, PreviousIs
    <3>3. entry[Previous(r)].dirty \/ Rerun(r) \in BOOLEAN
      BY <3>2, EntryType DEF Rerun
    <3>4. entry' \in [Request -> Entry]
      BY <3>1, <3>2, <3>3, EntryType DEF Types, Coalesce
    <3> QED BY <2>1, <2>2, <2>3, <3>1, <3>4 DEF Types, Coalesce, Idle
  <2>5. CASE Previous(r) = None
    <3>1. Push(r)
      BY <1>4, <2>5 DEF Admit
    <3>2. idles' \in Seq({"pending", "ok", "error"}) /\ Idle' > 0
      <4>1. CASE outstanding = 0
        <5>1. idles' = Append(idles, "pending")
          BY <3>1, <4>1 DEF Push
        <5> QED BY <5>1 DEF Types, Idle
      <4>2. CASE outstanding # 0
        <5>1. idles' = idles
          BY <3>1, <4>2 DEF Push
        <5> QED BY <5>1 DEF Types, Idle
      <4> QED BY <4>1, <4>2
    <3>3. queue' \in Seq(Request)
      BY <3>1 DEF Types, Push
    <3>4. entry' \in [Request -> Entry]
      BY <3>1, EntryType DEF Types, Push
    <3>5. queuedByKey' \in [Key -> Request \cup {None}]
      BY <3>1 DEF Types, Push
    <3>6. outstanding' \in Nat /\ controlOutstanding' \in Nat
      BY <3>1 DEF Types, Push
    <3> QED BY <2>1, <2>2, <2>3, <3>2, <3>3, <3>4, <3>5, <3>6 DEF Types
  <2> QED BY <2>4, <2>5
<1>5. ASSUME NEW r \in Request, Interrupt(r) PROVE Types'
  BY <1>5, QuietSteps, TypesQuiet DEF Types, Interrupt, Calls, Settled
<1>6. ASSUME Take PROVE Types'
  <2>1. NextEntry \in DOMAIN queue /\ queue[NextEntry] \in Request
    BY <1>6, NextIsQueued DEF Types, Take
  <2>2. queue' \in Seq(Request)
    BY <1>6, <2>1, RangeRemoveAt DEF Types, Shape, Take
  <2>3. queuedByKey' \in [Key -> Request \cup {None}]
    BY <1>6, <2>1 DEF Types, Take
  <2>4. active' \in Request /\ running' \in Request
    BY <1>6, <2>1, EntryType DEF Take
  <2> QED BY <1>6, <2>2, <2>3, <2>4 DEF Types, Take, Places, counters, Idle
<1>7. ASSUME Park PROVE Types'
  BY <1>7, QuietSteps, TypesQuiet DEF Types, Park, Places
<1>8. ASSUME Finish PROVE Types'
  <2>1. active \in Request /\ running \in Request
    BY <1>8 DEF Types, Looping, Finish
  <2>2. /\ call' \in [Request -> Calls] /\ attempted' \subseteq Request /\ loop' \in Places
        /\ active' = None /\ running' = None /\ UNCHANGED <<phase, drain, accepted>>
    BY <1>8, <2>1, WokenIs DEF Types, Finish, Places
  <2>3. CASE entry[active].dirty
    <3>1. Requeue
      BY <1>8, <2>3 DEF Finish
    <3>2. queue' \in Seq(Request)
      BY <2>1, <3>1 DEF Types, Requeue
    <3>3. entry' \in [Request -> Entry]
      BY <2>1, <3>1, EntryType DEF Types, Requeue
    <3>4. queuedByKey' \in [Key -> Request \cup {None}]
      BY <2>1, <3>1 DEF Types, Requeue
    <3> QED BY <2>2, <3>1, <3>2, <3>3, <3>4 DEF Types, Requeue, counters, Idle
  <2>4. CASE ~entry[active].dirty
    <3>1. Release
      BY <1>8, <2>4 DEF Finish
    <3>2. outstanding' \in Nat
      BY <2>1, <3>1, Occupied, RequestAssumption DEF Types, Release
    <3>3. controlOutstanding' \in Nat
      BY <2>1, <3>1, Occupied, RequestAssumption DEF Types, Release, IsControl
    <3>4. idles' \in Seq({"pending", "ok", "error"}) /\ Idle' > 0
      BY <3>1, SettleIdleIs DEF Types, Release, Idle
    <3> QED BY <2>2, <3>1, <3>2, <3>3, <3>4 DEF Types, Release
  <2> QED BY <2>3, <2>4
<1>9. ASSUME LoopReturns \/ ScopeCloses \/ LoopDies PROVE Types'
  <2>1. Abandon /\ phase' \in Phases
    BY <1>9, AbandonSteps DEF Phases
  <2>2. idles' \in Seq({"pending", "ok", "error"}) /\ Idle' > 0
    BY <2>1, SettleIdleIs DEF Types, Abandon, IdleFails, Idle
  <2>3. call' \in [Request -> Calls]
    BY <2>1, WokenIs DEF Types, Abandon, Calls, Settled
  <2>4. queuedByKey' \in [Key -> Request \cup {None}]
    BY <2>1 DEF Abandon
  <2> QED BY <2>1, <2>2, <2>3, <2>4 DEF Types, Abandon, Places
<1>10. ASSUME NEW d \in Drainer, StartDrain(d) PROVE Types'
  <2>1. drain' \in [Drainer -> Drain]
    <3>1. Idle \in Nat /\ Len(accepted) \in Nat
      BY DEF Types, Idle
    <3>2. \A s \in {"waiting", "error"}, i \in Nat :
             [state |-> s, idle |-> i, saw |-> Len(accepted)] \in Drain
      BY <3>1 DEF Drain
    <3>3. \E s \in {"waiting", "error"}, i \in Nat :
             drain' = [drain EXCEPT ![d] = [state |-> s, idle |-> i, saw |-> Len(accepted)]]
      BY <1>10, <3>1 DEF StartDrain
    <3> QED BY <3>2, <3>3 DEF Types
  <2>2. phase' \in Phases /\ loop' \in Places /\ call' \in [Request -> Calls] /\ accepted' = accepted
    BY <1>10, WokenIs DEF Types, StartDrain, Phases, Places, Unparked
  <2> QED BY <1>10, <2>1, <2>2, QuietSteps, TypesQuiet DEF Types
<1>11. ASSUME NEW d \in Drainer, EndDrain(d) PROVE Types'
  <2>1. drain' \in [Drainer -> Drain]
    <3>1. drain[d].idle \in 1 .. Idle
      BY <1>11 DEF Drained, EndDrain
    <3>2. idles[drain[d].idle] \in {"pending", "ok", "error"}
      BY <3>1 DEF Types, Idle
    <3> QED BY <1>11, <3>2 DEF Types, EndDrain, Drain
  <2>2. phase' \in Phases /\ loop' \in Places /\ call' \in [Request -> Calls] /\ accepted' = accepted
    BY <1>11, WokenIs DEF Types, EndDrain, Phases, Places, Unparked
  <2> QED BY <1>11, <2>1, <2>2, QuietSteps, TypesQuiet DEF Types
<1>12. ASSUME UNCHANGED vars PROVE Types'
  BY <1>12 DEF Types, vars, Idle
<1> QED
  BY <1>1, <1>2, <1>3, <1>4, <1>5, <1>6, <1>7, <1>8, <1>9, <1>10, <1>11, <1>12 DEF Next

-----------------------------------------------------------------------------
(* The shape of the queue, the map of keys and the active entry. *)

LEMMA ShapeInit == Init => Shape
<1> SUFFICES ASSUME Init PROVE Shape
  OBVIOUS
<1>1. Range(queue) = {} /\ IsInjective(queue) /\ Live = {}
  BY RangeEmpty DEF Init, Live
<1> QED BY <1>1 DEF Init, Shape

LEMMA ShapeQuiet ==
  ASSUME Types, Shape, Quiet
  PROVE  Shape' /\ Live' = Live
<1>1. Live' = Live /\ Range(queue)' = Range(queue) /\ Live \subseteq Request
  BY DEF Quiet, Live, Types, Range
<1> QED BY <1>1 DEF Quiet, Shape

LEMMA AbandonEmpties ==
  ASSUME Abandon
  PROVE  Live' = {} /\ Range(queue') = {} /\ IsInjective(queue')
<1>1. queue' = <<>> /\ active' = None
  BY DEF Abandon
<1> QED BY <1>1, RangeEmpty DEF Live

\* What an admission, a take and the end of processing do to the live entries.
LEMMA PushLive ==
  ASSUME Types, Shape, NEW r \in Request, Admit(r), Previous(r) = None
  PROVE  /\ Push(r) /\ r \notin Live /\ Live' = Live \cup {r}
         /\ Range(queue') = Range(queue) \cup {r} /\ IsInjective(queue')
<1>1. Push(r) /\ call[r] # "accepted"
  BY DEF Admit, CanTry
<1>2. r \notin Live
  BY <1>1 DEF Shape
<1>3. queue' = Append(queue, r) /\ active' = active
  BY <1>1 DEF Push, Admit
<1>4. Range(queue') = Range(queue) \cup {r} /\ IsInjective(queue')
  BY <1>2, <1>3, RangeAppend DEF Types, Shape, Live
<1> QED BY <1>1, <1>2, <1>3, <1>4 DEF Live

LEMMA TakeLive ==
  ASSUME Types, Shape, Looping, Take
  PROVE  /\ active = None /\ active' \in Range(queue) /\ Live' = Live
         /\ Range(queue') = Range(queue) \ {active'} /\ IsInjective(queue')
<1>1. NextEntry \in DOMAIN queue
  BY NextIsQueued DEF Types, Take
<1>2. active' = queue[NextEntry] /\ queue' = RemoveAt(queue, NextEntry) /\ active = None
  BY DEF Take, Looping
<1>3. Range(queue') = Range(queue) \ {active'} /\ IsInjective(queue')
  BY <1>1, <1>2, RangeRemoveAt DEF Types, Shape
<1>4. active' \in Range(queue) /\ active' \in Request
  BY <1>1, <1>2 DEF Types, Range
<1> QED BY <1>2, <1>3, <1>4, RequestAssumption DEF Live

LEMMA FinishLive ==
  ASSUME Types, Shape, Looping, Finish
  PROVE  /\ active \in Request /\ running \in Request /\ active \in Live /\ active' = None
         /\ Live = Range(queue) \cup {active}
         /\ entry[active].dirty => /\ Requeue /\ Live' = Live
                                   /\ Range(queue') = Live /\ IsInjective(queue')
         /\ ~entry[active].dirty => /\ Release /\ Live' = Live \ {active}
                                    /\ queue' = queue /\ Range(queue') = Live \ {active}
<1>1. active \in Request /\ running \in Request /\ active' = None
  BY DEF Types, Looping, Finish
<1>2. Live = Range(queue) \cup {active}
  BY <1>1, RequestAssumption DEF Live
<1>3. ASSUME entry[active].dirty
      PROVE  Requeue /\ Live' = Live /\ Range(queue') = Live /\ IsInjective(queue')
  <2>1. Requeue /\ queue' = Append(queue, active)
    BY <1>3 DEF Finish, Requeue
  <2>2. Range(queue') = Live /\ IsInjective(queue')
    BY <1>1, <1>2, <2>1, RangeAppend DEF Types, Shape
  <2> QED BY <1>1, <2>1, <2>2 DEF Live
<1>4. ASSUME ~entry[active].dirty
      PROVE  Release /\ Live' = Live \ {active} /\ queue' = queue /\ Range(queue') = Live \ {active}
  <2>1. Release /\ queue' = queue
    BY <1>4 DEF Finish, Release
  <2> QED BY <1>1, <1>2, <2>1 DEF Live, Shape
<1> QED BY <1>1, <1>2, <1>3, <1>4

\* A coalesced item changes the entry of its key and nothing else.
LEMMA CoalesceLive ==
  ASSUME Types, Shape, NEW r \in Request, Admit(r), Previous(r) # None
  PROVE  /\ Coalesce(r) /\ Live' = Live /\ queue' = queue /\ active' = active /\ running' = running
         /\ Previous(r) \in Live /\ Previous(r) \in Request
         /\ KeyOf[r] # NoKey /\ KeyOf[Previous(r)] = KeyOf[r]
         /\ entry'[Previous(r)].item = r
         /\ entry'[Previous(r)].dirty = (entry[Previous(r)].dirty \/ Previous(r) = active)
         /\ \A e \in Request : e # Previous(r) => entry'[e] = entry[e]
<1>1. Coalesce(r) /\ queue' = queue /\ active' = active /\ running' = running
  BY DEF Admit, Coalesce
<1>2. /\ Previous(r) \in Live /\ Previous(r) \in Request
      /\ KeyOf[r] # NoKey /\ KeyOf[Previous(r)] = KeyOf[r]
  BY PreviousIs
<1>3. entry' = [entry EXCEPT ![Previous(r)] =
         [item |-> r, bytes |-> SizeOf[r], dirty |-> entry[Previous(r)].dirty \/ Rerun(r)]]
  BY <1>1 DEF Coalesce
<1> QED BY <1>1, <1>2, <1>3 DEF Types, Live, Rerun

LEMMA ShapeStep ==
  ASSUME IInv, [Next]_vars
  PROVE  Shape'
<1> USE DEF IInv
<1>0. Live \subseteq Request
  BY DEF Live, Types, Range
<1>1. ASSUME Quiet PROVE Shape'
  BY <1>1, ShapeQuiet
<1>2. ASSUME NEW r \in Request, Admit(r) PROVE Shape'
  <2>1. \A e \in Live : call'[e] = "accepted"
    BY <1>0, <1>2, WokenIs DEF Types, Shape, Admit
  <2>2. call'[r] = "accepted"
    BY <1>2, WokenIs DEF Types, Admit
  <2>3. CASE Previous(r) # None
    <3>1. \A e \in Live : KeyOf[entry'[e].item] = KeyOf[e]
      BY <1>0, <1>2, <2>3, CoalesceLive DEF Shape
    <3>2. UNCHANGED <<queue, queuedByKey, active, Live, Range(queue)>>
      BY <1>2, <2>3, CoalesceLive DEF Coalesce
    <3> QED BY <2>1, <3>1, <3>2 DEF Shape
  <2>4. CASE Previous(r) = None
    <3>1. /\ Push(r) /\ r \notin Live /\ Live' = Live \cup {r}
          /\ Range(queue)' = Range(queue) \cup {r} /\ IsInjective(queue') /\ active' = active
      BY <1>2, <2>4, PushLive DEF Admit
    <3>2. active' \notin Range(queue)'
      BY <3>1, RequestAssumption DEF Shape, Live
    <3>3. \A e \in Live' : call'[e] = "accepted" /\ KeyOf[entry'[e].item] = KeyOf[e]
      <4>1. entry'[r].item = r /\ \A e \in Live : entry'[e] = entry[e]
        BY <1>0, <3>1 DEF Types, Push
      <4> QED BY <2>1, <2>2, <3>1, <4>1 DEF Shape
    <3>4. \A e, f \in Live' : KeyOf[e] = KeyOf[f] /\ KeyOf[e] # NoKey => e = f
      BY <2>4, <3>1, PreviousIs DEF Shape
    <3>5. \A k \in Key : {queuedByKey'[k]} \ {None} = {e \in Range(queue)' : KeyOf[e] = k}
      <4>1. SUFFICES ASSUME NEW k \in Key
                     PROVE  {queuedByKey'[k]} \ {None} = {e \in Range(queue)' : KeyOf[e] = k}
        OBVIOUS
      <4>2. {queuedByKey[k]} \ {None} = {e \in Range(queue) : KeyOf[e] = k}
        BY DEF Shape
      <4>3. CASE k = KeyOf[r]
        <5>1. queuedByKey'[k] = r /\ queuedByKey[k] = None
          BY <2>4, <3>1, <4>3, PreviousIs, RequestAssumption DEF Types, Push
        <5> QED BY <3>1, <4>2, <4>3, <5>1, RequestAssumption
      <4>4. CASE k # KeyOf[r]
        <5>1. queuedByKey'[k] = queuedByKey[k]
          BY <3>1, <4>4 DEF Types, Push
        <5> QED BY <3>1, <4>2, <4>4, <5>1
      <4> QED BY <4>3, <4>4
    <3> QED BY <3>1, <3>2, <3>3, <3>4, <3>5 DEF Shape
  <2> QED BY <2>3, <2>4
<1>3. ASSUME Take PROVE Shape'
  <2>1. /\ active = None /\ active' \in Range(queue) /\ Live' = Live /\ active' \in Request
        /\ Range(queue)' = Range(queue) \ {active'} /\ IsInjective(queue')
    BY <1>3, TakeLive, <1>0 DEF Live
  <2>2. \A k \in Key : {queuedByKey'[k]} \ {None} = {e \in Range(queue)' : KeyOf[e] = k}
    <3>1. SUFFICES ASSUME NEW k \in Key
                   PROVE  {queuedByKey'[k]} \ {None} = {e \in Range(queue)' : KeyOf[e] = k}
      OBVIOUS
    <3>2. {queuedByKey[k]} \ {None} = {e \in Range(queue) : KeyOf[e] = k}
      BY DEF Shape
    <3>3. queuedByKey'[k] = IF k = KeyOf[active'] THEN None ELSE queuedByKey[k]
      BY <1>3, RequestAssumption DEF Types, Take
    <3>4. CASE k = KeyOf[active']
      <4>1. \A e \in Range(queue) : KeyOf[e] = k => e = active'
        BY <2>1, <3>2, <3>4
      <4> QED BY <2>1, <3>3, <3>4, <4>1
    <3>5. CASE k # KeyOf[active']
      BY <2>1, <3>2, <3>3, <3>5
    <3> QED BY <3>4, <3>5
  <2>3. UNCHANGED <<entry, call>>
    BY <1>3 DEF Take
  <2> QED BY <2>1, <2>2, <2>3 DEF Shape
<1>4. ASSUME Finish PROVE Shape'
  <2>1. /\ active \in Request /\ active \in Live /\ active' = None /\ Live = Range(queue) \cup {active}
    BY <1>4, FinishLive
  <2>2. \A e \in Live : call'[e] = "accepted"
    BY <1>0, <1>4, WokenIs DEF Types, Shape, Finish
  <2>3. CASE entry[active].dirty
    <3>1. Requeue /\ Live' = Live /\ Range(queue)' = Live /\ IsInjective(queue')
      BY <1>4, <2>3, FinishLive
    <3>2. \A e \in Live : KeyOf[entry'[e].item] = KeyOf[e]
      <4>1. \A e \in Live : entry'[e].item = entry[e].item
        BY <1>0, <2>1, <3>1, EntryType DEF Types, Requeue, Entry
      <4> QED BY <4>1 DEF Shape
    <3>3. \A k \in Key : {queuedByKey'[k]} \ {None} = {e \in Range(queue)' : KeyOf[e] = k}
      <4>1. SUFFICES ASSUME NEW k \in Key
                     PROVE  {queuedByKey'[k]} \ {None} = {e \in Range(queue)' : KeyOf[e] = k}
        OBVIOUS
      <4>2. {queuedByKey[k]} \ {None} = {e \in Range(queue) : KeyOf[e] = k}
        BY DEF Shape
      <4>3. CASE k = KeyOf[active]
        <5>1. queuedByKey'[k] = active
          BY <3>1, <4>3, RequestAssumption DEF Types, Requeue
        <5>2. \A e \in Live : KeyOf[e] = k => e = active
          BY <2>1, <4>3, RequestAssumption DEF Shape
        <5> QED BY <2>1, <3>1, <4>3, <5>1, <5>2, RequestAssumption
      <4>4. CASE k # KeyOf[active]
        <5>1. queuedByKey'[k] = queuedByKey[k]
          BY <3>1, <4>4 DEF Types, Requeue
        <5> QED BY <2>1, <3>1, <4>2, <4>4, <5>1
      <4> QED BY <4>3, <4>4
    <3>4. active' \notin Range(queue)'
      BY <1>0, <2>1, <3>1, RequestAssumption
    <3>5. \A e, f \in Live' : KeyOf[e] = KeyOf[f] /\ KeyOf[e] # NoKey => e = f
      BY <3>1 DEF Shape
    <3> QED BY <2>2, <3>1, <3>2, <3>3, <3>4, <3>5 DEF Shape
  <2>4. CASE ~entry[active].dirty
    <3>1. Release /\ Live' = Live \ {active} /\ queue' = queue /\ Range(queue)' = Range(queue)
      BY <1>4, <2>4, FinishLive
    <3>2. UNCHANGED <<entry, queuedByKey>>
      BY <3>1 DEF Release
    <3>3. active' \notin Range(queue)'
      BY <1>0, <2>1, <3>1, RequestAssumption
    <3> QED BY <2>1, <2>2, <3>1, <3>2, <3>3 DEF Shape
  <2> QED BY <2>3, <2>4
<1>5. ASSUME LoopReturns \/ ScopeCloses \/ LoopDies PROVE Shape'
  <2>1. Abandon /\ Live' = {} /\ Range(queue)' = {} /\ IsInjective(queue')
    BY <1>5, AbandonSteps, AbandonEmpties
  <2>2. \A k \in Key : queuedByKey'[k] = None
    BY <2>1 DEF Abandon
  <2> QED BY <2>1, <2>2 DEF Shape
<1> QED
  BY <1>1, <1>2, <1>3, <1>4, <1>5, QuietSteps DEF Next

-----------------------------------------------------------------------------
(* The counters of entries. *)

LEMMA CountsInit == Init => Counts
<1> SUFFICES ASSUME Init PROVE Counts
  OBVIOUS
<1>1. Live = {} /\ Live \cap ControlRequest = {}
  BY RangeEmpty DEF Init, Live
<1> QED BY <1>1, FS_EmptySet, BoundAssumption DEF Init, Counts

LEMMA CountsSame ==
  ASSUME Counts, Live' = Live, UNCHANGED <<outstanding, controlOutstanding>>
  PROVE  Counts'
  BY DEF Counts

LEMMA CountsStep ==
  ASSUME IInv, [Next]_vars
  PROVE  Counts'
<1> USE DEF IInv
<1>0. IsFiniteSet(Live) /\ IsFiniteSet(Live \cap ControlRequest)
  BY FS_Subset DEF Counts
<1>1. ASSUME Quiet PROVE Counts'
  BY <1>1, ShapeQuiet, CountsSame DEF Quiet
<1>2. ASSUME NEW r \in Request, Admit(r) PROVE Counts'
  <2>1. CASE Previous(r) # None
    <3>1. Coalesce(r) /\ Live' = Live
      BY <1>2, <2>1, CoalesceLive
    <3> QED BY <3>1, CountsSame DEF Coalesce
  <2>2. CASE Previous(r) = None
    <3>1. Push(r) /\ r \notin Live /\ Live' = Live \cup {r}
      BY <1>2, <2>2, PushLive
    <3>2. IsFiniteSet(Live') /\ Cardinality(Live') = outstanding + 1 /\ outstanding' = outstanding + 1
      BY <1>0, <3>1, FS_AddElement DEF Counts, Push
    <3>3. CASE r \in ControlRequest
      <4>1. (Live \cap ControlRequest)' = (Live \cap ControlRequest) \cup {r}
        BY <3>1, <3>3
      <4>2. Cardinality((Live \cap ControlRequest)') = controlOutstanding + 1
        BY <1>0, <3>1, <4>1, FS_AddElement DEF Counts
      <4>3. controlOutstanding' = controlOutstanding + 1 /\ ~(controlOutstanding >= ControlEntries)
        BY <1>2, <2>2, <3>1, <3>3 DEF Push, IsControl, Admit, Full
      <4> QED BY <3>2, <4>2, <4>3, BoundAssumption DEF Types, Counts
    <3>4. CASE r \notin ControlRequest
      <4>1. Cardinality((Live \cap ControlRequest)') = controlOutstanding
        <5>1. (Live \cap ControlRequest)' = Live \cap ControlRequest
          BY <3>1, <3>4
        <5> QED BY <5>1 DEF Counts
      <4>2. controlOutstanding' = controlOutstanding /\ ~(outstanding - controlOutstanding >= MaxEntries)
        BY <1>2, <2>2, <3>1, <3>4 DEF Push, IsControl, Admit, Full
      <4> QED BY <3>2, <4>1, <4>2, BoundAssumption DEF Types, Counts
    <3> QED BY <3>3, <3>4
  <2> QED BY <2>1, <2>2
<1>3. ASSUME Take PROVE Counts'
  <2>1. Live' = Live
    BY <1>3, TakeLive
  <2> QED BY <1>3, <2>1, CountsSame DEF Take, counters
<1>4. ASSUME Finish PROVE Counts'
  <2>1. CASE entry[active].dirty
    <3>1. Requeue /\ Live' = Live
      BY <1>4, <2>1, FinishLive
    <3> QED BY <3>1, CountsSame DEF Requeue, counters
  <2>2. CASE ~entry[active].dirty
    <3>1. Release /\ active \in Live /\ Live' = Live \ {active}
      BY <1>4, <2>2, FinishLive
    <3>2. IsFiniteSet(Live') /\ Cardinality(Live') = outstanding - 1 /\ outstanding' = outstanding - 1
      BY <1>0, <3>1, FS_RemoveElement DEF Counts, Release
    <3>3. CASE active \in ControlRequest
      <4>1. (Live \cap ControlRequest)' = (Live \cap ControlRequest) \ {active}
        BY <3>1
      <4>2. Cardinality((Live \cap ControlRequest)') = controlOutstanding - 1
        BY <1>0, <3>1, <3>3, <4>1, FS_RemoveElement DEF Counts
      <4>3. controlOutstanding' = controlOutstanding - 1
        BY <3>1, <3>3 DEF Release, IsControl
      <4> QED BY <3>2, <4>2, <4>3, BoundAssumption, SMTT(30) DEF Types, Counts
    <3>4. CASE active \notin ControlRequest
      <4>1. Cardinality((Live \cap ControlRequest)') = controlOutstanding
        <5>1. (Live \cap ControlRequest)' = Live \cap ControlRequest
          BY <3>1, <3>4
        <5> QED BY <5>1 DEF Counts
      <4>2. controlOutstanding' = controlOutstanding
        BY <3>1, <3>4 DEF Release, IsControl
      <4> QED BY <3>2, <4>1, <4>2, BoundAssumption DEF Types, Counts
    <3> QED BY <3>3, <3>4
  <2> QED BY <2>1, <2>2
<1>5. ASSUME LoopReturns \/ ScopeCloses \/ LoopDies PROVE Counts'
  <2>1. Abandon /\ Live' = {}
    BY <1>5, AbandonSteps, AbandonEmpties
  <2>2. (Live \cap ControlRequest)' = {}
    BY <2>1
  <2> QED BY <2>1, <2>2, FS_EmptySet, BoundAssumption DEF Abandon, Counts
<1> QED
  BY <1>1, <1>2, <1>3, <1>4, <1>5, QuietSteps DEF Next

-----------------------------------------------------------------------------
(* The bytes. *)

\* The lanes, and the sums over them in the terms of the lemmas on folds.
LEMMA Lanes ==
  ASSUME Types, Counts
  PROVE  /\ Live \in SUBSET Request /\ IsFiniteSet(Live)
         /\ Live \cap ControlRequest \in SUBSET Request /\ IsFiniteSet(Live \cap ControlRequest)
         /\ Bulk \in SUBSET Request /\ IsFiniteSet(Bulk) /\ entry \in [Request -> Entry]
<1>1. Live \in SUBSET Request /\ IsFiniteSet(Live)
  BY DEF Live, Types, Range, Counts
<1>2. IsFiniteSet(Live \cap ControlRequest) /\ IsFiniteSet(Live \ ControlRequest)
  BY <1>1, FS_Subset
<1> QED BY <1>1, <1>2 DEF Bulk, Types

LEMMA SizesAre ==
  Sizes <=> /\ bytes = BytesOf(entry, Live) /\ controlBytes = BytesOf(entry, Live \cap ControlRequest)
            /\ bytes - controlBytes = BytesOf(entry, Bulk) /\ BytesOf(entry, Bulk) <= MaxBytes
  BY BytesIs DEF Sizes

LEMMA SizesAreAfter ==
  Sizes' <=> /\ bytes' = BytesOf(entry', Live')
             /\ controlBytes' = BytesOf(entry', Live' \cap ControlRequest)
             /\ bytes' - controlBytes' = BytesOf(entry', Bulk') /\ BytesOf(entry', Bulk') <= MaxBytes
  BY BytesIsAfter DEF Sizes

LEMMA SizesInit == Init => Sizes
<1> SUFFICES ASSUME Init PROVE Sizes
  OBVIOUS
<1>1. Live = {} /\ Live \cap ControlRequest = {} /\ Bulk = {}
  BY RangeEmpty DEF Init, Live, Bulk
<1>2. entry \in [Request -> Entry]
  BY TypesInit DEF Types
<1>3. BytesOf(entry, {}) = 0
  <2>1. {} \in SUBSET Request /\ IsFiniteSet({})
    BY FS_EmptySet
  <2> QED BY <1>2, <2>1, BytesRemove
<1> QED BY <1>1, <1>3, SizesAre, BoundAssumption DEF Init

LEMMA SizesSame ==
  ASSUME Sizes, Live' = Live, UNCHANGED <<bytes, controlBytes, entry>>
  PROVE  Sizes'
<1>1. Bulk' = Bulk
  BY DEF Bulk
<1> QED BY <1>1, SizesAre, SizesAreAfter

LEMMA CoalesceSizes ==
  ASSUME IInv, Types', NEW r \in Request, Admit(r), Previous(r) # None
  PROVE  Sizes'
<1> USE DEF IInv
<1> DEFINE p == Previous(r)
           x == SizeOf[r] - entry[p].bytes
<1>1. /\ Coalesce(r) /\ Live' = Live /\ p \in Live /\ p \in Request
      /\ KeyOf[r] # NoKey /\ KeyOf[p] = KeyOf[r] /\ \A e \in Request : e # p => entry'[e] = entry[e]
  BY CoalesceLive
<1>2. (p \in ControlRequest <=> r \in ControlRequest) /\ Bulk' = Bulk
  BY <1>1, LaneAssumption DEF Bulk
<1>3. entry' \in [Request -> Entry] /\ entry'[p].bytes = SizeOf[r]
  BY <1>1 DEF Types, Coalesce
<1>4. SizeOf[r] \in Nat /\ entry[p].bytes \in Nat /\ ExtraBytes(r) = x
  BY <1>1, RequestAssumption, EntryBytes DEF Types, ExtraBytes
<1>5. ASSUME NEW S \in SUBSET Live
      PROVE  BytesOf(entry', S) = IF p \in S THEN BytesOf(entry, S) + x ELSE BytesOf(entry, S)
  <2>1. S \in SUBSET Request /\ IsFiniteSet(S) /\ entry \in [Request -> Entry]
    BY Lanes, FS_Subset
  <2>2. CASE p \in S
    <3>1. \A e \in S \ {p} : entry[e].bytes = entry'[e].bytes
      BY <1>1, <2>1
    <3>2. BytesOf(entry', S) = BytesOf(entry, S) + (entry'[p].bytes - entry[p].bytes)
      BY <1>3, <2>1, <2>2, <3>1, BytesReplace
    <3> QED BY <1>3, <2>2, <3>2
  <2>3. CASE p \notin S
    <3>1. \A e \in S : entry[e].bytes = entry'[e].bytes
      BY <1>1, <2>1, <2>3
    <3>2. BytesOf(entry, S) = BytesOf(entry', S)
      BY <1>3, <2>1, <3>1, BytesSame
    <3> QED BY <2>3, <3>2
  <2> QED BY <2>2, <2>3
<1>6. /\ Live \in SUBSET Live /\ Live \cap ControlRequest \in SUBSET Live /\ Bulk \in SUBSET Live
      /\ BytesOf(entry, Live) \in Nat /\ BytesOf(entry, Live \cap ControlRequest) \in Nat
  BY Lanes, BytesRemove DEF Bulk
<1>7. /\ bytes = BytesOf(entry, Live) /\ controlBytes = BytesOf(entry, Live \cap ControlRequest)
      /\ bytes - controlBytes = BytesOf(entry, Bulk) /\ BytesOf(entry, Bulk) <= MaxBytes
  BY SizesAre
<1>8. bytes' = bytes + x /\ controlBytes' = IF r \in ControlRequest THEN controlBytes + x ELSE controlBytes
  BY <1>1, <1>4 DEF Coalesce, IsControl
<1>9. bytes' = BytesOf(entry', Live')
  BY <1>1, <1>5, <1>6, <1>7, <1>8
<1>10. controlBytes' = BytesOf(entry', Live' \cap ControlRequest)
  <2>1. p \in Live \cap ControlRequest <=> r \in ControlRequest
    BY <1>1, <1>2
  <2> QED BY <1>1, <1>5, <1>6, <1>7, <1>8, <2>1
<1>11. bytes' - controlBytes' = BytesOf(entry', Bulk') /\ BytesOf(entry', Bulk') <= MaxBytes
  <2>1. p \in Bulk <=> r \notin ControlRequest
    BY <1>1, <1>2 DEF Bulk
  <2>2. BytesOf(entry', Bulk') = IF r \in ControlRequest THEN BytesOf(entry, Bulk) ELSE BytesOf(entry, Bulk) + x
    BY <1>2, <1>5, <1>6, <2>1
  <2>3. r \notin ControlRequest => bytes - controlBytes + x <= MaxBytes
    BY <1>4, <1>6, <1>7, BoundAssumption DEF Admit, Full, IsControl, OverBytes
  <2> HIDE DEF x
  <2>4. x \in Int
    BY <1>4 DEF x
  <2> QED BY <1>6, <1>7, <1>8, <2>2, <2>3, <2>4
<1> QED BY <1>9, <1>10, <1>11, SizesAreAfter

LEMMA PushSizes ==
  ASSUME IInv, Types', NEW r \in Request, Admit(r), Previous(r) = None
  PROVE  Sizes'
<1> USE DEF IInv
<1> DEFINE x == SizeOf[r]
<1>1. Push(r) /\ r \notin Live /\ Live' = Live \cup {r}
  BY PushLive
<1>2. /\ entry' \in [Request -> Entry] /\ entry'[r].bytes = x
      /\ \A e \in Request : e # r => entry'[e] = entry[e]
  BY <1>1 DEF Types, Push
<1>3. x \in Nat /\ ExtraBytes(r) = x
  BY RequestAssumption DEF ExtraBytes
<1>4. ASSUME NEW S \in SUBSET Live
      PROVE  BytesOf(entry', S) = BytesOf(entry, S) /\ BytesOf(entry', S \cup {r}) = x + BytesOf(entry, S)
  <2>1. S \in SUBSET Request /\ IsFiniteSet(S) /\ entry \in [Request -> Entry] /\ r \in Request \ S
    BY <1>1, Lanes, FS_Subset
  <2>2. \A e \in S : entry[e].bytes = entry'[e].bytes
    BY <1>2, <2>1
  <2>3. BytesOf(entry, S) = BytesOf(entry', S)
    BY <1>2, <2>1, <2>2, BytesSame
  <2>4. BytesOf(entry', S \cup {r}) = entry'[r].bytes + BytesOf(entry, S)
    BY <1>2, <2>1, <2>2, BytesAdd
  <2> QED BY <1>2, <2>3, <2>4
<1>5. /\ Live \in SUBSET Live /\ Live \cap ControlRequest \in SUBSET Live /\ Bulk \in SUBSET Live
      /\ BytesOf(entry, Live) \in Nat /\ BytesOf(entry, Live \cap ControlRequest) \in Nat
  BY Lanes, BytesRemove DEF Bulk
<1>6. /\ bytes = BytesOf(entry, Live) /\ controlBytes = BytesOf(entry, Live \cap ControlRequest)
      /\ bytes - controlBytes = BytesOf(entry, Bulk) /\ BytesOf(entry, Bulk) <= MaxBytes
  BY SizesAre
<1>7. bytes' = bytes + x /\ controlBytes' = IF r \in ControlRequest THEN controlBytes + x ELSE controlBytes
  BY <1>1 DEF Push, IsControl
<1>a. BytesOf(entry', Live') = x + BytesOf(entry, Live)
  BY <1>1, <1>4, <1>5
<1>b. x \in Nat
  BY <1>3
<1> HIDE DEF x
<1>8. bytes' = BytesOf(entry', Live')
  BY <1>a, <1>b, <1>5, <1>6, <1>7
<1>9. CASE r \in ControlRequest
  <2>1. Live' \cap ControlRequest = (Live \cap ControlRequest) \cup {r} /\ Bulk' = Bulk
    BY <1>1, <1>9 DEF Bulk
  <2>2. /\ BytesOf(entry', Live' \cap ControlRequest) = x + BytesOf(entry, Live \cap ControlRequest)
        /\ BytesOf(entry', Bulk') = BytesOf(entry, Bulk)
    BY <1>4, <1>5, <2>1
  <2>3. controlBytes' = BytesOf(entry', Live' \cap ControlRequest)
    BY <1>b, <1>5, <1>6, <1>7, <1>9, <2>2
  <2>4. bytes' - controlBytes' = BytesOf(entry', Bulk') /\ BytesOf(entry', Bulk') <= MaxBytes
    BY <1>b, <1>5, <1>6, <1>7, <1>9, <2>2
  <2> QED BY <1>8, <2>3, <2>4, SizesAreAfter
<1>10. CASE r \notin ControlRequest
  <2>1. Live' \cap ControlRequest = Live \cap ControlRequest /\ Bulk' = Bulk \cup {r}
    BY <1>1, <1>10 DEF Bulk
  <2>2. controlBytes' = BytesOf(entry', Live' \cap ControlRequest)
    BY <1>4, <1>5, <1>6, <1>7, <1>10, <2>1
  <2>3. bytes - controlBytes + x <= MaxBytes
    BY <1>3, <1>5, <1>6, <1>10, BoundAssumption DEF Admit, Full, IsControl, OverBytes
  <2>4. BytesOf(entry', Bulk') = x + BytesOf(entry, Bulk)
    BY <1>4, <1>5, <2>1
  <2>5. bytes' - controlBytes' = BytesOf(entry', Bulk') /\ BytesOf(entry', Bulk') <= MaxBytes
    BY <1>3, <1>5, <1>6, <1>7, <1>10, <2>3, <2>4
  <2> QED BY <1>8, <2>2, <2>5, SizesAreAfter
<1> QED BY <1>9, <1>10

LEMMA RequeueSizes ==
  ASSUME IInv, Types', Finish, entry[active].dirty
  PROVE  Sizes'
<1> USE DEF IInv
<1>1. Requeue /\ Live' = Live /\ active \in Request
  BY FinishLive
<1>2. /\ entry' \in [Request -> Entry] /\ entry \in [Request -> Entry]
      /\ \A e \in Request : entry'[e].bytes = entry[e].bytes
  BY <1>1 DEF Types, Requeue, Entry
<1>3. Bulk' = Bulk /\ bytes' = bytes /\ controlBytes' = controlBytes
  BY <1>1 DEF Bulk, Requeue, counters
<1>4. /\ BytesOf(entry', Live) = BytesOf(entry, Live)
      /\ BytesOf(entry', Live \cap ControlRequest) = BytesOf(entry, Live \cap ControlRequest)
      /\ BytesOf(entry', Bulk) = BytesOf(entry, Bulk)
  <2>1. ASSUME NEW S \in SUBSET Request, IsFiniteSet(S)
        PROVE  BytesOf(entry, S) = BytesOf(entry', S)
    <3>1. \A e \in S : entry[e].bytes = entry'[e].bytes
      BY <1>2
    <3> QED BY <1>2, <2>1, <3>1, BytesSame
  <2> QED BY <2>1, Lanes
<1> QED BY <1>1, <1>3, <1>4, SizesAre, SizesAreAfter

LEMMA ReleaseSizes ==
  ASSUME IInv, Finish, ~entry[active].dirty
  PROVE  Sizes'
<1> USE DEF IInv
<1> DEFINE x == entry[active].bytes
<1>1. Release /\ active \in Live /\ active \in Request /\ Live' = Live \ {active} /\ entry' = entry
  BY FinishLive DEF Release
<1>2. /\ Live \in SUBSET Request /\ IsFiniteSet(Live)
      /\ Live \cap ControlRequest \in SUBSET Request /\ IsFiniteSet(Live \cap ControlRequest)
      /\ Bulk \in SUBSET Request /\ IsFiniteSet(Bulk) /\ entry \in [Request -> Entry]
  BY Lanes
<1>3. ASSUME NEW S \in SUBSET Request, IsFiniteSet(S)
      PROVE  /\ BytesOf(entry, S) \in Nat
             /\ active \in S => BytesOf(entry, S) = x + BytesOf(entry, S \ {active})
                                /\ BytesOf(entry, S \ {active}) \in Nat
  BY <1>2, <1>3, BytesRemove
<1>4. x \in Nat
  BY <1>1, <1>2, EntryBytes
<1>5. /\ bytes = BytesOf(entry, Live) /\ controlBytes = BytesOf(entry, Live \cap ControlRequest)
      /\ bytes - controlBytes = BytesOf(entry, Bulk) /\ BytesOf(entry, Bulk) <= MaxBytes
  BY SizesAre
<1>6. /\ bytes' = bytes - x
      /\ controlBytes' = IF active \in ControlRequest THEN controlBytes - x ELSE controlBytes
  BY <1>1 DEF Release, Reserved, IsControl
<1> HIDE DEF x
<1>7. BytesOf(entry, Live) = x + BytesOf(entry, Live \ {active}) /\ BytesOf(entry, Live \ {active}) \in Nat
  BY <1>1, <1>2, <1>3
<1>8. BytesOf(entry, Live \cap ControlRequest) \in Nat /\ BytesOf(entry, Bulk) \in Nat
  BY <1>2, <1>3
<1>9. CASE active \in ControlRequest
  <2>1. /\ Live' \cap ControlRequest = (Live \cap ControlRequest) \ {active}
        /\ Bulk' = Bulk /\ active \in Live \cap ControlRequest
    BY <1>1, <1>9 DEF Bulk
  <2>2. /\ BytesOf(entry, Live \cap ControlRequest) = x + BytesOf(entry, (Live \cap ControlRequest) \ {active})
        /\ BytesOf(entry, (Live \cap ControlRequest) \ {active}) \in Nat
    BY <1>2, <1>3, <2>1
  <2>3. bytes' = BytesOf(entry, Live') /\ controlBytes' = BytesOf(entry, Live' \cap ControlRequest)
    <3>1. bytes' = BytesOf(entry, Live \ {active})
      BY <1>4, <1>5, <1>6, <1>7
    <3>2. controlBytes' = BytesOf(entry, (Live \cap ControlRequest) \ {active})
      BY <1>4, <1>5, <1>6, <1>9, <2>2
    <3> QED BY <1>1, <2>1, <3>1, <3>2
  <2>4. bytes' - controlBytes' = BytesOf(entry, Bulk') /\ BytesOf(entry, Bulk') <= MaxBytes
    BY <1>4, <1>5, <1>6, <1>7, <1>8, <1>9, <2>1
  <2> QED BY <1>1, <2>3, <2>4, SizesAreAfter
<1>10. CASE active \notin ControlRequest
  <2>1. Live' \cap ControlRequest = Live \cap ControlRequest /\ Bulk' = Bulk \ {active} /\ active \in Bulk
    BY <1>1, <1>10 DEF Bulk
  <2>2. BytesOf(entry, Bulk) = x + BytesOf(entry, Bulk \ {active}) /\ BytesOf(entry, Bulk \ {active}) \in Nat
    BY <1>2, <1>3, <2>1
  <2>3. bytes' = BytesOf(entry, Live') /\ controlBytes' = BytesOf(entry, Live' \cap ControlRequest)
    BY <1>1, <1>4, <1>5, <1>6, <1>7, <1>8, <1>10, <2>1
  <2>4. bytes' - controlBytes' = BytesOf(entry, Bulk \ {active}) /\ BytesOf(entry, Bulk \ {active}) <= MaxBytes
    BY <1>4, <1>5, <1>6, <1>7, <1>8, <1>10, <2>2, BoundAssumption
  <2> QED BY <1>1, <2>1, <2>3, <2>4, SizesAreAfter
<1> QED BY <1>9, <1>10

LEMMA SizesStep ==
  ASSUME IInv, [Next]_vars
  PROVE  Sizes'
<1> USE DEF IInv
<1>0. Types'
  BY TypesStep
<1>1. ASSUME Quiet PROVE Sizes'
  BY <1>1, ShapeQuiet, SizesSame DEF Quiet
<1>2. ASSUME NEW r \in Request, Admit(r) PROVE Sizes'
  BY <1>0, <1>2, CoalesceSizes, PushSizes
<1>3. ASSUME Take PROVE Sizes'
  <2>1. Live' = Live
    BY <1>3, TakeLive
  <2> QED BY <1>3, <2>1, SizesSame DEF Take, counters
<1>4. ASSUME Finish PROVE Sizes'
  BY <1>0, <1>4, RequeueSizes, ReleaseSizes
<1>5. ASSUME LoopReturns \/ ScopeCloses \/ LoopDies PROVE Sizes'
  <2>1. Abandon /\ Live' = {}
    BY <1>5, AbandonSteps, AbandonEmpties
  <2>2. Live' \cap ControlRequest = {} /\ Bulk' = {} /\ bytes' = 0 /\ controlBytes' = 0
    BY <2>1 DEF Bulk, Abandon
  <2>3. {} \in SUBSET Request /\ IsFiniteSet({}) /\ entry' \in [Request -> Entry]
    BY <1>0, FS_EmptySet DEF Types
  <2>4. BytesOf(entry', {}) = 0
    BY <2>3, BytesRemove
  <2> QED BY <2>1, <2>2, <2>4, SizesAreAfter, BoundAssumption
<1> QED
  BY <1>1, <1>2, <1>3, <1>4, <1>5, QuietSteps DEF Next

-----------------------------------------------------------------------------
(* The loop. *)

LEMMA LoopingInit == Init => Looping
  BY RequestAssumption DEF Init, Looping

\* A call made by the processing of an item is the only one the loop waits in.
LEMMA SelfTurn ==
  ASSUME Looping, NEW r \in Request, CanTry(r), r \in SelfNotify
  PROVE  /\ loop \in {"processing", "waiting"}
         /\ \A s \in SelfNotify : s # r => call[s] \notin {"waiting", "retry"}
<1>1. CASE call[r] = "new"
  BY <1>1 DEF CanTry, Looping
<1>2. CASE call[r] = "retry"
  BY <1>2 DEF Looping
<1> QED BY <1>1, <1>2 DEF CanTry

\* What a call does to the loop when nothing but its own state changes.
LEMMA LoopingQuiet ==
  ASSUME Types, Looping, Quiet, phase' = phase, NEW r \in Request, CanTry(r),
         NEW c \in Calls, call' = [call EXCEPT ![r] = c],
         loop' = (IF r \in SelfNotify THEN IF c = "waiting" THEN "waiting" ELSE "processing" ELSE loop),
         c # "retry"
  PROVE  Looping'
<1>1. CASE r \in SelfNotify
  <2>1. loop \in {"processing", "waiting"} /\ \A s \in SelfNotify : s # r => call'[s] \notin {"waiting", "retry"}
    BY <1>1, SelfTurn DEF Types
  <2>2. call'[r] = c /\ loop' \in {"processing", "waiting"} /\ (c = "waiting" => loop' = "waiting")
    BY <1>1 DEF Types
  <2> QED BY <2>1, <2>2 DEF Looping, Quiet
<1>2. CASE r \notin SelfNotify
  <2>1. loop' = loop /\ \A s \in SelfNotify : call'[s] = call[s]
    BY <1>2 DEF Types
  <2> QED BY <2>1, RequestAssumption DEF Looping, Quiet
<1> QED BY <1>1, <1>2

LEMMA LoopingStep ==
  ASSUME IInv, [Next]_vars
  PROVE  Looping'
<1> USE DEF IInv
<1>1. ASSUME NEW r \in Request, AdmitRefused(r) PROVE Looping'
  <2>1. \E c \in {"too_large", "unavailable"} : call' = [call EXCEPT ![r] = c]
    BY <1>1 DEF AdmitRefused
  <2>2. Quiet /\ CanTry(r) /\ phase' = phase /\ loop' = LoopAfter(r, loop)
    BY <1>1, QuietSteps DEF AdmitRefused
  <2> QED BY <2>1, <2>2, LoopingQuiet DEF LoopAfter, Calls, Settled
<1>2. ASSUME NEW r \in Request, AdmitSuperseded(r) PROVE Looping'
  <2>1. Quiet /\ CanTry(r) /\ phase' = phase /\ loop' = LoopAfter(r, loop)
        /\ call' = [call EXCEPT ![r] = "accepted"]
    BY <1>2, QuietSteps DEF AdmitSuperseded
  <2> QED BY <2>1, LoopingQuiet DEF LoopAfter, Calls, Settled
<1>3. ASSUME NEW r \in Request, AdmitFull(r) PROVE Looping'
  <2>1. Quiet /\ CanTry(r) /\ phase' = phase
    BY <1>3, QuietSteps DEF AdmitFull
  <2>2. CASE r \in Offer \/ RejectWhenFull
    <3>1. call' = [call EXCEPT ![r] = "full"] /\ loop' = LoopAfter(r, loop)
      BY <1>3, <2>2 DEF AdmitFull
    <3> QED BY <2>1, <3>1, LoopingQuiet DEF LoopAfter, Calls, Settled
  <2>3. CASE ~(r \in Offer \/ RejectWhenFull)
    <3>1. call' = [call EXCEPT ![r] = "waiting"] /\ loop' = IF r \in SelfNotify THEN "waiting" ELSE loop
      BY <1>3, <2>3 DEF AdmitFull
    <3> QED BY <2>1, <3>1, LoopingQuiet DEF Calls
  <2> QED BY <2>2, <2>3
<1>4. ASSUME NEW r \in Request, Admit(r) PROVE Looping'
  <2>1. /\ CanTry(r) /\ phase = "accepting" /\ loop # "done"
        /\ UNCHANGED <<phase, active, running>>
    BY <1>4 DEF Admit, Looping
  <2>2. active # None <=> loop' \in {"processing", "waiting"}
    BY <1>4, <2>1, SelfTurn DEF Admit, LoopAfter, Unparked, Looping
  <2>3. loop' # "done"
    BY <1>4, <2>1 DEF Admit, LoopAfter, Unparked
  <2>4. active # None => entry'[active].dirty \/ entry'[active].item = running
    <3>1. SUFFICES ASSUME active # None
                   PROVE  entry'[active].dirty \/ entry'[active].item = running
      OBVIOUS
    <3>2. active \in Request /\ active \in Live
      BY <3>1, Occupied DEF Types
    <3>3. CASE Previous(r) = active
      BY <1>4, <3>1, <3>2, <3>3, CoalesceLive
    <3>4. CASE Previous(r) # active /\ Previous(r) # None
      <4>1. entry'[active] = entry[active]
        BY <1>4, <3>2, <3>4, CoalesceLive
      <4> QED BY <3>1, <4>1 DEF Looping
    <3>5. CASE Previous(r) = None
      <4>1. Push(r) /\ r # active
        BY <1>4, <3>2, <3>5, PushLive
      <4>2. entry'[active] = entry[active]
        BY <3>2, <4>1 DEF Types, Push
      <4> QED BY <3>1, <4>2 DEF Looping
    <3> QED BY <3>3, <3>4, <3>5
  <2>5. \A s \in SelfNotify : call'[s] \in {"waiting", "retry"} => s # r /\ call[s] \in {"waiting", "retry"}
    BY <1>4, WokenIs, RequestAssumption DEF Types, Admit
  <2>6. CASE r \in SelfNotify
    <3>1. \A s \in SelfNotify : call'[s] \notin {"waiting", "retry"}
      BY <2>1, <2>5, <2>6, SelfTurn
    <3> QED BY <2>1, <2>2, <2>3, <2>4, <3>1 DEF Looping
  <2>7. CASE r \notin SelfNotify
    <3>1. loop = "waiting" => loop' = "waiting"
      BY <1>4, <2>7 DEF Admit, LoopAfter, Unparked
    <3> QED BY <2>1, <2>2, <2>3, <2>4, <2>5, <3>1 DEF Looping
  <2> QED BY <2>6, <2>7
<1>5. ASSUME NEW r \in Request, Interrupt(r) PROVE Looping'
  <2>1. \A s \in SelfNotify : call'[s] = call[s]
    BY <1>5, RequestAssumption DEF Types, Interrupt
  <2> QED BY <1>5, <2>1 DEF Interrupt, Looping
<1>6. ASSUME Take PROVE Looping'
  <2>1. active' \in Request /\ active' # None /\ running' = entry[active'].item /\ running' # None
    <3>1. active' \in Request
      BY <1>6, TakeLive DEF Types, Range
    <3> QED BY <1>6, <3>1, EntryType, RequestAssumption DEF Take
  <2> QED BY <1>6, <2>1 DEF Take, Looping
<1>7. ASSUME Park PROVE Looping'
  BY <1>7 DEF Park, Looping
<1>8. ASSUME Finish PROVE Looping'
  <2>1. \A s \in SelfNotify : call'[s] \notin {"waiting", "retry"}
    BY <1>8, WokenIs, RequestAssumption DEF Types, Finish, Looping
  <2>2. active' = None /\ running' = None /\ loop' = "scan"
    BY <1>8 DEF Finish
  <2> QED BY <2>1, <2>2 DEF Looping
<1>9. ASSUME LoopReturns \/ ScopeCloses \/ LoopDies PROVE Looping'
  <2>1. Abandon /\ phase' \in {"failed", "closed"}
    BY <1>9, AbandonSteps
  <2>2. \A s \in SelfNotify : call'[s] \notin {"waiting", "retry"}
    <3>1. SUFFICES ASSUME NEW s \in SelfNotify PROVE call'[s] \notin {"waiting", "retry"}
      OBVIOUS
    <3>2. s \in Request /\ call'[s] = IF call[s] \in {"waiting", "retry"} THEN "interrupted" ELSE Woken(call)[s]
      BY <2>1, RequestAssumption DEF Abandon
    <3> QED BY <3>2, WokenIs DEF Types
  <2> QED BY <2>1, <2>2 DEF Abandon, Looping
<1>10. ASSUME NEW d \in Drainer, StartDrain(d) \/ EndDrain(d) PROVE Looping'
  <2>1. /\ UNCHANGED <<entry, active, running, queue>>
        /\ \/ UNCHANGED <<phase, call, loop>>
           \/ phase' \in {"draining", "closed"} /\ (phase' = "draining" => phase = "accepting")
              /\ call' = Woken(call) /\ loop' = Unparked(loop)
    BY <1>10 DEF StartDrain, EndDrain
  <2>2. \A s \in SelfNotify : call'[s] \in {"waiting", "retry"} => call[s] \in {"waiting", "retry"}
    BY <2>1, WokenIs, RequestAssumption DEF Types
  <2> QED BY <2>1, <2>2 DEF Looping, Unparked
<1>11. ASSUME UNCHANGED vars PROVE Looping'
  BY <1>11 DEF vars, Looping
<1> QED
  BY <1>1, <1>2, <1>3, <1>4, <1>5, <1>6, <1>7, <1>8, <1>9, <1>10, <1>11 DEF Next

-----------------------------------------------------------------------------
(* The idle Deferreds. *)

LEMMA PendingInit == Init => Pending
  BY DEF Init, Pending, Idle

LEMMA PendingStep ==
  ASSUME IInv, [Next]_vars
  PROVE  Pending'
<1> USE DEF IInv
<1>0. Idle = Len(idles) /\ Idle \in Nat /\ Idle > 0 /\ Idle' = Len(idles')
  BY DEF Types, Idle
<1>1. ASSUME UNCHANGED <<idles, outstanding>> PROVE Pending'
  BY <1>1 DEF Pending, Idle
<1>2. ASSUME NEW r \in Request, Admit(r) PROVE Pending'
  <2>1. CASE Previous(r) # None
    <3>1. Coalesce(r)
      BY <1>2, <2>1, CoalesceLive
    <3> QED BY <1>1, <3>1 DEF Coalesce
  <2>2. CASE Previous(r) = None /\ outstanding = 0
    <3>1. idles' = Append(idles, "pending") /\ outstanding' = 1
      BY <1>2, <2>2, PushLive DEF Push
    <3>2. Idle' = Idle + 1 /\ idles'[Idle'] = "pending" /\ \A n \in 1 .. Idle : idles'[n] = idles[n]
      BY <1>0, <3>1 DEF Types
    <3>3. idles[Idle] # "pending"
      BY <2>2 DEF Pending
    <3>4. \A n \in 1 .. Idle' - 1 : idles'[n] # "pending"
      BY <1>0, <3>2, <3>3 DEF Pending
    <3>5. outstanding' > 0 /\ idles'[Idle'] = "pending"
      <4>1. outstanding' > 0
        BY <3>1
      <4> QED BY <3>2, <4>1
    <3> QED BY <3>4, <3>5 DEF Pending
  <2>3. CASE Previous(r) = None /\ outstanding # 0
    <3>1. idles' = idles /\ outstanding' = outstanding + 1
      BY <1>2, <2>3, PushLive DEF Push
    <3> QED BY <2>3, <3>1 DEF Types, Pending, Idle
  <2> QED BY <2>1, <2>2, <2>3
<1>3. ASSUME Finish PROVE Pending'
  <2>1. CASE entry[active].dirty
    <3>1. Requeue
      BY <1>3, <2>1, FinishLive
    <3> QED BY <1>1, <3>1 DEF Requeue, counters
  <2>2. CASE ~entry[active].dirty
    <3>1. Release /\ outstanding > 0
      BY <1>3, <2>2, FinishLive, Occupied, RequestAssumption
    <3>2. CASE outstanding = 1
      <4>1. idles' = SettleIdle("ok") /\ outstanding' = 0
        BY <3>1, <3>2 DEF Release
      <4> QED BY <1>0, <4>1, SettleIdleIs DEF Pending
    <3>3. CASE outstanding # 1
      <4>1. idles' = idles /\ outstanding' = outstanding - 1
        BY <3>1, <3>3 DEF Release
      <4> QED BY <3>1, <3>3, <4>1 DEF Types, Pending, Idle
    <3> QED BY <3>2, <3>3
  <2> QED BY <2>1, <2>2
<1>4. ASSUME LoopReturns \/ ScopeCloses \/ LoopDies PROVE Pending'
  <2>1. idles' = SettleIdle("error") /\ outstanding' = 0
    BY <1>4, AbandonSteps DEF Abandon, IdleFails
  <2> QED BY <1>0, <2>1, SettleIdleIs DEF Pending
<1>5. ASSUME Take PROVE Pending'
  BY <1>1, <1>5, SMTT(30) DEF Take, counters
<1> QED
  BY <1>1, <1>2, <1>3, <1>4, <1>5, QuietSteps DEF Next, Quiet

-----------------------------------------------------------------------------
(* Nothing accepted is forgotten. *)

\* What replaced an item goes on replacing it, and what was served stays served.
LEMMA ServedStays ==
  ASSUME Types, accepted' = accepted \/ \E t \in Request : accepted' = Append(accepted, t),
         attempted \subseteq attempted'
  PROVE  /\ \A s, r : Replaces(s, r) => Replaces(s, r)'
         /\ \A r : Served(r) => Served(r)'
         /\ \A i \in 1 .. Len(accepted) : accepted'[i] = accepted[i]
         /\ Len(accepted') >= Len(accepted) /\ Len(accepted) \in Nat /\ Len(accepted') \in Nat
<1>1. /\ \A i \in 1 .. Len(accepted) : accepted'[i] = accepted[i]
      /\ Len(accepted') >= Len(accepted) /\ Len(accepted) \in Nat /\ Len(accepted') \in Nat
      /\ DOMAIN accepted = 1 .. Len(accepted) /\ DOMAIN accepted' = 1 .. Len(accepted')
  BY SMTT(30) DEF Types
<1>2. \A s, r : Replaces(s, r) => Replaces(s, r)'
  <2>1. SUFFICES ASSUME NEW s, NEW r, Replaces(s, r) PROVE Replaces(s, r)'
    OBVIOUS
  <2>2. ASSUME NEW i \in 1 .. Len(accepted), NEW j \in 1 .. Len(accepted),
               i > j, accepted[i] = s, accepted[j] = r
        PROVE  \E m, n \in DOMAIN accepted' : m > n /\ accepted'[m] = s /\ accepted'[n] = r
    <3>1. i \in DOMAIN accepted' /\ j \in DOMAIN accepted' /\ accepted'[i] = s /\ accepted'[j] = r
      <4>1. i \in 1 .. Len(accepted') /\ j \in 1 .. Len(accepted')
        <5>1. Len(accepted') >= Len(accepted) /\ Len(accepted) \in Nat /\ Len(accepted') \in Nat
          BY <1>1
        <5> QED BY <5>1, SMTT(30)
      <4>2. accepted'[i] = accepted[i] /\ accepted'[j] = accepted[j]
        BY <1>1
      <4> QED BY <1>1, <2>2, <4>1, <4>2
    <3> QED BY <2>2, <3>1, SMTT(30)
  <2> QED BY <1>1, <2>1, <2>2 DEF Replaces
<1> QED BY <1>1, <1>2 DEF Served

\* A new item replaces every accepted one of its key.
LEMMA NewestReplaces ==
  ASSUME Types, NEW t \in Request, accepted' = Append(accepted, t)
  PROVE  /\ Range(accepted') = Range(accepted) \cup {t}
         /\ \A r \in Range(accepted) : KeyOf[r] = KeyOf[t] /\ KeyOf[r] # NoKey => Replaces(t, r)'
<1>1. Range(accepted') = Range(accepted) \cup {t}
  BY RangeAppend DEF Types
<1>2. ASSUME NEW r \in Range(accepted), KeyOf[r] = KeyOf[t], KeyOf[r] # NoKey
      PROVE  Replaces(t, r)'
  <2>1. PICK j \in 1 .. Len(accepted) : accepted[j] = r
    BY DEF Types, Range
  <2>2. /\ Len(accepted) + 1 \in DOMAIN accepted' /\ j \in DOMAIN accepted' /\ Len(accepted) + 1 > j
        /\ accepted'[Len(accepted) + 1] = t /\ accepted'[j] = r
    BY <2>1 DEF Types
  <2> QED BY <1>2, <2>2 DEF Replaces
<1> QED BY <1>1, <1>2

LEMMA CoveredInit == Init => Covered
<1> SUFFICES ASSUME Init PROVE Covered
  OBVIOUS
<1>1. Range(accepted) = {}
  BY RangeEmpty DEF Init
<1> QED BY <1>1 DEF Covered

\* The loop does not come back.
LEMMA DoneForGood ==
  ASSUME IInv, [Next]_vars, loop = "done"
  PROVE  loop' = "done" /\ Quiet /\ accepted' = accepted
<1> USE DEF IInv
<1>1. active = None /\ queue = <<>> /\ phase \in {"failed", "closed"}
  BY DEF Looping
<1>2. ASSUME NEW r \in Request, AdmitRefused(r) PROVE loop' = "done" /\ accepted' = accepted
  BY <1>2, SelfTurn DEF AdmitRefused, LoopAfter
<1>3. ASSUME NEW r \in Request PROVE ~AdmitSuperseded(r) /\ ~AdmitFull(r) /\ ~Admit(r)
  BY <1>1 DEF AdmitSuperseded, AdmitFull, Admit
<1>4. ASSUME NEW r \in Request, Interrupt(r) PROVE loop' = "done" /\ accepted' = accepted
  BY <1>4 DEF Interrupt
<1>5. ~Take /\ ~Park /\ ~Finish /\ ~LoopReturns /\ ~ScopeCloses /\ ~LoopDies
  BY DEF Take, Park, Finish, LoopReturns, ScopeCloses, LoopDies
<1>6. ASSUME NEW d \in Drainer, StartDrain(d) \/ EndDrain(d) PROVE loop' = "done" /\ accepted' = accepted
  BY <1>6 DEF StartDrain, EndDrain, Unparked
<1>7. UNCHANGED vars => loop' = "done" /\ accepted' = accepted
  BY DEF vars
<1> QED BY <1>2, <1>3, <1>4, <1>5, <1>6, <1>7, QuietSteps DEF Next

LEMMA CoveredQuiet ==
  ASSUME Types, Covered, Quiet, loop # "done", accepted' = accepted
  PROVE  Covered'
<1>1. Live' = Live
  BY DEF Quiet, Live
<1>2. \A r : Covers(r) => Covers(r)'
  BY <1>1, ServedStays DEF Quiet, Covers
<1>3. Range(accepted)' = Range(accepted)
  OBVIOUS
<1> QED BY <1>2, <1>3 DEF Covered

LEMMA CoveredStep ==
  ASSUME IInv, [Next]_vars
  PROVE  Covered'
<1> USE DEF IInv
<1>0. Live \subseteq Request
  BY DEF Live, Types, Range
<1> SUFFICES ASSUME loop' # "done" PROVE Covered'
  BY DEF Covered
<1>1. loop # "done" /\ \A r \in Range(accepted) : Covers(r)
  BY DoneForGood DEF Covered
<1>2. ASSUME Quiet, accepted' = accepted PROVE Covered'
  BY <1>1, <1>2, CoveredQuiet
<1>3. ASSUME NEW t \in Request, AdmitSuperseded(t) PROVE Covered'
  <2>0. PICK e : e = Previous(t)
    OBVIOUS
  <2>1. Quiet /\ accepted' = Append(accepted, t) /\ Superseded(t)
    BY <1>3, QuietSteps DEF AdmitSuperseded
  <2>2. Live' = Live /\ attempted' = attempted
    BY <2>1 DEF Quiet, Live
  <2>3. \A r \in Range(accepted) : Covers(r)'
    BY <1>1, <2>1, <2>2, ServedStays DEF Quiet, Covers
  <2>4. /\ e \in Live /\ KeyOf[entry[e].item] = KeyOf[t] /\ KeyOf[t] # NoKey
        /\ RevisionOf[entry[e].item] > RevisionOf[t]
    BY <2>0, <2>1, PreviousIs DEF Superseded, Shape
  <2>5. Replaces(entry[e].item, t)'
    BY <2>1, <2>4 DEF Replaces, Quiet
  <2>6. e = active => entry[e].dirty \/ entry[e].item = running
    BY <1>0, <2>4, RequestAssumption DEF Looping
  <2>7. Covers(t)'
    BY <2>1, <2>2, <2>4, <2>5, <2>6 DEF Covers, Quiet
  <2> QED BY <2>1, <2>3, <2>7, NewestReplaces DEF Covered
<1>4. ASSUME NEW t \in Request, Admit(t) PROVE Covered'
  <2>1. accepted' = Append(accepted, t) /\ UNCHANGED <<active, running, attempted>>
    BY <1>4 DEF Admit
  <2>2. /\ \A s, r : Replaces(s, r) => Replaces(s, r)'
        /\ \A r : Served(r) => Served(r)'
    BY <2>1, ServedStays
  <2>3. Replaces(t, t)'
    BY DEF Replaces
  <2>4. CASE Previous(t) # None
    <3>0. PICK e : e = Previous(t)
      OBVIOUS
    <3>1. /\ Live' = Live /\ e \in Live /\ KeyOf[t] # NoKey /\ KeyOf[e] = KeyOf[t]
          /\ entry'[e].item = t /\ (e = active => entry'[e].dirty)
          /\ \A f \in Live : f # e => entry'[f] = entry[f]
      BY <1>0, <1>4, <2>4, <3>0, CoalesceLive
    <3>2. ASSUME NEW r, Replaces(t, r)' PROVE Covers(r)'
      BY <2>1, <3>1, <3>2 DEF Covers
    <3>3. ASSUME NEW r \in Range(accepted) PROVE Covers(r)'
      <4>1. CASE Served(r) \/ (running # None /\ Replaces(running, r))
        BY <2>1, <2>2, <4>1 DEF Covers
      <4>2. ASSUME NEW f \in Live, Replaces(entry[f].item, r),
                   f = active => entry[f].dirty \/ entry[f].item = running
            PROVE  Covers(r)'
        <5>1. CASE f = e
          <6>1. KeyOf[r] = KeyOf[t]
            BY <3>1, <4>2, <5>1 DEF Replaces, Shape
          <6> QED BY <2>1, <3>1, <3>2, <6>1, NewestReplaces
        <5>2. CASE f # e
          BY <2>1, <2>2, <3>1, <4>2, <5>2 DEF Covers
        <5> QED BY <5>1, <5>2
      <4>3. \/ Served(r)
            \/ running # None /\ Replaces(running, r)
            \/ \E f \in Live : /\ Replaces(entry[f].item, r)
                               /\ f = active => entry[f].dirty \/ entry[f].item = running
        BY <1>1 DEF Covers
      <4> QED BY <4>1, <4>2, <4>3
    <3> QED BY <2>1, <2>3, <3>2, <3>3, NewestReplaces DEF Covered
  <2>5. CASE Previous(t) = None
    <3>1. /\ t \notin Live /\ Live' = Live \cup {t} /\ entry'[t].item = t
          /\ \A f \in Live : entry'[f] = entry[f]
      BY <1>0, <1>4, <2>5, PushLive DEF Types, Push
    <3>2. t # active
      BY <3>1, RequestAssumption DEF Live
    <3>3. Covers(t)'
      BY <2>1, <2>3, <3>1, <3>2 DEF Covers
    <3>4. ASSUME NEW r \in Range(accepted) PROVE Covers(r)'
      BY <1>1, <2>1, <2>2, <3>1 DEF Covers
    <3> QED BY <2>1, <3>3, <3>4, NewestReplaces DEF Covered
  <2> QED BY <2>4, <2>5
<1>5. ASSUME Take PROVE Covered'
  <2>1. /\ Live' = Live /\ active = None /\ running = None
        /\ running' = entry[active'].item /\ UNCHANGED <<entry, accepted, attempted>>
    BY <1>5, TakeLive DEF Take, Looping
  <2>2. ASSUME NEW r \in Range(accepted) PROVE Covers(r)'
    BY <1>1, <2>1, ServedStays DEF Covers
  <2> QED BY <2>1, <2>2 DEF Covered
<1>6. ASSUME Finish PROVE Covered'
  <2>1. /\ active \in Request /\ running \in Request /\ active \in Live /\ active' = None
        /\ attempted' = attempted \cup {running} /\ accepted' = accepted
    BY <1>6, FinishLive DEF Finish
  <2>2. /\ \A s, r : Replaces(s, r) => Replaces(s, r)'
        /\ \A r : Served(r) => Served(r)'
    BY <2>1, ServedStays
  <2>3. \A r : Replaces(running, r) => Served(r)'
    BY <2>1, <2>2 DEF Served
  <2>4. entry[active].dirty \/ entry[active].item = running
    BY <2>1, RequestAssumption DEF Looping
  <2>5. /\ \A f \in Live : entry'[f].item = entry[f].item
        /\ entry[active].dirty => Live' = Live
        /\ ~entry[active].dirty => Live' = Live \ {active}
    <3>1. CASE entry[active].dirty
      <4>1. Live' = Live /\ entry' = [entry EXCEPT ![active].dirty = FALSE]
        BY <1>6, <3>1, FinishLive DEF Requeue
      <4>2. \A f \in Request : entry'[f].item = entry[f].item
        BY <2>1, <4>1, EntryType DEF Types, Entry
      <4> QED BY <1>0, <3>1, <4>1, <4>2
    <3>2. CASE ~entry[active].dirty
      BY <1>6, <3>2, FinishLive DEF Release
    <3> QED BY <3>1, <3>2
  <2>6. ASSUME NEW r \in Range(accepted) PROVE Covers(r)'
    <3>1. CASE Served(r) \/ Replaces(running, r)
      BY <2>2, <2>3, <3>1 DEF Covers
    <3>2. ASSUME NEW f \in Live, Replaces(entry[f].item, r),
                 f = active => entry[f].dirty \/ entry[f].item = running
          PROVE  Covers(r)'
      <4>1. CASE f \in Live'
        <5>1. f # active' /\ Replaces(entry[f].item, r)'
          BY <1>0, <2>1, <2>2, <2>5, <3>2, RequestAssumption
        <5> QED BY <4>1, <5>1 DEF Covers
      <4>2. CASE f \notin Live'
        <5>1. entry[f].item = running
          BY <2>4, <2>5, <3>2, <4>2
        <5> QED BY <2>3, <3>2, <5>1 DEF Covers
      <4> QED BY <4>1, <4>2
    <3>3. \/ Served(r)
          \/ Replaces(running, r)
          \/ \E f \in Live : /\ Replaces(entry[f].item, r)
                             /\ f = active => entry[f].dirty \/ entry[f].item = running
      BY <1>1 DEF Covers
    <3> QED BY <3>1, <3>2, <3>3
  <2> QED BY <2>1, <2>6 DEF Covered
<1>7. ASSUME LoopReturns \/ ScopeCloses \/ LoopDies PROVE Covered'
  BY <1>7, AbandonSteps DEF Abandon
<1>8. ASSUME NEW r \in Request, AdmitRefused(r) \/ AdmitFull(r) \/ Interrupt(r) PROVE accepted' = accepted
  BY <1>8 DEF AdmitRefused, AdmitFull, Interrupt
<1>9. ASSUME NEW d \in Drainer, StartDrain(d) \/ EndDrain(d) PROVE accepted' = accepted
  BY <1>9 DEF StartDrain, EndDrain
<1>10. Park \/ UNCHANGED vars => accepted' = accepted
  BY DEF Park, vars
<1> QED
  BY <1>2, <1>3, <1>4, <1>5, <1>6, <1>7, <1>8, <1>9, <1>10, QuietSteps DEF Next

-----------------------------------------------------------------------------
(* The drains. *)

LEMMA DrainedInit == Init => Drained
<1> SUFFICES ASSUME Init PROVE Drained
  OBVIOUS
<1>1. Range(accepted) = {} /\ Len(accepted) = 0
  BY RangeEmpty DEF Init
<1>2. \A d \in Drainer : drain[d].state = "new" /\ drain[d].saw = 0
  BY DEF Init
<1> QED BY <1>1, <1>2 DEF Drained

\* While the loop lives, the last Deferred says ok only when nothing is in the works.
LEMMA IdleMeansServed ==
  ASSUME Types', Counts', Looping', Covered', Pending', loop' # "done", idles'[Idle'] = "ok"
  PROVE  \A r \in Range(accepted') : Served(r)'
<1>1. outstanding' = 0
  BY DEF Pending, Types
<1>2. Live' = {}
  <2>1. SUFFICES ASSUME NEW e \in Live' PROVE FALSE
    OBVIOUS
  <2>2. IsFiniteSet(Live') /\ Cardinality(Live') = 0
    BY <1>1 DEF Counts
  <2>3. Cardinality(Live' \ {e}) = 0 - 1 /\ Cardinality(Live' \ {e}) \in Nat
    BY <2>1, <2>2, FS_RemoveElement, FS_CardinalityType
  <2> QED BY <2>3
<1>3. active' = None /\ running' = None
  BY <1>2 DEF Live, Looping
<1> QED BY <1>2, <1>3 DEF Covered, Covers

\* The drains keep what they know when a Deferred is added or the last one settled.
LEMMA DrainsKeep ==
  ASSUME Types, Types', Drained,
         accepted' = accepted \/ \E t \in Request : accepted' = Append(accepted, t),
         attempted \subseteq attempted',
         idles'[Idle'] = "ok" => \A r \in Range(accepted') : Served(r)',
         Idle' >= Idle,
         \A n \in 1 .. Idle : idles'[n] = "ok" => idles[n] = "ok" \/ n = Idle',
         NEW d \in Drainer, drain'[d] = drain[d]
  PROVE  /\ drain'[d].saw <= Len(accepted')
         /\ drain'[d].state = "waiting" => drain'[d].idle \in 1 .. Idle'
         /\ drain'[d].state = "waiting" /\ idles'[drain'[d].idle] = "ok" => SawServed(d)'
         /\ drain'[d].state = "ok" => SawServed(d)'
<1>1. /\ Len(accepted') >= Len(accepted) /\ Len(accepted) \in Nat /\ Len(accepted') \in Nat
      /\ Idle \in Nat /\ Idle' \in Nat /\ drain[d].saw \in Nat
  BY ServedStays DEF Types, Idle, Drain
<1>2. SawServed(d) => SawServed(d)'
  <2>1. drain[d].saw <= Len(accepted)
    BY DEF Drained
  <2>2. \A i \in 1 .. drain[d].saw : i \in 1 .. Len(accepted)
    BY <1>1, <2>1
  <2>3. \A i \in 1 .. drain[d].saw : accepted'[i] = accepted[i]
    BY <2>2, ServedStays
  <2>4. \A r : Served(r) => Served(r)'
    BY ServedStays
  <2>5. SUFFICES ASSUME SawServed(d), NEW i \in 1 .. drain[d].saw PROVE Served(accepted[i])'
    BY DEF SawServed
  <2>6. PICK r : r = accepted[i]
    OBVIOUS
  <2>7. Served(r)'
    BY <2>4, <2>5, <2>6 DEF SawServed
  <2>8. accepted'[i] = r
    BY <2>3, <2>6
  <2> QED BY <2>7, <2>8
<1>3. drain[d].state = "waiting" => drain[d].idle \in 1 .. Idle
  BY DEF Drained
<1>4. ASSUME drain[d].state = "waiting", idles'[drain[d].idle] = "ok"
      PROVE  SawServed(d)'
  <2>1. CASE idles[drain[d].idle] = "ok"
    BY <1>2, <1>4, <2>1 DEF Drained
  <2>2. CASE drain[d].idle = Idle'
    <3>1. \A r \in Range(accepted') : Served(r)'
      BY <1>4, <2>2
    <3>2. SUFFICES ASSUME NEW i \in 1 .. drain'[d].saw PROVE Served(accepted[i])'
      BY DEF SawServed
    <3>3. i \in DOMAIN accepted'
      <4>1. drain[d].saw <= Len(accepted)
        BY DEF Drained
      <4>2. i \in 1 .. Len(accepted')
        BY <1>1, <4>1
      <4> QED BY <4>2 DEF Types
    <3>4. PICK r : r = accepted'[i]
      OBVIOUS
    <3>5. Served(r)'
      BY <3>1, <3>3, <3>4 DEF Range
    <3> QED BY <3>4, <3>5
  <2> QED BY <1>3, <1>4, <2>1, <2>2
<1>5. drain[d].saw <= Len(accepted) /\ (drain[d].state = "ok" => SawServed(d))
  BY DEF Drained
<1> QED BY <1>1, <1>2, <1>3, <1>4, <1>5

LEMMA DrainedStep ==
  ASSUME IInv, [Next]_vars, Types', Counts', Looping', Covered', Pending'
  PROVE  Drained'
<1> USE DEF IInv
<1>0. Idle \in Nat /\ Idle > 0 /\ Len(idles) = Idle /\ Len(idles') = Idle' /\ Idle' \in Nat
  BY DEF Types, Idle
<1>1. /\ accepted' = accepted \/ \E t \in Request : accepted' = Append(accepted, t)
      /\ attempted \subseteq attempted'
  <2>1. ASSUME NEW r \in Request, AdmitRefused(r) \/ AdmitFull(r) \/ Interrupt(r)
        PROVE  accepted' = accepted /\ attempted' = attempted
    BY <2>1 DEF AdmitRefused, AdmitFull, Interrupt
  <2>2. ASSUME NEW r \in Request, AdmitSuperseded(r) \/ Admit(r)
        PROVE  accepted' = Append(accepted, r) /\ attempted' = attempted
    BY <2>2 DEF AdmitSuperseded, Admit
  <2>3. ASSUME Take \/ Park \/ Finish PROVE accepted' = accepted /\ attempted \subseteq attempted'
    BY <2>3 DEF Take, Park, Finish
  <2>4. ASSUME LoopReturns \/ ScopeCloses \/ LoopDies PROVE accepted' = accepted /\ attempted' = attempted
    BY <2>4, AbandonSteps DEF Abandon
  <2>5. ASSUME NEW d \in Drainer, StartDrain(d) \/ EndDrain(d)
        PROVE  accepted' = accepted /\ attempted' = attempted
    BY <2>5 DEF StartDrain, EndDrain
  <2>6. UNCHANGED vars => accepted' = accepted /\ attempted' = attempted
    BY DEF vars
  <2> QED BY <2>1, <2>2, <2>3, <2>4, <2>5, <2>6 DEF Next
<1>2. \/ idles' = idles
      \/ idles' = Append(idles, "pending")
      \/ \E o \in {"ok", "error"} : idles' = SettleIdle(o)
  <2>1. ASSUME NEW r \in Request, Admit(r) PROVE idles' = idles \/ idles' = Append(idles, "pending")
    BY <2>1 DEF Admit, Coalesce, Push
  <2>2. ASSUME Finish PROVE idles' = idles \/ idles' = SettleIdle("ok")
    BY <2>2 DEF Finish, Requeue, Release
  <2>3. ASSUME LoopReturns \/ ScopeCloses \/ LoopDies PROVE idles' = SettleIdle("error")
    BY <2>3, AbandonSteps DEF Abandon, IdleFails
  <2>4. Take => idles' = idles
    BY DEF Take
  <2> QED BY <2>1, <2>2, <2>3, <2>4, QuietSteps DEF Next, Quiet
<1>3. Idle' >= Idle /\ \A n \in 1 .. Idle : idles'[n] = "ok" => idles[n] = "ok" \/ n = Idle'
  <2>1. CASE idles' = idles
    BY <1>0, <2>1
  <2>2. CASE idles' = Append(idles, "pending")
    BY <1>0, <2>2 DEF Types
  <2>3. ASSUME NEW o \in {"ok", "error"}, idles' = SettleIdle(o)
        PROVE  Idle' >= Idle /\ \A n \in 1 .. Idle : idles'[n] = "ok" => idles[n] = "ok" \/ n = Idle'
    <3>1. Idle' = Idle /\ \A n \in 1 .. Idle - 1 : idles'[n] = idles[n]
      BY <1>0, <2>3, SettleIdleIs
    <3> QED BY <1>0, <3>1
  <2> QED BY <1>2, <2>1, <2>2, <2>3
<1>4. idles'[Idle'] = "ok" => \A r \in Range(accepted') : Served(r)'
  <2>1. CASE loop' # "done"
    BY <2>1, IdleMeansServed
  <2>2. CASE loop = "done"
    <3>1. idles' = idles /\ Idle' = Idle /\ accepted' = accepted
      BY <2>2, DoneForGood, <1>0 DEF Quiet
    <3> QED BY <1>1, <3>1, ServedStays DEF Drained
  <2>3. CASE loop # "done" /\ loop' = "done"
    <3>1. LoopReturns \/ ScopeCloses \/ LoopDies
      <4>1. ASSUME NEW r \in Request
            PROVE  ~(AdmitRefused(r) \/ AdmitSuperseded(r) \/ AdmitFull(r) \/ Admit(r) \/ Interrupt(r))
        BY <2>3 DEF AdmitRefused, AdmitSuperseded, AdmitFull, Admit, Interrupt, LoopAfter, Unparked
      <4>2. ~Take /\ ~Park /\ ~Finish
        BY <2>3 DEF Take, Park, Finish
      <4>3. ASSUME NEW d \in Drainer PROVE ~StartDrain(d) /\ ~EndDrain(d)
        BY <2>3 DEF StartDrain, EndDrain, Unparked
      <4>4. ~UNCHANGED vars
        BY <2>3 DEF vars
      <4> QED BY <4>1, <4>2, <4>3, <4>4 DEF Next
    <3>2. idles' = SettleIdle("error") /\ accepted' = accepted
      BY <3>1, AbandonSteps DEF Abandon, IdleFails
    <3>3. idles'[Idle'] = "ok" => idles[Idle] = "ok"
      BY <1>0, <3>2, SettleIdleIs
    <3> QED BY <1>1, <3>2, <3>3, ServedStays DEF Drained
  <2> QED BY <2>1, <2>2, <2>3
<1> DEFINE Knows(d) ==
         /\ drain'[d].saw <= Len(accepted')
         /\ drain'[d].state = "waiting" => drain'[d].idle \in 1 .. Idle'
         /\ drain'[d].state = "waiting" /\ idles'[drain'[d].idle] = "ok" => SawServed(d)'
         /\ drain'[d].state = "ok" => SawServed(d)'
<1>5. ASSUME NEW d \in Drainer, drain'[d] = drain[d]
      PROVE  Knows(d)
  BY <1>1, <1>3, <1>4, <1>5, DrainsKeep
<1>6. ASSUME NEW d \in Drainer, StartDrain(d)
      PROVE  Knows(d)
  <2>1. /\ drain'[d].saw = Len(accepted) /\ accepted' = accepted /\ idles' = idles /\ Idle' = Idle
        /\ drain'[d].state = "waiting" => drain'[d].idle = Idle
        /\ drain'[d].state # "ok" /\ Len(accepted) \in Nat
    BY <1>0, <1>6 DEF Types, StartDrain
  <2>2. ASSUME drain'[d].state = "waiting", idles'[drain'[d].idle] = "ok"
        PROVE  SawServed(d)'
    <3>1. \A r \in Range(accepted') : Served(r)'
      BY <1>4, <2>1, <2>2
    <3>2. SUFFICES ASSUME NEW i \in 1 .. drain'[d].saw PROVE Served(accepted[i])'
      BY DEF SawServed
    <3>3. PICK r : r = accepted'[i]
      OBVIOUS
    <3>4. r \in Range(accepted')
      BY <2>1, <3>3 DEF Types, Range
    <3>5. Served(r)'
      BY <3>1, <3>4
    <3> QED BY <3>3, <3>5
  <2> QED BY <1>0, <2>1, <2>2
<1>7. ASSUME NEW d \in Drainer, EndDrain(d)
      PROVE  Knows(d)
  <2>1. /\ drain'[d].saw = drain[d].saw /\ drain'[d].state = idles[drain[d].idle]
        /\ drain[d].state = "waiting" /\ drain'[d].state # "waiting"
        /\ UNCHANGED <<accepted, attempted>>
    <3>1. drain[d].idle \in 1 .. Idle
      BY <1>7 DEF EndDrain, Drained
    <3>2. idles[drain[d].idle] \in {"pending", "ok", "error"}
      <4>1. drain[d].idle \in 1 .. Len(idles)
        BY <1>0, <3>1
      <4>2. idles \in Seq({"pending", "ok", "error"})
        BY DEF Types
      <4> QED BY <4>1, <4>2
    <3> QED BY <1>7, <3>2 DEF Types, EndDrain
  <2>2. ASSUME drain'[d].state = "ok" PROVE SawServed(d)'
    <3>1. SawServed(d)
      BY <2>1, <2>2 DEF Drained
    <3> QED BY <2>1, <3>1 DEF SawServed, Served, Replaces
  <2>3. drain'[d].saw <= Len(accepted')
    BY <2>1 DEF Drained
  <2> QED BY <2>1, <2>2, <2>3
<1>8. ASSUME NEW d \in Drainer
      PROVE  drain'[d] = drain[d] \/ StartDrain(d) \/ EndDrain(d)
  <2>1. ASSUME NEW c \in Drainer, c # d, StartDrain(c) \/ EndDrain(c) PROVE drain'[d] = drain[d]
    BY <2>1 DEF Types, StartDrain, EndDrain
  <2>2. ASSUME NEW r \in Request,
               AdmitRefused(r) \/ AdmitSuperseded(r) \/ AdmitFull(r) \/ Admit(r) \/ Interrupt(r)
        PROVE  drain' = drain
    BY <2>2 DEF AdmitRefused, AdmitSuperseded, AdmitFull, Admit, Interrupt
  <2>3. Take \/ Park \/ Finish \/ UNCHANGED vars => drain' = drain
    BY DEF Take, Park, Finish, vars
  <2>4. LoopReturns \/ ScopeCloses \/ LoopDies => drain' = drain
    BY AbandonSteps DEF Abandon
  <2> QED BY <2>1, <2>2, <2>3, <2>4 DEF Next
<1>9. \A d \in Drainer : Knows(d)
  BY <1>5, <1>6, <1>7, <1>8
<1> QED BY <1>4, <1>9 DEF Drained

-----------------------------------------------------------------------------
(* The theorems. *)

LEMMA IInvInit == Init => IInv
  BY TypesInit, ShapeInit, CountsInit, SizesInit, LoopingInit, CoveredInit, PendingInit, DrainedInit DEF IInv

LEMMA IInvStep == IInv /\ [Next]_vars => IInv'
<1> SUFFICES ASSUME IInv, [Next]_vars PROVE IInv'
  OBVIOUS
<1>1. Types' /\ Shape' /\ Counts' /\ Sizes' /\ Looping' /\ Covered' /\ Pending'
  BY TypesStep, ShapeStep, CountsStep, SizesStep, LoopingStep, CoveredStep, PendingStep
<1>2. Drained'
  BY <1>1, DrainedStep
<1> QED BY <1>1, <1>2 DEF IInv

\* The types, shape, counters, loop, coverage and Deferreds fit together in every
\* reachable state (makeDrainableWorker).
THEOREM Invariant == Spec => []IInv
  BY IInvInit, IInvStep, PTL DEF Spec

\* Every reachable state has the types the code gives its variables; no counter is negative.
THEOREM TypeCorrect == Spec => []TypeOK
<1>1. IInv => TypeOK
  <2>1. SUFFICES ASSUME IInv PROVE TypeOK
    OBVIOUS
  <2>2. bytes \in Nat /\ controlBytes \in Nat
    BY <2>1, Lanes, SizesAre, BytesRemove DEF IInv
  <2> QED BY <2>1, <2>2 DEF IInv, Types, TypeOK, Phases, Places, Calls, Drain
<1> QED BY <1>1, Invariant, PTL

\* The counters of entries and of bytes are exact and each lane keeps its limit, though an
\* entry changes its size with its item; a key has one live entry, the one the map of keys
\* knows while it is queued (admit, release, abandon).
THEOREM AccountingExactHolds == Spec => []AccountingExact
<1>1. IInv => EntriesExact
  <2>1. SUFFICES ASSUME IInv PROVE EntriesExact
    OBVIOUS
  <2>2. Bulk = Live \ ControlRequest
    BY DEF Bulk
  <2>3. /\ Cardinality(Live \ ControlRequest)
              = Cardinality(Live) - Cardinality(Live \cap ControlRequest)
    BY <2>1, FS_Difference DEF IInv, Counts
  <2>4. Cardinality(Bulk) <= MaxEntries
    BY <2>1, <2>2, <2>3 DEF IInv, Counts
  <2> QED BY <2>1, <2>4 DEF IInv, Counts, Shape, EntriesExact
<1>2. IInv => BytesExact
  BY DEF IInv, Sizes, BytesExact
<1>3. IInv => AccountingExact
  BY <1>1, <1>2 DEF AccountingExact
<1> QED BY <1>3, Invariant, PTL

\* Until the worker is closed or fails, an accepted item was processed, or it, or what
\* replaced it, is being processed or will be (coalescing and reruns).
THEOREM NothingLostHolds == Spec => []NothingLost
<1>1. IInv => NothingLost
  BY DEF IInv, Looping, Covered, Covers, NothingLost
<1> QED BY <1>1, Invariant, PTL

\* A drain that succeeds has seen the end of everything accepted before it was called,
\* whichever Deferred it waited on (drain, close).
THEOREM DrainIsCompleteHolds == Spec => []DrainIsComplete
<1>1. IInv => DrainIsComplete
  BY DEF IInv, Drained, SawServed, DrainIsComplete
<1> QED BY <1>1, Invariant, PTL
=============================================================================
