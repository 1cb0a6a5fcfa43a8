--------------------------- MODULE EventRouterProofs ---------------------------
EXTENDS EventRouter, FiniteSetTheorems, WellFoundedInduction, TLAPS

-----------------------------------------------------------------------------
(* Facts about numbers.                                                        *)

\* A bounded set of numbers has a greatest one.
LEMMA MaxIs ==
  ASSUME NEW T, T \subseteq Nat, T # {}, NEW b \in Nat, \A x \in T : x <= b
  PROVE  Max(T) \in T /\ \A x \in T : x <= Max(T)
<1> DEFINE Above == {x .. b : x \in T}
<1>1. Above \subseteq FiniteSubsetsOf(Nat) /\ Above # {}
  <2>1. ASSUME NEW x \in T PROVE x .. b \in FiniteSubsetsOf(Nat)
    <3>1. x \in Int /\ b \in Int /\ x .. b \subseteq Nat
      OBVIOUS
    <3>2. IsFiniteSet(x .. b)
      BY <3>1, FS_Interval
    <3> QED BY <3>1, <3>2 DEF FiniteSubsetsOf
  <2> QED BY <2>1
<1>2. PICK I \in Above : \A J \in Above : ~ (<<J, I>> \in StrictSubsetOrdering(Nat))
  BY <1>1, FS_StrictSubsetOrderingWellFounded, WFMin
<1>3. PICK m \in T : I = m .. b
  BY <1>2
<1>4. ASSUME NEW x \in T PROVE x <= m
  <2>1. CASE m < x
    <3>1. x .. b \subseteq m .. b /\ m \in m .. b /\ m \notin x .. b
      BY <2>1, <1>3
    <3>2. <<x .. b, I>> \in StrictSubsetOrdering(Nat)
      BY <3>1, <1>3 DEF StrictSubsetOrdering
    <3> QED BY <3>2, <1>2
  <2> QED BY <2>1
<1>5. \A x \in T : m >= x
  BY <1>4
<1>6. Max(T) \in T /\ \A x \in T : Max(T) >= x
  BY <1>3, <1>5 DEF Max
<1> QED BY <1>6

LEMMA MaxOfTwo ==
  ASSUME NEW a \in Nat, NEW b \in Nat
  PROVE  Max({a, b}) = IF a <= b THEN b ELSE a
<1>1. Max({a, b}) \in {a, b} /\ \A x \in {a, b} : x <= Max({a, b})
  <2>1. {a, b} \subseteq Nat /\ {a, b} # {} /\ a + b \in Nat /\ \A x \in {a, b} : x <= a + b
    OBVIOUS
  <2> QED BY <2>1, MaxIs
<1> QED BY <1>1

LEMMA MinOfTwo ==
  ASSUME NEW a \in Nat, NEW b \in Nat
  PROVE  Min({a, b}) = IF a <= b THEN a ELSE b
BY DEF Min

\* The store keeps its type and its cursor only grows.
LEMMA ReducedIs ==
  ASSUME NEW s \in Store, NEW E \in SUBSET Event, NEW d, d = Reduced(s, E)
  PROVE  /\ d \in Store
         /\ d.shown = s.shown \cup E
         /\ d.twice <=> s.twice \/ E \cap s.shown # {}
         /\ d.last = s.last \/ d.last \in E
         /\ s.last <= d.last
         /\ \A e \in E : e <= d.last
<1> DEFINE T == E \cup {s.last}
           m == Max(T)
<1>1. s.shown \in SUBSET Event /\ s.last \in 0 .. MaxEvents /\ s.twice \in BOOLEAN /\ MaxEvents \in Nat
  BY RouterAssumption DEF Store
<1>2. \A e \in E : e \in 1 .. MaxEvents
  BY DEF Event
<1>3. T \subseteq Nat /\ T # {} /\ \A e \in T : e \in 0 .. MaxEvents /\ e <= MaxEvents
  BY <1>1, <1>2
<1> HIDE DEF T
<1>4. m \in T /\ \A e \in T : e <= m
  BY <1>1, <1>3, MaxIs
<1>5. m \in 0 .. MaxEvents
  BY <1>3, <1>4
<1> HIDE DEF m
<1>6. d = [shown |-> s.shown \cup E, last |-> m, twice |-> s.twice \/ E \cap s.shown # {}]
  BY DEF Reduced, m, T
<1>7. d.last = m /\ d.shown = s.shown \cup E
  BY <1>6
<1>8. d.twice <=> s.twice \/ E \cap s.shown # {}
  <2> DEFINE again == s.twice \/ E \cap s.shown # {}
  <2>1. again \in BOOLEAN
    BY <1>1
  <2>2. d = [shown |-> s.shown \cup E, last |-> m, twice |-> again]
    BY <1>6
  <2> HIDE DEF again
  <2>3. d.twice = again
    BY <2>2
  <2> QED BY <2>1, <2>3 DEF again
<1>9. d \in Store
  <2>1. (s.twice \/ E \cap s.shown # {}) \in BOOLEAN /\ s.shown \cup E \in SUBSET Event
    BY <1>1
  <2> QED BY <1>5, <1>6, <2>1 DEF Store
<1>10. (m = s.last \/ m \in E) /\ s.last <= m /\ \A e \in E : e <= m
  BY <1>4 DEF T
<1>11. (d.last = s.last \/ d.last \in E) /\ s.last <= d.last /\ \A e \in E : e <= d.last
  BY <1>7, <1>10
<1> QED BY <1>7, <1>8, <1>9, <1>11

LEMMA HydratedIs ==
  ASSUME NEW s \in Store, NEW q \in 0 .. MaxEvents
  PROVE  /\ Hydrated(s, q) \in Store
         /\ q < s.last => Hydrated(s, q) = s
         /\ q >= s.last => /\ Hydrated(s, q).shown = 1 .. q /\ Hydrated(s, q).last = q
                           /\ ~Hydrated(s, q).twice
<1>1. s.last \in 0 .. MaxEvents /\ MaxEvents \in Nat
  BY RouterAssumption DEF Store
<1>2. CASE q < s.last
  BY <1>1, <1>2 DEF Hydrated
<1>3. CASE ~(q < s.last)
  <2>1. Hydrated(s, q) = [shown |-> 1 .. q, last |-> q, twice |-> FALSE]
    BY <1>3 DEF Hydrated
  <2>2. 1 .. q \in SUBSET Event
    BY <1>1 DEF Event
  <2> QED BY <1>1, <1>3, <2>1, <2>2 DEF Store
<1> QED BY <1>2, <1>3

-----------------------------------------------------------------------------
(* What each call does to the client's variables.                             *)

LEMMA PoisonedIs ==
  ASSUME NEW c \in Client, c.poisons < MaxPoison, NEW d, d = Poisoned(c)
  PROVE  /\ d \in Client
         /\ d.latest = c.committed /\ d.buffered = {} /\ ~d.shared /\ d.stale /\ d.again
         /\ d.invalid /\ d.immediate /\ ~d.synced /\ d.poisons = c.poisons + 1
         /\ (d.breaker <=> d.poisons = MaxPoison)
         /\ (d.timer <=> c.timer /\ ~d.breaker) /\ (d.recovery <=> c.recovery \/ ~d.breaker)
         /\ d.committed = c.committed /\ d.pending = c.pending /\ d.frame = c.frame
         /\ d.sync = c.sync /\ d.answer = c.answer /\ d.up = c.up /\ d.store = c.store
<1> DEFINE open == c.poisons + 1 >= MaxPoison
           t    == c.timer /\ ~open
           r    == c.recovery \/ ~open
<1>1. c.poisons \in Nat /\ MaxPoison \in Nat /\ c.poisons + 1 \in 0 .. MaxPoison
  BY RouterAssumption DEF Client
<1>2. d = [c EXCEPT !.latest = c.committed, !.immediate = TRUE, !.invalid = TRUE, !.stale = TRUE,
                    !.buffered = {}, !.shared = FALSE, !.again = TRUE, !.synced = FALSE,
                    !.poisons = c.poisons + 1, !.breaker = open, !.timer = t, !.recovery = r]
  BY DEF Poisoned
<1>3. open \in BOOLEAN /\ t \in BOOLEAN /\ r \in BOOLEAN
  OBVIOUS
<1>4. (open <=> c.poisons + 1 = MaxPoison) /\ (t <=> c.timer /\ ~open) /\ (r <=> c.recovery \/ ~open)
  BY <1>1
<1> HIDE DEF open, t, r
<1>5. d \in Client
  <2>1. {} \in SUBSET Event
    OBVIOUS
  <2> QED BY <1>1, <1>2, <1>3, <2>1, ZenonT(60) DEF Client
<1>6. /\ d.latest = c.committed /\ d.buffered = {} /\ ~d.shared /\ d.stale /\ d.again
      /\ d.invalid /\ d.immediate /\ ~d.synced /\ d.poisons = c.poisons + 1
  BY <1>2 DEF Client
<1>7. /\ d.committed = c.committed /\ d.pending = c.pending /\ d.frame = c.frame
      /\ d.sync = c.sync /\ d.answer = c.answer /\ d.up = c.up /\ d.store = c.store
  BY <1>2 DEF Client
<1>8. d.breaker = open /\ d.timer = t /\ d.recovery = r
  BY <1>2 DEF Client
<1>9. /\ d.breaker <=> d.poisons = MaxPoison
      /\ d.timer <=> c.timer /\ ~d.breaker
      /\ d.recovery <=> c.recovery \/ ~d.breaker
  BY <1>3, <1>4, <1>6, <1>8
<1> QED BY <1>5, <1>6, <1>7, <1>9

\* applyPendingBatch empties the list of pending events; the batch is reduced, or it is bad.
Quiet(c, d) ==
  /\ d.latest = c.latest /\ d.committed = c.committed /\ d.pending = c.pending
  /\ d.buffered = c.buffered /\ d.shared = c.shared /\ d.store = c.store
  /\ d.stale = c.stale /\ d.again = c.again /\ d.invalid = c.invalid /\ d.immediate = c.immediate
  /\ d.timer = c.timer /\ d.recovery = c.recovery /\ d.poisons = c.poisons
  /\ d.breaker = c.breaker /\ d.synced = c.synced

Applied(c, d) ==
  /\ d.latest = c.latest /\ d.buffered = c.buffered
  /\ d.stale = c.stale /\ d.again = c.again /\ d.invalid = c.invalid /\ d.immediate = c.immediate
  /\ d.timer = c.timer /\ d.recovery = c.recovery /\ d.poisons = c.poisons
  /\ d.breaker = c.breaker /\ d.synced = c.synced
  /\ d.committed = Max({c.committed, Last(c.pending)})
  /\ d.store = ReducedBatch(c.store, c.pending)

Spoiled(c, d) ==
  /\ d.latest = c.committed /\ d.committed = c.committed /\ d.buffered = {}
  /\ d.stale /\ d.again /\ d.invalid /\ d.immediate /\ ~d.synced /\ d.poisons = c.poisons + 1
  /\ (d.timer <=> c.timer /\ ~d.breaker) /\ (d.recovery <=> c.recovery \/ ~d.breaker)
  /\ d.store \in {c.store, ReducedBatch(c.store, c.pending)}

LEMMA BatchType ==
  ASSUME NEW c \in Client
  PROVE  /\ ToSet(c.pending) \in SUBSET Event
         /\ ReducedBatch(c.store, c.pending) \in Store
         /\ c.pending # <<>> => Last(c.pending) \in Event /\ Max({c.committed, Last(c.pending)}) \in 0 .. MaxEvents
<1>1. c.pending \in Seq(Event) /\ c.store \in Store /\ c.committed \in 0 .. MaxEvents /\ MaxEvents \in Nat
  BY RouterAssumption DEF Client
<1>2. ToSet(c.pending) \in SUBSET Event
  BY <1>1 DEF ToSet
<1>3. {e \in ToSet(c.pending) : e > c.store.last} \in SUBSET Event
  BY <1>2
<1>4. ReducedBatch(c.store, c.pending) \in Store
  <2> DEFINE done == Reduced(c.store, {e \in ToSet(c.pending) : e > c.store.last})
             again == done.twice \/ Repeats(c.pending, c.store.last)
  <2>1. done \in Store
    BY <1>1, <1>3, ReducedIs
  <2>2. again \in BOOLEAN
    OBVIOUS
  <2>3. ReducedBatch(c.store, c.pending) = [done EXCEPT !.twice = again]
    BY DEF ReducedBatch
  <2> HIDE DEF done, again
  <2> QED BY <2>1, <2>2, <2>3 DEF Store
<1>5. ASSUME c.pending # <<>>
      PROVE  Last(c.pending) \in Event /\ Max({c.committed, Last(c.pending)}) \in 0 .. MaxEvents
  <2>1. Last(c.pending) \in Event
    BY <1>1, <1>5 DEF Last
  <2>2. Last(c.pending) \in Nat /\ Last(c.pending) \in 0 .. MaxEvents /\ c.committed \in Nat
    BY <1>1, <2>1 DEF Event
  <2> QED BY <1>1, <2>1, <2>2, MaxOfTwo
<1> QED BY <1>2, <1>4, <1>5

LEMMA FlushedIs ==
  ASSUME NEW c \in Client, c.breaker <=> c.poisons = MaxPoison, NEW d, d = Flushed(c)
  PROVE  /\ d \in Client /\ ~d.frame
         /\ d.breaker <=> d.poisons = MaxPoison
         /\ d.sync = c.sync /\ d.answer = c.answer /\ d.up = c.up
         /\ c.breaker \/ c.pending = <<>> => Quiet(c, d)
         /\ ~(c.breaker \/ c.pending = <<>>) =>
               /\ d.pending = <<>> /\ ~d.shared
               /\ Applied(c, d) \/ Spoiled(c, d)
<1>1. CASE c.breaker \/ c.pending = <<>>
  <2>1. d = [c EXCEPT !.frame = FALSE]
    BY <1>1 DEF Flushed
  <2>2. d \in Client
    BY <2>1 DEF Client
  <2>3. ~d.frame /\ d.sync = c.sync /\ d.answer = c.answer /\ d.up = c.up /\ Quiet(c, d)
    BY <2>1 DEF Client, Quiet
  <2>4. d.breaker <=> d.poisons = MaxPoison
    BY <2>3 DEF Quiet
  <2> QED BY <1>1, <2>2, <2>3, <2>4
<1>2. CASE ~(c.breaker \/ c.pending = <<>>)
  <2> DEFINE batch == ToSet(c.pending)
             taken == [c EXCEPT !.pending = <<>>, !.frame = FALSE, !.shared = FALSE]
             rb    == ReducedBatch(c.store, c.pending)
             done  == [taken EXCEPT !.store = rb]
             last  == Max({c.committed, Last(c.pending)})
             good  == [done EXCEPT !.committed = last]
  <2>0. rb \in Store /\ last \in 0 .. MaxEvents /\ <<>> \in Seq(Event)
    BY <1>2, BatchType
  <2>1. c.poisons < MaxPoison
    BY <1>2, RouterAssumption DEF Client
  <2>2. d \in {Poisoned(taken), Poisoned(done), good}
    <3>1. taken.store = c.store /\ done.committed = c.committed
      BY DEF Client
    <3>2. done = [taken EXCEPT !.store = ReducedBatch(taken.store, c.pending)]
      BY <3>1
    <3>3. good = [done EXCEPT !.committed = Max({done.committed, Last(c.pending)})]
      BY <3>1
    <3>4. d = CASE batch \cap Throws # {} -> Poisoned(taken)
                [] batch \cap Throws = {} /\ batch \cap ThrowsLate # {} -> Poisoned(done)
                [] OTHER -> good
      BY <1>2, <3>2, <3>3 DEF Flushed
    <3> HIDE DEF batch, taken, done, good
    <3>5. CASE batch \cap Throws # {}
      BY <3>4, <3>5
    <3>6. CASE batch \cap Throws = {} /\ batch \cap ThrowsLate # {}
      BY <3>4, <3>6
    <3>7. CASE batch \cap Throws = {} /\ batch \cap ThrowsLate = {}
      BY <3>4, <3>7
    <3> QED BY <3>5, <3>6, <3>7
  <2> HIDE DEF rb, last
  <2>3. /\ taken \in Client /\ taken.pending = <<>> /\ ~taken.frame /\ ~taken.shared
        /\ taken.latest = c.latest /\ taken.committed = c.committed /\ taken.store = c.store
        /\ taken.sync = c.sync /\ taken.answer = c.answer /\ taken.up = c.up
        /\ taken.timer = c.timer /\ taken.recovery = c.recovery /\ taken.poisons = c.poisons
    <3>1. taken \in Client
      BY <2>0 DEF Client
    <3>2. /\ taken.pending = <<>> /\ ~taken.frame /\ ~taken.shared
          /\ taken.latest = c.latest /\ taken.committed = c.committed /\ taken.store = c.store
      BY DEF Client
    <3>3. /\ taken.sync = c.sync /\ taken.answer = c.answer /\ taken.up = c.up
          /\ taken.timer = c.timer /\ taken.recovery = c.recovery /\ taken.poisons = c.poisons
      BY DEF Client
    <3> QED BY <3>1, <3>2, <3>3
  <2>4. /\ done \in Client /\ done.pending = <<>> /\ ~done.frame /\ ~done.shared
        /\ done.latest = c.latest /\ done.committed = c.committed /\ done.store = rb
        /\ done.sync = c.sync /\ done.answer = c.answer /\ done.up = c.up
        /\ done.timer = c.timer /\ done.recovery = c.recovery /\ done.poisons = c.poisons
    <3>1. done \in Client
      BY <2>0 DEF Client
    <3>2. /\ done.pending = <<>> /\ ~done.frame /\ ~done.shared
          /\ done.latest = c.latest /\ done.committed = c.committed /\ done.store = rb
      BY DEF Client
    <3>3. /\ done.sync = c.sync /\ done.answer = c.answer /\ done.up = c.up
          /\ done.timer = c.timer /\ done.recovery = c.recovery /\ done.poisons = c.poisons
      BY DEF Client
    <3> QED BY <3>1, <3>2, <3>3
  <2>5. CASE d = good
    <3>1. good \in Client
      BY <2>0 DEF Client
    <3>2. /\ ~good.frame /\ ~good.shared /\ good.pending = <<>>
          /\ good.sync = c.sync /\ good.answer = c.answer /\ good.up = c.up
          /\ good.committed = last /\ good.store = rb /\ good.latest = c.latest
      BY DEF Client
    <3>3. /\ good.buffered = c.buffered /\ good.stale = c.stale /\ good.again = c.again
          /\ good.invalid = c.invalid /\ good.immediate = c.immediate
          /\ good.timer = c.timer /\ good.recovery = c.recovery /\ good.poisons = c.poisons
          /\ good.breaker = c.breaker /\ good.synced = c.synced
      BY DEF Client
    <3> HIDE DEF good
    <3>4. Applied(c, d)
      BY <2>5, <3>2, <3>3 DEF Applied, rb, last
    <3> QED BY <1>2, <2>5, <3>1, <3>2, <3>3, <3>4
  <2> HIDE DEF taken, done
  <2>6. CASE d = Poisoned(taken)
    <3>1. /\ d \in Client
          /\ d.latest = c.committed /\ d.buffered = {} /\ ~d.shared /\ d.stale /\ d.again
          /\ d.invalid /\ d.immediate /\ ~d.synced /\ d.poisons = c.poisons + 1
          /\ (d.breaker <=> d.poisons = MaxPoison)
          /\ (d.timer <=> c.timer /\ ~d.breaker) /\ (d.recovery <=> c.recovery \/ ~d.breaker)
          /\ d.committed = c.committed /\ d.pending = <<>> /\ ~d.frame
          /\ d.sync = c.sync /\ d.answer = c.answer /\ d.up = c.up /\ d.store = c.store
      BY <2>1, <2>3, <2>6, PoisonedIs
    <3>2. Spoiled(c, d)
      BY <3>1 DEF Spoiled
    <3> QED BY <1>2, <3>1, <3>2
  <2>7. CASE d = Poisoned(done)
    <3>1. /\ d \in Client
          /\ d.latest = c.committed /\ d.buffered = {} /\ ~d.shared /\ d.stale /\ d.again
          /\ d.invalid /\ d.immediate /\ ~d.synced /\ d.poisons = c.poisons + 1
          /\ (d.breaker <=> d.poisons = MaxPoison)
          /\ (d.timer <=> c.timer /\ ~d.breaker) /\ (d.recovery <=> c.recovery \/ ~d.breaker)
          /\ d.committed = c.committed /\ d.pending = <<>> /\ ~d.frame
          /\ d.sync = c.sync /\ d.answer = c.answer /\ d.up = c.up /\ d.store = rb
      BY <2>1, <2>4, <2>7, PoisonedIs
    <3>2. Spoiled(c, d)
      BY <3>1 DEF Spoiled, rb
    <3> QED BY <1>2, <3>1, <3>2
  <2> QED BY <2>2, <2>5, <2>6, <2>7
<1> QED BY <1>1, <1>2

\* What bufferEvent leaves when the buffer is full, and otherwise.
Overflown(c) ==
  [c EXCEPT !.invalid = TRUE, !.stale = TRUE, !.buffered = {}, !.shared = FALSE,
            !.again = TRUE, !.synced = FALSE]
Kept(c, e) ==
  [c EXCEPT !.buffered = c.buffered \cup {e},
            !.pending = IF c.shared THEN Append(c.pending, e) ELSE c.pending]

LEMMA BufferedIs ==
  ASSUME NEW c \in Client, NEW e \in Event
  PROVE  \/ (e <= c.latest \/ c.invalid) /\ Buffered(c, e) = c
         \/ /\ e > c.latest /\ ~c.invalid /\ Cardinality(c.buffered) >= MaxBuffer
            /\ Buffered(c, e) = Overflown(c)
         \/ /\ e > c.latest /\ ~c.invalid /\ ~(Cardinality(c.buffered) >= MaxBuffer)
            /\ Buffered(c, e) = Kept(c, e)
<1>0. c.latest \in Nat /\ e \in Nat
  BY RouterAssumption DEF Client, Event
<1>1. CASE e <= c.latest \/ c.invalid
  BY <1>0, <1>1 DEF Buffered, Overflown, Kept
<1>2. CASE e > c.latest /\ ~c.invalid /\ Cardinality(c.buffered) >= MaxBuffer
  <2>1. ~(e <= c.latest \/ c.invalid)
    BY <1>0, <1>2
  <2> QED BY <1>2, <2>1 DEF Buffered, Overflown, Kept
<1>3. CASE e > c.latest /\ ~c.invalid /\ ~(Cardinality(c.buffered) >= MaxBuffer)
  <2>1. ~(e <= c.latest \/ c.invalid)
    BY <1>0, <1>3
  <2> QED BY <1>3, <2>1 DEF Buffered, Overflown, Kept
<1> QED BY <1>0, <1>1, <1>2, <1>3

\* The run of buffered events that continues the stream ends before the first bad one.
Bad(c)  == DrainRun(c) \cap (Throws \cup ThrowsLate)
Good(c) == DrainRun(c) \ Bad(c)
Head0(c) == IF Good(c) = {} THEN c.latest ELSE Max(Good(c))
Committed0(c) == IF Good(c) = {} THEN c.committed ELSE Head0(c)

LEMMA RunIs ==
  ASSUME NEW c \in Client
  PROVE  /\ DrainRun(c) \subseteq c.buffered /\ DrainRun(c) \in SUBSET Event
         /\ \A e \in DrainRun(c) : e \in Nat /\ e > c.latest
         /\ Good(c) \in SUBSET Event /\ Bad(c) \in SUBSET Event
         /\ Head0(c) \in 0 .. MaxEvents /\ c.latest <= Head0(c)
         /\ Head0(c) \in Good(c) \/ Head0(c) = c.latest
         /\ \A e \in Good(c) : e <= Head0(c)
         /\ Committed0(c) \in 0 .. MaxEvents
<1>1. /\ c.buffered \in SUBSET Event /\ c.latest \in 0 .. MaxEvents /\ c.committed \in 0 .. MaxEvents
      /\ MaxEvents \in Nat
  BY RouterAssumption DEF Client
<1>2. DrainRun(c) \subseteq c.buffered /\ DrainRun(c) \in SUBSET Event
  BY <1>1 DEF DrainRun
<1>3. \A e \in DrainRun(c) : e \in 1 .. MaxEvents /\ e \in Nat /\ e > c.latest
  <2>1. \A e \in DrainRun(c) : e \in 1 .. MaxEvents
    BY <1>2 DEF Event
  <2>2. \A e \in DrainRun(c) : e > c.latest
    BY DEF DrainRun
  <2> QED BY <1>1, <2>1, <2>2
<1>4. Good(c) \subseteq DrainRun(c) /\ Bad(c) \subseteq DrainRun(c)
  BY DEF Good, Bad
<1>5. CASE Good(c) = {}
  BY <1>1, <1>2, <1>3, <1>4, <1>5 DEF Head0, Committed0
<1>6. CASE Good(c) # {}
  <2>1. Max(Good(c)) \in Good(c) /\ \A e \in Good(c) : e <= Max(Good(c))
    <3>1. Good(c) \subseteq Nat /\ \A e \in Good(c) : e <= MaxEvents
      BY <1>1, <1>3, <1>4
    <3> QED BY <1>1, <1>6, <3>1, MaxIs
  <2>2. Head0(c) = Max(Good(c)) /\ Committed0(c) = Head0(c)
    BY <1>6 DEF Head0, Committed0
  <2>3. Head0(c) \in 1 .. MaxEvents /\ Head0(c) > c.latest
    BY <1>3, <1>4, <2>1, <2>2
  <2> QED BY <1>1, <1>2, <1>3, <1>4, <2>1, <2>2, <2>3
<1> QED BY <1>5, <1>6

\* drainBufferedEvents reduces the good events of the run; a bad one ends in poison.
LEMMA DrainedIs ==
  ASSUME NEW c \in Client, c.poisons < MaxPoison, c.breaker <=> c.poisons = MaxPoison,
         NEW d, d = Drained(c)
  PROVE  /\ d \in Client
         /\ d.breaker <=> d.poisons = MaxPoison
         /\ d.pending = c.pending /\ d.frame = c.frame /\ ~d.shared
         /\ d.sync = c.sync /\ d.answer = c.answer /\ d.up = c.up /\ d.committed = Committed0(c)
         /\ Bad(c) = {} =>
              /\ d.latest = Head0(c) /\ d.buffered = {e \in c.buffered : e > Head0(c)}
              /\ d.stale = c.stale /\ d.again = c.again /\ d.invalid = c.invalid
              /\ d.immediate = c.immediate /\ d.timer = c.timer /\ d.recovery = c.recovery
              /\ d.poisons = c.poisons /\ d.breaker = c.breaker /\ d.synced = c.synced
              /\ d.store = Reduced(c.store, Good(c))
         /\ Bad(c) # {} =>
              /\ d.latest = Committed0(c) /\ d.buffered = {} /\ d.stale /\ d.again /\ d.invalid
              /\ d.immediate /\ ~d.synced /\ d.poisons = c.poisons + 1
              /\ (d.timer <=> c.timer /\ ~d.breaker) /\ (d.recovery <=> c.recovery \/ ~d.breaker)
              /\ d.store = Reduced(Reduced(c.store, Good(c)), Bad(c) \ Throws)
<1> DEFINE head == Head0(c)
           comm == Committed0(c)
           good == Reduced(c.store, Good(c))
           late == Reduced(good, Bad(c) \ Throws)
           rest == {e \in c.buffered : e > head}
           done == [c EXCEPT !.buffered = {}, !.shared = FALSE, !.latest = head,
                             !.committed = comm, !.store = good]
           hurt == [done EXCEPT !.store = late]
           well == [done EXCEPT !.buffered = rest]
<1>1. /\ good \in Store /\ late \in Store /\ rest \in SUBSET Event /\ {} \in SUBSET Event
      /\ head \in 0 .. MaxEvents /\ comm \in 0 .. MaxEvents
  <2>1. c.store \in Store /\ c.buffered \in SUBSET Event
    BY DEF Client
  <2>2. good \in Store
    BY <2>1, RunIs, ReducedIs
  <2>3. Bad(c) \ Throws \in SUBSET Event
    BY RunIs
  <2>4. late \in Store
    BY <2>2, <2>3, ReducedIs
  <2> QED BY <2>1, <2>2, <2>4, RunIs
<1>2. d = IF Bad(c) # {} THEN Poisoned(hurt) ELSE well
  <2>1. done.store = good
    BY DEF Client
  <2>2. hurt = [done EXCEPT !.store = Reduced(done.store, Bad(c) \ Throws)]
    BY <2>1
  <2>3. d = CASE Bad(c) # {} -> Poisoned([done EXCEPT !.store = Reduced(done.store, Bad(c) \ Throws)])
              [] OTHER -> well
    BY DEF Drained, Bad, Good, Head0, Committed0
  <2> HIDE DEF done, hurt, well
  <2> QED BY <2>2, <2>3
<1> HIDE DEF head, comm, good, late, rest
<1>3. CASE Bad(c) = {}
  <2>1. well \in Client
    BY <1>1 DEF Client
  <2>2. /\ well.pending = c.pending /\ well.frame = c.frame /\ ~well.shared
        /\ well.sync = c.sync /\ well.answer = c.answer /\ well.up = c.up /\ well.committed = comm
    BY DEF Client
  <2>3. /\ well.latest = head /\ well.buffered = rest /\ well.stale = c.stale /\ well.again = c.again
        /\ well.invalid = c.invalid /\ well.immediate = c.immediate
    BY DEF Client
  <2>4. /\ well.timer = c.timer /\ well.recovery = c.recovery
        /\ well.poisons = c.poisons /\ well.breaker = c.breaker /\ well.synced = c.synced
        /\ well.store = good
    BY DEF Client
  <2>5. d = well
    BY <1>2, <1>3
  <2> HIDE DEF well
  <2> QED BY <1>3, <2>1, <2>2, <2>3, <2>4, <2>5 DEF head, comm, good, rest
<1>4. CASE Bad(c) # {}
  <2>1. hurt \in Client
    BY <1>1 DEF Client
  <2>2. /\ hurt.pending = c.pending /\ hurt.frame = c.frame /\ hurt.committed = comm
        /\ hurt.sync = c.sync /\ hurt.answer = c.answer /\ hurt.up = c.up
        /\ hurt.timer = c.timer /\ hurt.recovery = c.recovery /\ hurt.poisons = c.poisons
        /\ hurt.store = late
    BY DEF Client
  <2>3. d = Poisoned(hurt)
    BY <1>2, <1>4
  <2> HIDE DEF hurt
  <2>4. /\ d \in Client
        /\ d.latest = hurt.committed /\ d.buffered = {} /\ ~d.shared /\ d.stale /\ d.again
        /\ d.invalid /\ d.immediate /\ ~d.synced /\ d.poisons = hurt.poisons + 1
        /\ (d.breaker <=> d.poisons = MaxPoison)
        /\ (d.timer <=> hurt.timer /\ ~d.breaker) /\ (d.recovery <=> hurt.recovery \/ ~d.breaker)
        /\ d.committed = hurt.committed /\ d.pending = hurt.pending /\ d.frame = hurt.frame
        /\ d.sync = hurt.sync /\ d.answer = hurt.answer /\ d.up = hurt.up /\ d.store = hurt.store
    BY <2>1, <2>2, <2>3, PoisonedIs
  <2> QED BY <1>4, <2>2, <2>4 DEF comm, good, late
<1> QED BY <1>3, <1>4

\* syncSnapshot up to its first await.
LEMMA SynchronizingIs ==
  ASSUME NEW c \in Client, c.breaker <=> c.poisons = MaxPoison, NEW d, d = Synchronizing(c),
         NEW f, f = Flushed(c)
  PROVE  /\ d \in Client
         /\ d.breaker <=> d.poisons = MaxPoison
         /\ d.up = c.up
         /\ c.breaker => d = c
         /\ ~c.breaker /\ c.sync # "no" =>
              /\ d.again /\ d.sync = c.sync /\ d.answer = c.answer /\ d.frame = c.frame
              /\ Quiet([c EXCEPT !.again = TRUE], d)
              /\ d = [c EXCEPT !.again = TRUE]
         /\ ~c.breaker /\ c.sync = "no" /\ f.breaker => d = f
         /\ ~c.breaker /\ c.sync = "no" /\ ~f.breaker =>
              /\ d.sync \in {"sent", "queued"} /\ d.answer = NoAnswer
              /\ ~d.stale /\ ~d.invalid /\ ~d.immediate /\ ~d.again /\ ~d.synced /\ ~d.recovery
              /\ d.latest = f.latest /\ d.committed = f.committed /\ d.pending = f.pending
              /\ d.frame = f.frame /\ d.buffered = f.buffered /\ d.shared = f.shared
              /\ d.timer = f.timer /\ d.poisons = f.poisons /\ d.breaker = f.breaker
              /\ d.store = f.store
<1>f. f \in Client /\ (f.breaker <=> f.poisons = MaxPoison) /\ f.up = c.up
  BY FlushedIs
<1>1. CASE c.breaker
  BY <1>1 DEF Synchronizing
<1>2. CASE ~c.breaker /\ c.sync # "no"
  <2>1. d = [c EXCEPT !.again = TRUE]
    BY <1>2 DEF Synchronizing
  <2>2. d \in Client
    BY <2>1 DEF Client
  <2>3. d.again /\ d.sync = c.sync /\ d.answer = c.answer /\ d.frame = c.frame /\ d.up = c.up
        /\ d.breaker = c.breaker /\ d.poisons = c.poisons
    BY <2>1 DEF Client
  <2>4. Quiet([c EXCEPT !.again = TRUE], d)
    BY <2>1 DEF Quiet
  <2> QED BY <1>2, <2>1, <2>2, <2>3, <2>4
<1>3. CASE ~c.breaker /\ c.sync = "no" /\ f.breaker
  <2>1. d = f
    BY <1>3 DEF Synchronizing
  <2> QED BY <1>f, <1>3, <2>1
<1>4. CASE ~c.breaker /\ c.sync = "no" /\ ~f.breaker
  <2> DEFINE s == IF f.up THEN "sent" ELSE "queued"
  <2>1. d = [f EXCEPT !.recovery = FALSE, !.sync = s, !.answer = NoAnswer, !.stale = FALSE,
                      !.invalid = FALSE, !.immediate = FALSE, !.again = FALSE, !.synced = FALSE]
    BY <1>4 DEF Synchronizing
  <2>2. s \in {"sent", "queued"} /\ NoAnswer \in NoAnswer .. MaxEvents
    BY RouterAssumption DEF NoAnswer
  <2> HIDE DEF s
  <2>3. d \in Client
    BY <1>f, <2>1, <2>2, ZenonT(60) DEF Client
  <2>4. /\ d.sync \in {"sent", "queued"} /\ d.answer = NoAnswer
        /\ ~d.stale /\ ~d.invalid /\ ~d.immediate /\ ~d.again /\ ~d.synced /\ ~d.recovery
    BY <1>f, <2>1, <2>2 DEF Client
  <2>5. /\ d.latest = f.latest /\ d.committed = f.committed /\ d.pending = f.pending
        /\ d.frame = f.frame /\ d.buffered = f.buffered /\ d.shared = f.shared
    BY <1>f, <2>1 DEF Client
  <2>6. /\ d.timer = f.timer /\ d.poisons = f.poisons /\ d.breaker = f.breaker
        /\ d.store = f.store /\ d.up = f.up
    BY <1>f, <2>1 DEF Client
  <2> QED BY <1>f, <1>4, <2>3, <2>4, <2>5, <2>6
<1> QED BY <1>1, <1>2, <1>3, <1>4
-----------------------------------------------------------------------------
(* What every call keeps: the types, and what keeps the client going.         *)

Typed(c) ==
  /\ c \in Client
  /\ Len(c.pending) < MaxPending /\ Cardinality(c.buffered) <= MaxBuffer
  /\ c.breaker <=> c.poisons = MaxPoison
  /\ c.shared => c.buffered = ToSet(c.pending)

\* A snapshot that must be read at once has been asked for.
Asks(c) == (c.immediate /\ ~c.breaker => c.again) /\ (c.invalid => c.stale)

\* The client counts as synchronized only at rest, on an open socket.
Calm(c) == c.synced => c.sync = "no" /\ ~c.invalid /\ ~c.breaker /\ c.up

\* It is synchronized or on its way there.
Awake(c) == c.synced \/ c.sync # "no" \/ c.timer \/ c.breaker \/ c.recovery

\* It has, or will have once the snapshot is merged, every event of 1 .. n.
Caught(c, n) ==
  /\ c.synced => c.latest >= n
  /\ c.sync = "sent" /\ c.answer # NoAnswer /\ ~c.stale /\ ~c.breaker =>
       \A e \in 1 .. n : e <= c.answer \/ e <= c.latest \/ e \in c.buffered
  /\ c.sync = "finishing" /\ ~c.stale /\ ~c.breaker =>
       \A e \in 1 .. n : e <= c.latest \/ e \in c.buffered

\* g: the welcome of the connection has been received; n: the events received or joined after.
Healthy(c, g, n) == Typed(c) /\ Asks(c) /\ Calm(c) /\ (g => Awake(c) /\ Caught(c, n))

LEMMA FiniteBuffer ==
  ASSUME NEW S \in SUBSET Event
  PROVE  IsFiniteSet(S) /\ Cardinality(S) \in Nat
<1>1. IsFiniteSet(Event)
  BY RouterAssumption, FS_Interval DEF Event
<1>2. IsFiniteSet(S)
  BY <1>1, FS_Subset
<1> QED BY <1>2, FS_CardinalityType

LEMMA EmptyBuffer == Cardinality({}) = 0 /\ Cardinality({}) <= MaxBuffer
BY FS_EmptySet, RouterAssumption

\* A list has at most as many members as elements.
LEMMA CardToSet ==
  ASSUME NEW s \in Seq(Event)
  PROVE  Cardinality(ToSet(s)) <= Len(s)
<1> DEFINE f == [i \in 1 .. Len(s) |-> s[i]]
<1>1. Len(s) \in Nat
  OBVIOUS
<1>2. IsFiniteSet(1 .. Len(s)) /\ Cardinality(1 .. Len(s)) = Len(s)
  BY <1>1, FS_Interval
<1>3. f \in [1 .. Len(s) -> ToSet(s)]
  BY <1>1 DEF ToSet
<1>4. \A t \in ToSet(s) : \E i \in 1 .. Len(s) : f[i] = t
  BY <1>1 DEF ToSet
<1>5. f \in Surjection(1 .. Len(s), ToSet(s))
  BY <1>3, <1>4 DEF Surjection
<1>6. Cardinality(ToSet(s)) <= Cardinality(1 .. Len(s))
  BY <1>2, <1>5, FS_Surjection
<1> QED BY <1>2, <1>6

LEMMA NoPoison ==
  ASSUME NEW c \in Client, c.breaker <=> c.poisons = MaxPoison, ~c.breaker
  PROVE  c.poisons < MaxPoison
BY RouterAssumption DEF Client

\* applyPendingBatch; the list it gets may just have become full.
LEMMA FlushedHealthy ==
  ASSUME NEW c \in Client, NEW g \in BOOLEAN, NEW n \in Nat, NEW d, d = Flushed(c),
         Cardinality(c.buffered) <= MaxBuffer,
         c.breaker <=> c.poisons = MaxPoison,
         c.shared => c.buffered = ToSet(c.pending),
         c.breaker => Len(c.pending) < MaxPending,
         Asks(c), Calm(c), g => Awake(c) /\ Caught(c, n)
  PROVE  Healthy(d, g, n)
<1>1. /\ d \in Client /\ ~d.frame
      /\ d.breaker <=> d.poisons = MaxPoison
      /\ d.sync = c.sync /\ d.answer = c.answer /\ d.up = c.up
      /\ c.breaker \/ c.pending = <<>> => Quiet(c, d)
      /\ ~(c.breaker \/ c.pending = <<>>) =>
               /\ d.pending = <<>> /\ ~d.shared
               /\ Applied(c, d) \/ Spoiled(c, d)
  BY FlushedIs
<1>0. MaxPending \in Nat /\ 1 < MaxPending /\ Len(<<>>) = 0
  BY RouterAssumption
<1>2. CASE c.breaker \/ c.pending = <<>>
  <2>1. Quiet(c, d)
    BY <1>1, <1>2
  <2>2. Len(c.pending) < MaxPending
    BY <1>0, <1>2
  <2>3. Typed(d)
    BY <1>1, <2>1, <2>2 DEF Typed, Quiet
  <2>4. Asks(d) /\ Calm(d) /\ (Awake(c) => Awake(d))
    BY <1>1, <2>1 DEF Asks, Calm, Awake, Quiet
  <2>5. Caught(c, n) => Caught(d, n)
    BY <1>1, <2>1 DEF Caught, Quiet
  <2> QED BY <2>3, <2>4, <2>5 DEF Healthy
<1>3. CASE ~(c.breaker \/ c.pending = <<>>)
  <2>1. CASE Applied(c, d)
    <3>1. Typed(d)
      BY <1>0, <1>1, <1>3, <2>1 DEF Typed, Applied
    <3>2. Asks(d) /\ Calm(d) /\ (Awake(c) => Awake(d))
      BY <1>1, <2>1 DEF Asks, Calm, Awake, Applied
    <3>3. Caught(c, n) => Caught(d, n)
      BY <1>1, <2>1 DEF Caught, Applied
    <3> QED BY <3>1, <3>2, <3>3 DEF Healthy
  <2>2. CASE Spoiled(c, d)
    <3>1. Typed(d)
      BY <1>0, <1>1, <1>3, <2>2, EmptyBuffer DEF Typed, Spoiled
    <3>2. Asks(d) /\ Calm(d) /\ Awake(d)
      BY <1>1, <2>2 DEF Asks, Calm, Awake, Spoiled
    <3>3. Caught(d, n)
      BY <1>1, <2>2 DEF Caught, Spoiled
    <3> QED BY <3>1, <3>2, <3>3 DEF Healthy
  <2> QED BY <1>1, <1>3, <2>1, <2>2
<1> QED BY <1>2, <1>3

LEMMA FlushedHolds ==
  ASSUME NEW c, NEW g \in BOOLEAN, NEW n \in Nat, Healthy(c, g, n), NEW d, d = Flushed(c)
  PROVE  Healthy(d, g, n)
<1>1. /\ c \in Client /\ Len(c.pending) < MaxPending
      /\ Cardinality(c.buffered) <= MaxBuffer
      /\ c.breaker <=> c.poisons = MaxPoison
      /\ c.shared => c.buffered = ToSet(c.pending)
      /\ Asks(c) /\ Calm(c) /\ (g => Awake(c) /\ Caught(c, n))
  BY DEF Healthy, Typed
<1> QED BY <1>1, FlushedHealthy

\* syncSnapshot starts a snapshot, or leaves word with the one under way.
LEMMA SynchronizingHealthy ==
  ASSUME NEW c, Typed(c), NEW g \in BOOLEAN, NEW n \in Nat, NEW d, d = Synchronizing(c),
         \/ c.sync = "no" /\ ~c.breaker
         \/ Asks(c) /\ Calm(c) /\ (g => Caught(c, n))
  PROVE  Healthy(d, g, n) /\ Awake(d) /\ d.up = c.up /\ (~c.recovery => ~d.recovery)
<1> DEFINE f == Flushed(c)
<1>1. c \in Client /\ (c.breaker <=> c.poisons = MaxPoison)
  BY DEF Typed
<1>2. /\ d \in Client
      /\ d.breaker <=> d.poisons = MaxPoison
      /\ d.up = c.up
      /\ c.breaker => d = c
      /\ ~c.breaker /\ c.sync # "no" =>
              /\ d.again /\ d.sync = c.sync /\ d.answer = c.answer /\ d.frame = c.frame
              /\ Quiet([c EXCEPT !.again = TRUE], d)
              /\ d = [c EXCEPT !.again = TRUE]
      /\ ~c.breaker /\ c.sync = "no" /\ f.breaker => d = f
      /\ ~c.breaker /\ c.sync = "no" /\ ~f.breaker =>
              /\ d.sync \in {"sent", "queued"} /\ d.answer = NoAnswer
              /\ ~d.stale /\ ~d.invalid /\ ~d.immediate /\ ~d.again /\ ~d.synced /\ ~d.recovery
              /\ d.latest = f.latest /\ d.committed = f.committed /\ d.pending = f.pending
              /\ d.frame = f.frame /\ d.buffered = f.buffered /\ d.shared = f.shared
              /\ d.timer = f.timer /\ d.poisons = f.poisons /\ d.breaker = f.breaker
              /\ d.store = f.store
  BY <1>1, SynchronizingIs
<1>3. /\ f \in Client /\ ~f.frame
      /\ f.breaker <=> f.poisons = MaxPoison
      /\ f.sync = c.sync /\ f.answer = c.answer /\ f.up = c.up
      /\ c.breaker \/ c.pending = <<>> => Quiet(c, f)
      /\ ~(c.breaker \/ c.pending = <<>>) =>
               /\ f.pending = <<>> /\ ~f.shared
               /\ Applied(c, f) \/ Spoiled(c, f)
  BY <1>1, FlushedIs
<1> HIDE DEF f
<1>4. CASE c.breaker
  <2>1. d = c
    BY <1>2, <1>4
  <2>2. Awake(d)
    BY <1>4, <2>1 DEF Awake
  <2> QED BY <1>4, <2>1, <2>2 DEF Healthy
<1>5. CASE ~c.breaker /\ c.sync # "no"
  <2>1. d = [c EXCEPT !.again = TRUE] /\ d.again /\ d.sync = c.sync /\ d.up = c.up /\ d.answer = c.answer
    BY <1>2, <1>5
  <2>2. /\ d.pending = c.pending /\ d.buffered = c.buffered /\ d.shared = c.shared
        /\ d.breaker = c.breaker /\ d.stale = c.stale /\ d.invalid = c.invalid
        /\ d.synced = c.synced /\ d.latest = c.latest /\ d.recovery = c.recovery
    BY <1>1, <2>1 DEF Client
  <2>3. Typed(d)
    BY <1>2, <2>2 DEF Typed
  <2>4. Asks(d) /\ Calm(d) /\ Awake(d)
    BY <1>5, <2>1, <2>2 DEF Asks, Calm, Awake
  <2>5. Caught(c, n) => Caught(d, n)
    BY <2>1, <2>2 DEF Caught
  <2> QED BY <1>5, <2>1, <2>2, <2>3, <2>4, <2>5 DEF Healthy
<1>6. CASE ~c.breaker /\ c.sync = "no"
  <2>1. Typed(f)
    <3>0. MaxPending \in Nat /\ 1 < MaxPending /\ Len(<<>>) = 0
      BY RouterAssumption
    <3>1. CASE c.pending = <<>>
      BY <1>3, <3>1 DEF Typed, Quiet
    <3>2. CASE c.pending # <<>> /\ Applied(c, f)
      BY <1>3, <1>6, <3>0, <3>2 DEF Typed, Applied
    <3>3. CASE c.pending # <<>> /\ Spoiled(c, f)
      BY <1>3, <1>6, <3>0, <3>3, EmptyBuffer DEF Typed, Spoiled
    <3> QED BY <1>3, <1>6, <3>1, <3>2, <3>3
  <2>2. CASE f.breaker
    <3>1. d = f
      BY <1>2, <1>6, <2>2
    <3>2. Spoiled(c, f)
      BY <1>3, <1>6, <2>2 DEF Quiet, Applied
    <3>3. Asks(d) /\ Calm(d) /\ Awake(d) /\ Caught(d, n)
      BY <2>2, <3>1, <3>2 DEF Asks, Calm, Awake, Caught, Spoiled
    <3>4. ~c.recovery => ~d.recovery
      BY <2>2, <3>1, <3>2 DEF Spoiled
    <3> QED BY <1>2, <2>1, <3>1, <3>3, <3>4 DEF Healthy
  <2>3. CASE ~f.breaker
    <3>1. /\ d.sync \in {"sent", "queued"} /\ d.answer = NoAnswer
          /\ ~d.stale /\ ~d.invalid /\ ~d.immediate /\ ~d.again /\ ~d.synced /\ ~d.recovery
          /\ d.pending = f.pending /\ d.buffered = f.buffered /\ d.shared = f.shared
      BY <1>2, <1>6, <2>3
    <3>2. Typed(d)
      BY <1>2, <2>1, <3>1 DEF Typed
    <3>3. Asks(d) /\ Calm(d) /\ Awake(d) /\ Caught(d, n)
      BY <3>1 DEF Asks, Calm, Awake, Caught
    <3> QED BY <1>2, <3>1, <3>2, <3>3 DEF Healthy
  <2> QED BY <2>2, <2>3
<1> QED BY <1>4, <1>5, <1>6

\* The microtask of enterRecovery.
LEMMA RecoveringHealthy ==
  ASSUME NEW c, NEW g \in BOOLEAN, NEW n \in Nat, Healthy(c, g, n), NEW d, d = Recovering(c)
  PROVE  Healthy(d, g, n) /\ d.up = c.up /\ ~d.recovery
<1>1. CASE c.recovery
  <2> DEFINE b == [c EXCEPT !.recovery = FALSE]
  <2>0. c \in Client /\ Typed(c)
    BY DEF Healthy, Typed
  <2>1. d = Synchronizing(b)
    BY <1>1 DEF Recovering
  <2>2. b \in Client
    BY <2>0 DEF Client
  <2>3. /\ b.pending = c.pending /\ b.buffered = c.buffered /\ b.shared = c.shared
        /\ b.breaker = c.breaker /\ b.stale = c.stale /\ b.invalid = c.invalid
        /\ b.synced = c.synced /\ b.latest = c.latest /\ b.poisons = c.poisons
    BY <2>0 DEF Client
  <2>4. /\ b.sync = c.sync /\ b.answer = c.answer /\ b.up = c.up /\ ~b.recovery
        /\ b.immediate = c.immediate /\ b.again = c.again
    BY <2>0 DEF Client
  <2> HIDE DEF b
  <2>5. Typed(b)
    BY <2>0, <2>2, <2>3 DEF Typed
  <2>6. Asks(b) /\ Calm(b)
    BY <2>3, <2>4 DEF Healthy, Asks, Calm
  <2>7. g => Caught(b, n)
    BY <2>3, <2>4 DEF Healthy, Caught
  <2> QED BY <2>1, <2>4, <2>5, <2>6, <2>7, SynchronizingHealthy
<1>2. CASE ~c.recovery
  <2>1. d = c
    BY <1>2 DEF Recovering
  <2> QED BY <1>2, <2>1
<1> QED BY <1>1, <1>2
\* The finally of syncSnapshot: unless a retry is coming, what was asked for begins.
LEMMA SyncEndedHealthy ==
  ASSUME NEW c, Typed(c), NEW g \in BOOLEAN, NEW n \in Nat, NEW d, d = SyncEnded(c),
         Asks(c),
         c.synced => ~c.invalid /\ ~c.breaker /\ c.up /\ (g => c.latest >= n),
         g => c.synced \/ c.timer \/ c.breaker \/ c.again
  PROVE  Healthy(d, g, n) /\ d.up = c.up /\ ~d.recovery
<1> DEFINE ended == [c EXCEPT !.sync = "no", !.answer = NoAnswer, !.recovery = FALSE]
           begun == [ended EXCEPT !.again = FALSE]
<1>0. c \in Client /\ NoAnswer \in NoAnswer .. MaxEvents
  BY RouterAssumption DEF Typed, NoAnswer
<1>1. ended \in Client /\ begun \in Client
  BY <1>0 DEF Client
<1>2. /\ ended.pending = c.pending /\ ended.buffered = c.buffered /\ ended.shared = c.shared
      /\ ended.breaker = c.breaker /\ ended.poisons = c.poisons /\ ended.timer = c.timer
      /\ ended.stale = c.stale /\ ended.invalid = c.invalid
  BY <1>0 DEF Client
<1>3. /\ ended.synced = c.synced /\ ended.latest = c.latest /\ ended.up = c.up
      /\ ended.immediate = c.immediate /\ ended.again = c.again
      /\ ended.sync = "no" /\ ended.answer = NoAnswer /\ ~ended.recovery
  BY <1>0 DEF Client
<1>4. /\ begun.pending = c.pending /\ begun.buffered = c.buffered /\ begun.shared = c.shared
      /\ begun.breaker = c.breaker /\ begun.poisons = c.poisons
      /\ begun.sync = "no" /\ ~begun.recovery /\ begun.up = c.up
  BY <1>0 DEF Client
<1>5. d = IF Again(ended) THEN Synchronizing(begun) ELSE ended
  BY DEF SyncEnded
<1> HIDE DEF ended, begun
<1>6. CASE Again(ended)
  <2>1. Typed(begun)
    BY <1>0, <1>1, <1>4 DEF Typed
  <2>2. begun.sync = "no" /\ ~begun.breaker
    BY <1>2, <1>4, <1>6 DEF Again
  <2>3. d = Synchronizing(begun)
    BY <1>5, <1>6
  <2> QED BY <1>4, <2>1, <2>2, <2>3, SynchronizingHealthy
<1>7. CASE ~Again(ended)
  <2>1. d = ended
    BY <1>5, <1>7
  <2>2. Typed(d)
    BY <1>0, <1>1, <1>2, <2>1 DEF Typed
  <2>3. Asks(d) /\ Calm(d)
    BY <1>2, <1>3, <2>1 DEF Asks, Calm
  <2>4. g => Awake(d) /\ Caught(d, n)
    BY <1>2, <1>3, <1>7, <2>1 DEF Again, Awake, Caught
  <2> QED BY <1>3, <2>1, <2>2, <2>3, <2>4 DEF Healthy
<1> QED BY <1>6, <1>7

\* A snapshot that was not read or has grown stale is read again, at once or on a timer.
LEMMA SyncFailedHealthy ==
  ASSUME NEW c, Typed(c), Asks(c), ~c.synced, NEW g \in BOOLEAN, NEW n \in Nat,
         NEW d, d = SyncFailed(c)
  PROVE  Healthy(d, g, n) /\ d.up = c.up /\ ~d.recovery
<1> DEFINE t == ~c.breaker /\ ~(c.invalid /\ c.immediate)
           b == [c EXCEPT !.timer = t]
<1>0. c \in Client /\ t \in BOOLEAN
  BY DEF Typed
<1>1. d = SyncEnded(b)
  BY DEF SyncFailed
<1>2. (t \/ c.breaker \/ c.again) /\ (t <=> ~c.breaker /\ ~(c.invalid /\ c.immediate))
  BY DEF Asks
<1> HIDE DEF t
<1>3. b \in Client
  BY <1>0 DEF Client
<1>4. /\ b.pending = c.pending /\ b.buffered = c.buffered /\ b.shared = c.shared
      /\ b.breaker = c.breaker /\ b.poisons = c.poisons /\ b.timer = t
      /\ b.stale = c.stale /\ b.invalid = c.invalid
  BY <1>0 DEF Client
<1>5. /\ b.synced = c.synced /\ b.up = c.up /\ b.immediate = c.immediate /\ b.again = c.again
  BY <1>0 DEF Client
<1> HIDE DEF b
<1>6. Typed(b)
  BY <1>3, <1>4 DEF Typed
<1>7. Asks(b)
  BY <1>4, <1>5 DEF Asks
<1>8. ~b.synced /\ (b.timer \/ b.breaker \/ b.again)
  BY <1>2, <1>4, <1>5
<1> QED BY <1>1, <1>5, <1>6, <1>7, <1>8, SyncEndedHealthy

LEMMA DrainFailedHealthy ==
  ASSUME NEW c, Typed(c), Asks(c), ~c.synced, NEW g \in BOOLEAN, NEW n \in Nat,
         NEW d, d = DrainFailed(c)
  PROVE  Healthy(d, g, n) /\ d.up = c.up /\ ~d.recovery
<1> DEFINE t == c.timer \/ (~c.invalid /\ ~c.breaker)
           b == [c EXCEPT !.again = TRUE, !.timer = t]
<1>0. c \in Client
  BY DEF Typed
<1>1. t \in BOOLEAN
  BY <1>0 DEF Client
<1>2. d = SyncEnded(b)
  BY DEF DrainFailed
<1> HIDE DEF t
<1>3. b \in Client
  BY <1>0, <1>1 DEF Client
<1>4. /\ b.pending = c.pending /\ b.buffered = c.buffered /\ b.shared = c.shared
      /\ b.breaker = c.breaker /\ b.poisons = c.poisons
      /\ b.stale = c.stale /\ b.invalid = c.invalid
  BY <1>0 DEF Client
<1>5. b.synced = c.synced /\ b.up = c.up /\ b.again
  BY <1>0 DEF Client
<1> HIDE DEF b
<1>6. Typed(b)
  BY <1>3, <1>4 DEF Typed
<1>7. Asks(b)
  BY <1>4, <1>5 DEF Asks
<1> QED BY <1>2, <1>5, <1>6, <1>7, SyncEndedHealthy

\* drainBufferedEvents only takes events out of the buffer.
LEMMA DrainedTyped ==
  ASSUME NEW c, Typed(c), ~c.breaker, NEW d, d = Drained(c)
  PROVE  Typed(d)
<1>0. c \in Client /\ (c.breaker <=> c.poisons = MaxPoison) /\ c.poisons < MaxPoison
  BY NoPoison DEF Typed
<1>1. /\ d \in Client
      /\ d.breaker <=> d.poisons = MaxPoison
      /\ d.pending = c.pending /\ ~d.shared
      /\ Bad(c) = {} => d.buffered = {e \in c.buffered : e > Head0(c)}
      /\ Bad(c) # {} => d.buffered = {}
  BY <1>0, DrainedIs
<1>2. Cardinality(d.buffered) <= MaxBuffer
  <2>1. c.buffered \in SUBSET Event /\ d.buffered \subseteq c.buffered
    BY <1>0, <1>1 DEF Client
  <2>2. d.buffered \in SUBSET Event
    BY <2>1
  <2>3. IsFiniteSet(c.buffered) /\ Cardinality(c.buffered) \in Nat /\ Cardinality(d.buffered) \in Nat
    BY <2>1, <2>2, FiniteBuffer
  <2>4. Cardinality(d.buffered) <= Cardinality(c.buffered)
    BY <2>1, <2>3, FS_Subset
  <2> QED BY <2>3, <2>4, RouterAssumption DEF Typed
<1> QED BY <1>1, <1>2 DEF Typed

LEMMA OneLong ==
  ASSUME NEW e \in Event
  PROVE  <<e>> \in Seq(Event) /\ Len(<<e>>) = 1 /\ ToSet(<<e>>) = {e}
<1>1. <<e>> \in Seq(Event) /\ Len(<<e>>) = 1 /\ DOMAIN <<e>> = 1 .. 1
  OBVIOUS
<1>2. ToSet(<<e>>) = {<<e>>[i] : i \in {1}}
  BY DEF ToSet
<1> QED BY <1>1, <1>2

\* bufferEvent, once what was pending is applied.
LEMMA BufferedHealthy ==
  ASSUME NEW c \in Client, NEW e \in Event, NEW g \in BOOLEAN, NEW n \in Nat,
         Healthy(c, g, n), ~c.shared \/ c.pending = <<>>,
         NEW d, d = Buffered(c, e)
  PROVE  /\ Typed(d) /\ Asks(d) /\ Calm(d)
         /\ d.sync = c.sync /\ d.up = c.up /\ d.breaker = c.breaker /\ d.recovery = c.recovery
         /\ c.sync # "no" \/ d = c => (g => Awake(d))
         /\ ~c.synced /\ e = n + 1 => (g => Caught(d, n + 1))
<1>0. c \in Client /\ Typed(c) /\ MaxBuffer \in Nat /\ MaxPending \in Nat /\ 1 < MaxPending
  BY RouterAssumption DEF Healthy, Typed
<1>1. \/ (e <= c.latest \/ c.invalid) /\ d = c
      \/ /\ e > c.latest /\ ~c.invalid /\ Cardinality(c.buffered) >= MaxBuffer
         /\ d = Overflown(c)
      \/ /\ e > c.latest /\ ~c.invalid /\ ~(Cardinality(c.buffered) >= MaxBuffer)
         /\ d = Kept(c, e)
  BY BufferedIs
<1>2. CASE (e <= c.latest \/ c.invalid) /\ d = c
  <2>1. ASSUME ~c.synced, e = n + 1, g PROVE Caught(d, n + 1)
    <3>0. Caught(c, n) /\ Asks(c)
      BY <2>1 DEF Healthy
    <3>1. CASE c.invalid
      BY <1>2, <2>1, <3>0, <3>1 DEF Caught, Asks
    <3>2. CASE e <= c.latest
      <4>1. \A k \in 1 .. n + 1 : k \in 1 .. n \/ k = e
        BY <2>1
      <4> QED BY <1>2, <2>1, <3>0, <3>2, <4>1 DEF Caught
    <3> QED BY <1>2, <3>1, <3>2
  <2> QED BY <1>2, <2>1 DEF Healthy
<1>3. CASE d = Overflown(c)
  <2>1. {} \in SUBSET Event
    OBVIOUS
  <2>2. d \in Client
    BY <1>0, <1>3, <2>1 DEF Client, Overflown
  <2>3. /\ d.invalid /\ d.stale /\ d.buffered = {} /\ ~d.shared /\ d.again /\ ~d.synced
        /\ d.pending = c.pending /\ d.breaker = c.breaker /\ d.poisons = c.poisons
        /\ d.recovery = c.recovery /\ d.sync = c.sync /\ d.up = c.up
    BY <1>0, <1>3 DEF Client, Overflown
  <2>4. Typed(d)
    BY <1>0, <2>2, <2>3, EmptyBuffer DEF Typed
  <2>5. Asks(d) /\ Calm(d) /\ Caught(d, n + 1) /\ (c.sync # "no" => Awake(d))
    BY <2>3 DEF Asks, Calm, Caught, Awake
  <2>6. d # c \/ Awake(d) \/ ~g
    <3>1. d = c => Healthy(d, g, n)
      OBVIOUS
    <3> QED BY <3>1 DEF Healthy
  <2> QED BY <2>3, <2>4, <2>5, <2>6
<1>4. CASE /\ ~(Cardinality(c.buffered) >= MaxBuffer) /\ ~c.invalid
           /\ d = Kept(c, e)
  <2> DEFINE p == IF c.shared THEN Append(c.pending, e) ELSE c.pending
  <2>0. c.pending \in Seq(Event) /\ c.buffered \in SUBSET Event
    BY <1>0 DEF Client
  <2>1. /\ p \in Seq(Event) /\ Len(p) < MaxPending
        /\ c.shared => ToSet(p) = c.buffered \cup {e}
    <3>1. CASE ~c.shared
      BY <1>0, <2>0, <3>1 DEF Typed
    <3>2. CASE c.shared
      <4>1. c.pending = <<>> /\ c.buffered = ToSet(c.pending)
        BY <1>0, <3>2 DEF Typed
      <4>2. p = <<e>>
        BY <3>2, <4>1
      <4>3. Len(p) = 1 /\ p \in Seq(Event) /\ ToSet(p) = {e}
        BY <4>2, OneLong
      <4>4. c.buffered = {}
        BY <4>1 DEF ToSet
      <4> QED BY <1>0, <4>3, <4>4
    <3> QED BY <3>1, <3>2
  <2> HIDE DEF p
  <2>2. Cardinality(c.buffered \cup {e}) <= MaxBuffer
    <3>1. IsFiniteSet(c.buffered) /\ Cardinality(c.buffered) \in Nat
      BY <2>0, FiniteBuffer
    <3>2. Cardinality(c.buffered \cup {e}) = IF e \in c.buffered THEN Cardinality(c.buffered) ELSE Cardinality(c.buffered) + 1
      BY <3>1, FS_AddElement
    <3> QED BY <1>0, <1>4, <3>1, <3>2
  <2>3. d = [c EXCEPT !.buffered = c.buffered \cup {e}, !.pending = p]
    BY <1>4 DEF p, Kept
  <2>4. c.buffered \cup {e} \in SUBSET Event
    BY <2>0
  <2>5. d \in Client
    BY <1>0, <2>1, <2>3, <2>4 DEF Client
  <2>6. /\ d.buffered = c.buffered \cup {e} /\ d.pending = p /\ d.shared = c.shared
        /\ d.breaker = c.breaker /\ d.poisons = c.poisons /\ d.stale = c.stale
        /\ d.invalid = c.invalid /\ d.again = c.again /\ d.immediate = c.immediate
    BY <1>0, <2>3 DEF Client
  <2>7. /\ d.synced = c.synced /\ d.latest = c.latest /\ d.answer = c.answer
        /\ d.recovery = c.recovery /\ d.sync = c.sync /\ d.up = c.up /\ d.timer = c.timer
    BY <1>0, <2>3 DEF Client
  <2>8. Typed(d)
    BY <1>0, <2>1, <2>2, <2>5, <2>6 DEF Typed
  <2>9. Asks(d) /\ Calm(d) /\ (g => Awake(d))
    BY <2>6, <2>7 DEF Healthy, Asks, Calm, Awake
  <2>10. ASSUME ~c.synced, e = n + 1, g PROVE Caught(d, n + 1)
    <3>0. Caught(c, n)
      BY <2>10 DEF Healthy
    <3>1. \A k \in 1 .. n + 1 : k \in 1 .. n \/ k = e
      BY <2>10
    <3> QED BY <2>6, <2>7, <2>10, <3>0, <3>1 DEF Caught
  <2> QED BY <2>7, <2>6, <2>8, <2>9, <2>10
<1> QED BY <1>1, <1>2, <1>3, <1>4
\* enqueueInOrderEvent: the event that continues the stream is pending, and 256 are a batch.
LEMMA EnqueuedHealthy ==
  ASSUME NEW c \in Client, NEW e \in Event, NEW g \in BOOLEAN, NEW n \in Nat, Healthy(c, g, n),
         c.sync = "no", ~c.breaker, ~c.invalid, g => e = n + 1,
         NEW d, d = Enqueued(c, e)
  PROVE  Healthy(d, g, n + 1) /\ d.up = c.up
<1> DEFINE p == Append(c.pending, e)
           b == IF c.shared THEN c.buffered \cup {e} ELSE c.buffered
           q == [c EXCEPT !.pending = p, !.frame = TRUE, !.latest = e, !.buffered = b]
<1>0. /\ c.pending \in Seq(Event) /\ c.buffered \in SUBSET Event /\ Typed(c)
      /\ MaxPending \in Nat /\ MaxBuffer \in Nat /\ MaxPending <= MaxBuffer
      /\ e \in 0 .. MaxEvents
  BY RouterAssumption DEF Client, Healthy, Event
<1>1. p \in Seq(Event) /\ Len(p) = Len(c.pending) + 1 /\ Len(c.pending) \in Nat /\ Len(p) <= MaxPending
  <2>1. Len(c.pending) < MaxPending
    BY <1>0 DEF Typed
  <2> QED BY <1>0, <2>1
<1>2. b \in SUBSET Event
  BY <1>0
<1>3. c.shared => b = ToSet(p)
  <2>1. ToSet(p) = ToSet(c.pending) \cup {e}
    <3>1. /\ DOMAIN p = 1 .. Len(c.pending) + 1 /\ DOMAIN c.pending = 1 .. Len(c.pending)
          /\ p[Len(c.pending) + 1] = e /\ \A i \in 1 .. Len(c.pending) : p[i] = c.pending[i]
      BY <1>0, <1>1
    <3>2. 1 .. Len(c.pending) + 1 = 1 .. Len(c.pending) \cup {Len(c.pending) + 1}
      BY <1>1
    <3> HIDE DEF p
    <3> QED BY <3>1, <3>2 DEF ToSet
  <2> QED BY <1>0, <2>1 DEF Typed
<1>4. Cardinality(b) <= MaxBuffer
  <2>1. CASE c.shared
    <3>1. Cardinality(ToSet(p)) <= Len(p)
      BY <1>1, CardToSet
    <3>2. Cardinality(b) \in Nat
      BY <1>2, FiniteBuffer
    <3>3. Cardinality(b) <= Len(p)
      BY <1>3, <2>1, <3>1
    <3> HIDE DEF p, b
    <3> QED BY <1>0, <1>1, <3>2, <3>3
  <2>2. CASE ~c.shared
    BY <1>0, <2>2 DEF Typed
  <2> QED BY <2>1, <2>2
<1>5. d = IF Len(q.pending) >= MaxPending THEN Flushed(q) ELSE q
  BY DEF Enqueued
<1> HIDE DEF p, b
<1>6. q \in Client
  BY <1>0, <1>1, <1>2 DEF Client
<1>7. /\ q.pending = p /\ q.latest = e /\ q.buffered = b /\ q.shared = c.shared
      /\ q.breaker = c.breaker /\ q.poisons = c.poisons /\ q.stale = c.stale
      /\ q.invalid = c.invalid /\ q.again = c.again /\ q.immediate = c.immediate
  BY DEF Client
<1>8. /\ q.synced = c.synced /\ q.answer = c.answer
      /\ q.recovery = c.recovery /\ q.sync = c.sync /\ q.up = c.up /\ q.timer = c.timer
  BY DEF Client
<1> HIDE DEF q
<1>9. Asks(q) /\ Calm(q) /\ (g => Awake(q) /\ Caught(q, n + 1))
  <2>1. Asks(q) /\ Calm(q) /\ (g => Awake(q))
    BY <1>7, <1>8 DEF Healthy, Asks, Calm, Awake
  <2>2. g => q.latest >= n + 1
    BY <1>7
  <2>3. g => Caught(q, n + 1)
    BY <1>8, <2>2 DEF Caught
  <2> QED BY <2>1, <2>3
<1>10. CASE Len(q.pending) >= MaxPending
  <2>1. d = Flushed(q) /\ ~q.breaker
    BY <1>5, <1>7, <1>10
  <2>2. /\ Cardinality(q.buffered) <= MaxBuffer
        /\ q.breaker <=> q.poisons = MaxPoison
        /\ q.shared => q.buffered = ToSet(q.pending)
    BY <1>0, <1>3, <1>4, <1>7 DEF Typed
  <2>3. n + 1 \in Nat /\ (q.breaker => Len(q.pending) < MaxPending)
    BY <2>1
  <2>4. Healthy(d, g, n + 1)
    BY <1>6, <1>9, <2>1, <2>2, <2>3, FlushedHealthy
  <2>5. d.up = q.up
    BY <1>6, <2>1, <2>2, FlushedIs
  <2> QED BY <1>8, <2>4, <2>5
<1>11. CASE ~(Len(q.pending) >= MaxPending)
  <2>1. d = q /\ Len(q.pending) < MaxPending
    BY <1>0, <1>1, <1>5, <1>7, <1>11
  <2>2. Typed(q)
    BY <1>0, <1>3, <1>4, <1>6, <1>7, <2>1 DEF Typed
  <2> QED BY <1>8, <1>9, <2>1, <2>2 DEF Healthy
<1> QED BY <1>10, <1>11

\* receive: applied in order, kept for later, or the reason to read a snapshot.
LEMMA ReceivedHealthy ==
  ASSUME NEW c \in Client, NEW e \in Event, NEW g \in BOOLEAN, NEW n \in Nat, Healthy(c, g, n),
         g => e = n + 1,
         NEW d, d = Received(c, e)
  PROVE  Healthy(d, g, n + 1) /\ d.up = c.up
<1> DEFINE f == Flushed(c)
           b == Buffered(f, e)
           x == [b EXCEPT !.timer = FALSE]
<1>0. /\ e \in Nat /\ c.latest \in Nat /\ Typed(c) /\ Asks(c) /\ Calm(c)
      /\ (c.breaker <=> c.poisons = MaxPoison)
  BY RouterAssumption DEF Client, Event, Healthy, Typed
<1>1. CASE c.breaker \/ e <= c.latest
  <2>1. d = c
    BY <1>0, <1>1 DEF Received
  <2>2. g => Caught(c, n + 1)
    <3>1. CASE c.breaker
      BY <1>0, <3>1 DEF Caught, Calm
    <3>2. CASE e <= c.latest /\ g
      <4>1. Caught(c, n) /\ e = n + 1
        BY <3>2 DEF Healthy
      <4>2. \A k \in 1 .. n + 1 : k \in 1 .. n \/ k = e
        BY <4>1
      <4> QED BY <3>2, <4>1, <4>2 DEF Caught
    <3> QED BY <1>1, <3>1, <3>2
  <2> QED BY <2>1, <2>2 DEF Healthy
<1>f. /\ Healthy(f, g, n) /\ f \in Client /\ f.sync = c.sync /\ f.up = c.up
      /\ c.breaker \/ c.pending = <<>> => Quiet(c, f)
      /\ ~(c.breaker \/ c.pending = <<>>) => /\ f.pending = <<>> /\ ~f.shared
                                             /\ Applied(c, f) \/ Spoiled(c, f)
  BY <1>0, FlushedHolds, FlushedIs
<1> HIDE DEF f
<1>2. CASE ~c.breaker /\ e > c.latest /\ (c.sync # "no" \/ c.invalid)
  <2>1. d = b
    <3>1. ~(c.breaker \/ e <= c.latest)
      BY <1>0, <1>2
    <3> QED BY <1>2, <3>1 DEF Received, f
  <2>2. ~f.shared \/ f.pending = <<>>
    BY <1>2, <1>f DEF Quiet
  <2>3. ~f.synced /\ (c.invalid => f.invalid)
    <3>1. CASE c.sync # "no"
      BY <1>f, <3>1 DEF Healthy, Calm, Quiet, Applied, Spoiled
    <3>2. CASE c.invalid
      BY <1>f, <1>0, <3>2 DEF Calm, Quiet, Applied, Spoiled
    <3> QED BY <1>2, <1>f, <3>1, <3>2 DEF Quiet, Applied, Spoiled
  <2>4. f.sync # "no" \/ b = f
    <3>1. c.sync = "no" => f.invalid
      BY <1>2, <2>3
    <3> QED BY <1>f, <3>1 DEF Buffered
  <2> HIDE DEF b
  <2>5. /\ Typed(b) /\ Asks(b) /\ Calm(b) /\ b.up = f.up
        /\ f.sync # "no" \/ b = f => (g => Awake(b))
        /\ ~f.synced /\ e = n + 1 => (g => Caught(b, n + 1))
    BY <1>f, <2>2, BufferedHealthy DEF b
  <2> QED BY <1>f, <2>1, <2>3, <2>4, <2>5 DEF Healthy
<1>3. CASE ~c.breaker /\ c.sync = "no" /\ ~c.invalid /\ e > c.latest + 1
  <2>1. d = Synchronizing(x)
    <3>1. ~(c.breaker \/ e <= c.latest) /\ ~(c.sync # "no" \/ c.invalid)
      BY <1>0, <1>3
    <3> QED BY <1>3, <3>1 DEF Received, f
  <2>2. ~f.shared \/ f.pending = <<>>
    BY <1>3, <1>f DEF Quiet
  <2> HIDE DEF b
  <2>3. /\ Typed(b) /\ Asks(b) /\ Calm(b) /\ b.sync = f.sync /\ b.breaker = f.breaker
        /\ b.up = f.up
    BY <1>f, <2>2, BufferedHealthy DEF b
  <2>4. b \in Client
    BY <2>3 DEF Typed
  <2>5. x \in Client
    BY <2>4 DEF Client
  <2>6. /\ x.pending = b.pending /\ x.buffered = b.buffered /\ x.shared = b.shared
        /\ x.breaker = b.breaker /\ x.poisons = b.poisons /\ x.sync = b.sync
        /\ x.stale = b.stale /\ x.invalid = b.invalid
    BY <2>4 DEF Client
  <2>7. /\ x.immediate = b.immediate /\ x.again = b.again /\ x.synced = b.synced /\ x.up = b.up
        /\ x.latest = b.latest /\ x.answer = b.answer
    BY <2>4 DEF Client
  <2> HIDE DEF x
  <2>8. Typed(x)
    BY <2>3, <2>5, <2>6 DEF Typed
  <2>9. CASE ~f.breaker
    <3>1. x.sync = "no" /\ ~x.breaker
      BY <1>3, <1>f, <2>3, <2>6, <2>9
    <3>2. n + 1 \in Nat
      OBVIOUS
    <3> QED BY <1>f, <2>1, <2>3, <2>7, <2>8, <3>1, <3>2, SynchronizingHealthy
  <2>10. CASE f.breaker
    <3>1. Asks(x) /\ Calm(x)
      BY <2>3, <2>6, <2>7 DEF Asks, Calm
    <3>2. ~x.synced /\ x.breaker
      BY <2>3, <2>6, <2>7, <2>10 DEF Calm
    <3>3. Caught(x, n + 1) /\ n + 1 \in Nat
      BY <3>2 DEF Caught
    <3> QED BY <1>f, <2>1, <2>3, <2>7, <2>8, <3>1, <3>3, SynchronizingHealthy
  <2> QED BY <2>9, <2>10
<1>4. CASE ~c.breaker /\ c.sync = "no" /\ ~c.invalid /\ e = c.latest + 1
  <2>1. d = Enqueued(c, e)
    <3>1. ~(c.breaker \/ e <= c.latest) /\ ~(c.sync # "no" \/ c.invalid) /\ ~(e > c.latest + 1)
      BY <1>0, <1>4
    <3> QED BY <3>1 DEF Received
  <2> QED BY <1>4, <2>1, EnqueuedHealthy
<1> QED BY <1>0, <1>1, <1>2, <1>3, <1>4

\* invalidateSnapshot and resetStream.
LEMMA InvalidatedIs ==
  ASSUME NEW c \in Client, NEW d, d = Invalidated(c)
  PROVE  /\ d \in Client /\ d.stale /\ d.invalid /\ d.immediate /\ d.again /\ ~d.timer
         /\ d.latest = c.latest /\ d.committed = c.committed /\ d.pending = c.pending
         /\ d.buffered = c.buffered /\ d.shared = c.shared /\ d.store = c.store
         /\ d.sync = c.sync /\ d.answer = c.answer /\ d.recovery = c.recovery
         /\ d.poisons = c.poisons /\ d.breaker = c.breaker /\ d.up = c.up /\ d.synced = c.synced
<1>1. d = [c EXCEPT !.stale = TRUE, !.invalid = TRUE, !.immediate = TRUE, !.again = TRUE, !.timer = FALSE]
  BY DEF Invalidated
<1>2. d \in Client
  BY <1>1 DEF Client
<1>3. /\ d.stale /\ d.invalid /\ d.immediate /\ d.again /\ ~d.timer
      /\ d.latest = c.latest /\ d.committed = c.committed /\ d.pending = c.pending
      /\ d.buffered = c.buffered /\ d.shared = c.shared /\ d.store = c.store
  BY <1>1 DEF Client
<1>4. /\ d.sync = c.sync /\ d.answer = c.answer /\ d.recovery = c.recovery
      /\ d.poisons = c.poisons /\ d.breaker = c.breaker /\ d.up = c.up /\ d.synced = c.synced
  BY <1>1 DEF Client
<1> QED BY <1>2, <1>3, <1>4

LEMMA ResetStreamIs ==
  ASSUME NEW c \in Client, NEW d, d = ResetStream(c)
  PROVE  /\ d \in Client /\ d.stale /\ d.invalid /\ d.immediate /\ d.again /\ ~d.timer
         /\ d.latest = 0 /\ d.committed = 0 /\ d.pending = <<>>
         /\ d.buffered = {} /\ d.shared /\ d.store = Empty
         /\ d.sync = c.sync /\ d.answer = c.answer /\ d.recovery = c.recovery
         /\ d.poisons = c.poisons /\ d.breaker = c.breaker /\ d.up = c.up /\ d.synced = c.synced
<1> DEFINE i == Invalidated(c)
<1>1. d = [i EXCEPT !.latest = 0, !.committed = 0, !.pending = <<>>, !.frame = FALSE,
                    !.buffered = {}, !.shared = TRUE, !.store = Empty]
  BY DEF ResetStream
<1>2. /\ i \in Client /\ i.stale /\ i.invalid /\ i.immediate /\ i.again /\ ~i.timer
      /\ i.sync = c.sync /\ i.answer = c.answer /\ i.recovery = c.recovery
      /\ i.poisons = c.poisons /\ i.breaker = c.breaker /\ i.up = c.up /\ i.synced = c.synced
  BY InvalidatedIs
<1> HIDE DEF i
<1>3. Empty \in Store /\ <<>> \in Seq(Event) /\ {} \in SUBSET Event /\ 0 \in 0 .. MaxEvents
  <2>1. MaxEvents \in Nat /\ {} \in SUBSET Event /\ 0 \in 0 .. MaxEvents /\ FALSE \in BOOLEAN
    BY RouterAssumption
  <2>2. Empty \in Store
    BY <2>1 DEF Empty, Store
  <2> QED BY <2>1, <2>2
<1>4. d \in Client
  <2>1. i \in Client
    BY <1>2
  <2> QED BY <1>1, <1>3, <2>1 DEF Client
<1>5. /\ d.stale /\ d.invalid /\ d.immediate /\ d.again /\ ~d.timer
      /\ d.latest = 0 /\ d.committed = 0 /\ d.pending = <<>>
      /\ d.buffered = {} /\ d.shared /\ d.store = Empty
  BY <1>1, <1>2 DEF Client
<1>6. /\ d.sync = c.sync /\ d.answer = c.answer /\ d.recovery = c.recovery
      /\ d.poisons = c.poisons /\ d.breaker = c.breaker /\ d.up = c.up /\ d.synced = c.synced
  BY <1>1, <1>2 DEF Client
<1> QED BY <1>4, <1>5, <1>6

LEMMA ResetTyped ==
  ASSUME NEW c, Typed(c), NEW d, d = ResetStream(c)
  PROVE  Typed(d) /\ Asks(d)
<1>1. c \in Client /\ (c.breaker <=> c.poisons = MaxPoison)
  BY DEF Typed
<1>2. /\ d \in Client /\ d.stale /\ d.invalid /\ d.immediate /\ d.again /\ ~d.timer
      /\ d.latest = 0 /\ d.committed = 0 /\ d.pending = <<>>
      /\ d.buffered = {} /\ d.shared /\ d.store = Empty
      /\ d.poisons = c.poisons /\ d.breaker = c.breaker
  BY <1>1, ResetStreamIs
<1>3. ToSet(<<>>) = {} /\ Len(<<>>) < MaxPending
  BY RouterAssumption DEF ToSet
<1>4. Typed(d)
  BY <1>1, <1>2, <1>3, EmptyBuffer DEF Typed
<1> QED BY <1>2, <1>4 DEF Asks

LEMMA InvalidatedTyped ==
  ASSUME NEW c, Typed(c), NEW d, d = Invalidated(c)
  PROVE  Typed(d) /\ Asks(d)
<1>1. c \in Client
  BY DEF Typed
<1>2. /\ d \in Client /\ d.stale /\ d.invalid /\ d.immediate /\ d.again
      /\ d.pending = c.pending /\ d.buffered = c.buffered /\ d.shared = c.shared
      /\ d.poisons = c.poisons /\ d.breaker = c.breaker
  BY <1>1, InvalidatedIs
<1>4. Typed(d)
  BY <1>2 DEF Typed
<1> QED BY <1>2, <1>4 DEF Asks

\* onServerWelcome: whatever was known before, a snapshot of this server is on its way.
LEMMA GreetedHealthy ==
  ASSUME NEW c, Typed(c), NEW n \in Nat, NEW d, d = Greeted(c)
  PROVE  Healthy(d, TRUE, n) /\ d.up = c.up
<1> DEFINE i == Invalidated(c)
           u == [i EXCEPT !.synced = FALSE]
           r == ResetStream(u)
<1>1. Typed(i) /\ Asks(i) /\ i \in Client
  BY InvalidatedTyped DEF Typed
<1>0. i.stale /\ i.up = c.up
  BY InvalidatedIs DEF Typed
<1> HIDE DEF i
<1>2. u \in Client
  BY <1>1 DEF Client
<1>3. /\ u.pending = i.pending /\ u.buffered = i.buffered /\ u.shared = i.shared
      /\ u.breaker = i.breaker /\ u.poisons = i.poisons /\ u.immediate = i.immediate
      /\ u.stale = i.stale /\ u.invalid = i.invalid /\ u.again = i.again /\ u.up = i.up /\ ~u.synced
  BY <1>1 DEF Client
<1>4. d = IF knows \in {0, server} THEN Synchronizing(u) ELSE Synchronizing(r)
  BY DEF Greeted, i
<1> HIDE DEF u
<1>5. Typed(u) /\ Asks(u)
  BY <1>1, <1>2, <1>3 DEF Typed, Asks
<1>6. /\ Typed(r) /\ Asks(r) /\ r.stale /\ r.synced = u.synced /\ r.up = u.up
  BY <1>2, <1>5, ResetTyped, ResetStreamIs
<1> HIDE DEF r
<1>7. ASSUME NEW x, Typed(x), Asks(x), ~x.synced, x.stale
      PROVE  Healthy(Synchronizing(x), TRUE, n) /\ Synchronizing(x).up = x.up
  <2>1. Calm(x) /\ Caught(x, n)
    BY <1>7 DEF Calm, Caught
  <2> QED BY <1>7, <2>1, SynchronizingHealthy
<1>8. CASE knows \in {0, server}
  BY <1>0, <1>3, <1>4, <1>5, <1>7, <1>8
<1>9. CASE ~(knows \in {0, server})
  BY <1>0, <1>3, <1>4, <1>6, <1>7, <1>9
<1> QED BY <1>8, <1>9
\* close: a request under way fails, one that waits goes on waiting.
LEMMA ClosedHealthy ==
  ASSUME NEW c, Typed(c), Asks(c), Calm(c), NEW d, d = Closed(c)
  PROVE  Healthy(d, FALSE, 0) /\ ~d.up
<1> DEFINE w == [c EXCEPT !.up = FALSE, !.synced = FALSE]
<1>0. c \in Client
  BY DEF Typed
<1>1. d = IF c.sync # "sent" THEN w ELSE IF c.breaker THEN SyncEnded(w) ELSE SyncFailed(w)
  BY DEF Closed
<1>2. w \in Client
  BY <1>0 DEF Client
<1>3. /\ w.pending = c.pending /\ w.buffered = c.buffered /\ w.shared = c.shared
      /\ w.breaker = c.breaker /\ w.poisons = c.poisons /\ w.immediate = c.immediate
      /\ w.stale = c.stale /\ w.invalid = c.invalid /\ w.again = c.again /\ ~w.up /\ ~w.synced
  BY <1>0 DEF Client
<1> HIDE DEF w
<1>4. Typed(w) /\ Asks(w) /\ Calm(w)
  BY <1>2, <1>3 DEF Typed, Asks, Calm
<1>5. CASE c.sync # "sent"
  BY <1>1, <1>3, <1>4, <1>5 DEF Healthy
<1>6. CASE c.sync = "sent" /\ c.breaker
  <2>1. d = SyncEnded(w)
    BY <1>1, <1>6
  <2> QED BY <1>3, <1>4, <2>1, SyncEndedHealthy
<1>7. CASE c.sync = "sent" /\ ~c.breaker
  <2>1. d = SyncFailed(w)
    BY <1>1, <1>7
  <2> QED BY <1>3, <1>4, <2>1, SyncFailedHealthy
<1> QED BY <1>5, <1>6, <1>7

\* flushSnapshotSync, named: the merged state and the three ways it goes on.
Merged(c) ==
  [c EXCEPT !.latest = Max({@, c.answer}), !.committed = Max({@, c.answer}),
            !.store = Hydrated(@, c.answer)]

MergeEnd(c) ==
  CASE c.breaker -> SyncEnded(c)
    [] ~c.breaker /\ c.stale -> SyncFailed(c)
    [] OTHER -> IF DrainComplete(Merged(c))
                THEN [Drained(Merged(c)) EXCEPT !.sync = "finishing", !.answer = NoAnswer]
                ELSE DrainFailed(Drained(Merged(c)))

FinishEnd(c) ==
  CASE c.breaker -> SyncEnded(c)
    [] ~c.breaker /\ c.stale -> SyncFailed(c)
    [] OTHER -> IF DrainComplete(c)
                THEN SyncEnded([Drained(c) EXCEPT !.timer = FALSE, !.synced = c.up])
                ELSE DrainFailed(Drained(c))

LEMMA MergedIs ==
  ASSUME NEW c \in Client, c.answer # NoAnswer, NEW m, m = Merged(c)
  PROVE  /\ m \in Client /\ c.answer \in 0 .. MaxEvents
         /\ m.latest = Max({c.latest, c.answer}) /\ m.committed = Max({c.committed, c.answer})
         /\ c.latest <= m.latest /\ c.answer <= m.latest
         /\ m.store = Hydrated(c.store, c.answer)
         /\ m.pending = c.pending /\ m.frame = c.frame /\ m.buffered = c.buffered
         /\ m.shared = c.shared /\ m.sync = c.sync /\ m.answer = c.answer /\ m.stale = c.stale
         /\ m.again = c.again /\ m.invalid = c.invalid /\ m.immediate = c.immediate
         /\ m.timer = c.timer /\ m.recovery = c.recovery /\ m.poisons = c.poisons
         /\ m.breaker = c.breaker /\ m.up = c.up /\ m.synced = c.synced
<1> DEFINE l == Max({c.latest, c.answer})
           k == Max({c.committed, c.answer})
           s == Hydrated(c.store, c.answer)
<1>1. c.answer \in 0 .. MaxEvents /\ c.latest \in 0 .. MaxEvents /\ c.committed \in 0 .. MaxEvents
      /\ c.store \in Store /\ MaxEvents \in Nat
  BY RouterAssumption DEF Client, NoAnswer
<1>2. c.answer \in Nat /\ c.latest \in Nat /\ c.committed \in Nat
  BY <1>1
<1>3. l = (IF c.latest <= c.answer THEN c.answer ELSE c.latest) /\ k = (IF c.committed <= c.answer THEN c.answer ELSE c.committed)
  BY <1>2, MaxOfTwo
<1>4. s \in Store
  BY <1>1, HydratedIs
<1>5. m = [c EXCEPT !.latest = l, !.committed = k, !.store = s]
  BY DEF Merged
<1> HIDE DEF l, k, s
<1>6. l \in 0 .. MaxEvents /\ k \in 0 .. MaxEvents /\ c.latest <= l /\ c.answer <= l
  BY <1>1, <1>2, <1>3
<1>7. m \in Client
  BY <1>4, <1>5, <1>6 DEF Client
<1>8. /\ m.latest = l /\ m.committed = k /\ m.store = s
      /\ m.pending = c.pending /\ m.frame = c.frame /\ m.buffered = c.buffered
      /\ m.shared = c.shared /\ m.sync = c.sync /\ m.answer = c.answer /\ m.stale = c.stale
  BY <1>5 DEF Client
<1>9. /\ m.again = c.again /\ m.invalid = c.invalid /\ m.immediate = c.immediate
      /\ m.timer = c.timer /\ m.recovery = c.recovery /\ m.poisons = c.poisons
      /\ m.breaker = c.breaker /\ m.up = c.up /\ m.synced = c.synced
  BY <1>5 DEF Client
<1> QED BY <1>1, <1>6, <1>7, <1>8, <1>9 DEF l, k, s

\* A buffer drained to its end leaves nothing behind the cursor.
LEMMA CompleteIs ==
  ASSUME NEW c \in Client, DrainComplete(c)
  PROVE  Bad(c) = {} /\ Good(c) = {e \in c.buffered : e > c.latest}
         /\ \A e \in c.buffered : e <= Head0(c)
<1>1. Bad(c) = {} /\ Good(c) = {e \in c.buffered : e > c.latest}
  BY DEF DrainComplete, Bad, Good
<1>2. c.buffered \in SUBSET Event /\ c.latest \in Nat
  BY RouterAssumption DEF Client
<1>3. ASSUME NEW e \in c.buffered PROVE e <= Head0(c)
  <2>1. e \in Nat
    BY <1>2 DEF Event
  <2>2. Head0(c) \in 0 .. MaxEvents /\ c.latest <= Head0(c) /\ \A x \in Good(c) : x <= Head0(c)
    BY RunIs
  <2>3. CASE e > c.latest
    BY <1>1, <2>2, <2>3
  <2>4. CASE ~(e > c.latest)
    BY <1>2, <2>1, <2>2, <2>4
  <2> QED BY <2>3, <2>4
<1> QED BY <1>1, <1>3

\* The drained state of a client that reads a snapshot is on its way as well.
LEMMA DrainedAsks ==
  ASSUME NEW c, Typed(c), Asks(c), ~c.breaker, ~c.synced, NEW d, d = Drained(c)
  PROVE  Typed(d) /\ Asks(d) /\ ~d.synced /\ d.up = c.up
<1>0. c \in Client /\ (c.breaker <=> c.poisons = MaxPoison) /\ c.poisons < MaxPoison
  BY NoPoison DEF Typed
<1>1. /\ d.up = c.up
      /\ Bad(c) = {} =>
           /\ d.stale = c.stale /\ d.again = c.again /\ d.invalid = c.invalid
           /\ d.immediate = c.immediate /\ d.breaker = c.breaker /\ d.synced = c.synced
      /\ Bad(c) # {} => d.stale /\ d.again /\ d.invalid /\ d.immediate /\ ~d.synced
  BY <1>0, DrainedIs
<1>2. Asks(d) /\ ~d.synced
  BY <1>1 DEF Asks
<1> QED BY <1>1, <1>2, DrainedTyped

LEMMA MergeHealthy ==
  ASSUME NEW c, NEW g \in BOOLEAN, NEW n \in Nat, Healthy(c, g, n),
         c.sync = "sent", c.answer # NoAnswer,
         NEW d, d = MergeEnd(c)
  PROVE  Healthy(d, g, n) /\ d.up = c.up
<1> DEFINE m == Merged(c)
           D == Drained(m)
           x == [D EXCEPT !.sync = "finishing", !.answer = NoAnswer]
<1>0. c \in Client /\ Typed(c) /\ Asks(c) /\ Calm(c) /\ ~c.synced
  BY DEF Healthy, Typed, Calm
<1>1. CASE c.breaker
  <2>1. d = SyncEnded(c)
    BY <1>1 DEF MergeEnd
  <2> QED BY <1>0, <1>1, <2>1, SyncEndedHealthy
<1>2. CASE ~c.breaker /\ c.stale
  <2>1. d = SyncFailed(c)
    BY <1>2 DEF MergeEnd
  <2> QED BY <1>0, <2>1, SyncFailedHealthy
<1>3. CASE ~c.breaker /\ ~c.stale
  <2>1. d = IF DrainComplete(m) THEN x ELSE DrainFailed(D)
    BY <1>3 DEF MergeEnd
  <2>2. /\ m \in Client /\ c.answer \in 0 .. MaxEvents
        /\ c.latest <= m.latest /\ c.answer <= m.latest
        /\ m.pending = c.pending /\ m.buffered = c.buffered
        /\ m.shared = c.shared /\ m.stale = c.stale
        /\ m.again = c.again /\ m.invalid = c.invalid /\ m.immediate = c.immediate
        /\ m.poisons = c.poisons /\ m.breaker = c.breaker /\ m.up = c.up /\ m.synced = c.synced
    BY <1>0, MergedIs
  <2> HIDE DEF m
  <2>3. Typed(m) /\ Asks(m) /\ ~m.breaker /\ ~m.synced
    BY <1>0, <1>3, <2>2 DEF Typed, Asks
  <2>4. Typed(D) /\ Asks(D) /\ ~D.synced /\ D.up = m.up
    BY <2>3, DrainedAsks
  <2>7. D = Drained(m)
    OBVIOUS
  <2> HIDE DEF D
  <2>5. CASE ~DrainComplete(m)
    BY <2>1, <2>2, <2>4, <2>5, DrainFailedHealthy
  <2>6. CASE DrainComplete(m)
    <3>1. Bad(m) = {} /\ \A e \in m.buffered : e <= Head0(m)
      BY <2>2, <2>6, CompleteIs
    <3>2. D.latest = Head0(m)
      <4>1. m.poisons < MaxPoison /\ (m.breaker <=> m.poisons = MaxPoison)
        BY <2>2, <2>3, NoPoison DEF Typed
      <4> QED BY <2>2, <2>7, <3>1, <4>1, DrainedIs
    <3>3. Head0(m) \in 0 .. MaxEvents /\ m.latest <= Head0(m)
      BY <2>2, RunIs
    <3>4. D \in Client /\ NoAnswer \in NoAnswer .. MaxEvents
      BY <2>4, RouterAssumption DEF Typed, NoAnswer
    <3>5. x \in Client
      BY <3>4 DEF Client
    <3>6. /\ x.pending = D.pending /\ x.buffered = D.buffered /\ x.shared = D.shared
          /\ x.breaker = D.breaker /\ x.poisons = D.poisons /\ x.immediate = D.immediate
          /\ x.stale = D.stale /\ x.invalid = D.invalid /\ x.again = D.again
      BY <3>4 DEF Client
    <3>7. x.sync = "finishing" /\ x.latest = D.latest /\ x.synced = D.synced /\ x.up = D.up
      BY <3>4 DEF Client
    <3> HIDE DEF x
    <3>8. Typed(x)
      BY <2>4, <3>5, <3>6 DEF Typed
    <3>9. Asks(x) /\ Calm(x) /\ Awake(x)
      BY <2>4, <3>6, <3>7 DEF Asks, Calm, Awake
    <3>10. g => Caught(x, n)
      <4>1. ASSUME g, NEW e \in 1 .. n PROVE e <= x.latest
        <5>1. e <= c.answer \/ e <= c.latest \/ e \in c.buffered
          BY <1>3, <4>1 DEF Healthy, Caught
        <5>2. CASE e \in c.buffered
          BY <2>2, <3>1, <3>2, <3>7, <5>2
        <5>3. CASE e <= c.answer \/ e <= c.latest
          <6>1. c.latest \in Nat /\ c.answer \in Nat /\ m.latest \in Nat /\ Head0(m) \in Nat
            BY <1>0, <2>2, <3>3, RouterAssumption DEF Client
          <6>2. c.answer <= m.latest /\ c.latest <= m.latest /\ m.latest <= Head0(m)
            BY <2>2, <3>3
          <6>3. e <= Head0(m)
            BY <5>3, <6>1, <6>2
          <6> QED BY <3>2, <3>7, <6>3
        <5> QED BY <5>1, <5>2, <5>3
      <4> QED BY <2>4, <3>7, <4>1 DEF Caught
    <3> QED BY <2>1, <2>2, <2>4, <2>6, <3>7, <3>8, <3>9, <3>10 DEF Healthy
  <2> QED BY <2>5, <2>6
<1> QED BY <1>1, <1>2, <1>3

\* ... and its end: what came while it finished is drained as well.
LEMMA FinishHealthy ==
  ASSUME NEW c, NEW g \in BOOLEAN, NEW n \in Nat, Healthy(c, g, n),
         c.sync = "finishing", g => c.up,
         NEW d, d = FinishEnd(c)
  PROVE  Healthy(d, g, n) /\ d.up = c.up
<1> DEFINE D == Drained(c)
           u == c.up
           x == [D EXCEPT !.timer = FALSE, !.synced = u]
<1>0. c \in Client /\ Typed(c) /\ Asks(c) /\ Calm(c) /\ ~c.synced
  BY DEF Healthy, Typed, Calm
<1>1. CASE c.breaker
  <2>1. d = SyncEnded(c)
    BY <1>1 DEF FinishEnd
  <2> QED BY <1>0, <1>1, <2>1, SyncEndedHealthy
<1>2. CASE ~c.breaker /\ c.stale
  <2>1. d = SyncFailed(c)
    BY <1>2 DEF FinishEnd
  <2> QED BY <1>0, <2>1, SyncFailedHealthy
<1>3. CASE ~c.breaker /\ ~c.stale
  <2>1. d = IF DrainComplete(c) THEN SyncEnded(x) ELSE DrainFailed(D)
    BY <1>3 DEF FinishEnd
  <2>4. Typed(D) /\ Asks(D) /\ ~D.synced /\ D.up = c.up
    BY <1>0, <1>3, DrainedAsks
  <2>5. CASE ~DrainComplete(c)
    <3> HIDE DEF D
    <3> QED BY <2>1, <2>4, <2>5, DrainFailedHealthy
  <2>6. CASE DrainComplete(c)
    <3>1. Bad(c) = {} /\ \A e \in c.buffered : e <= Head0(c)
      BY <1>0, <2>6, CompleteIs
    <3>2. D.latest = Head0(c) /\ D.breaker = c.breaker /\ D.invalid = c.invalid
      <4>1. c.poisons < MaxPoison /\ (c.breaker <=> c.poisons = MaxPoison)
        BY <1>0, <1>3, NoPoison DEF Typed
      <4> QED BY <1>0, <3>1, <4>1, DrainedIs
    <3>3. Head0(c) \in 0 .. MaxEvents /\ c.latest <= Head0(c) /\ u \in BOOLEAN
      BY <1>0, RunIs DEF Client
    <3> HIDE DEF D, u
    <3>4. D \in Client
      BY <2>4 DEF Typed
    <3>5. x \in Client
      BY <3>3, <3>4 DEF Client
    <3>6. /\ x.pending = D.pending /\ x.buffered = D.buffered /\ x.shared = D.shared
          /\ x.breaker = D.breaker /\ x.poisons = D.poisons /\ x.immediate = D.immediate
          /\ x.stale = D.stale /\ x.invalid = D.invalid /\ x.again = D.again
      BY <3>4 DEF Client
    <3>7. x.up = D.up /\ x.latest = D.latest /\ x.synced = u
      BY <3>4 DEF Client
    <3> HIDE DEF x
    <3>8. Typed(x)
      BY <2>4, <3>5, <3>6 DEF Typed
    <3>9. Asks(x)
      BY <2>4, <3>6 DEF Asks
    <3>10. g => x.latest >= n
      <4>1. ASSUME g, n >= 1 PROVE n <= Head0(c)
        <5>1. n <= c.latest \/ n \in c.buffered
          BY <1>3, <4>1 DEF Healthy, Caught
        <5>2. c.latest \in Nat /\ Head0(c) \in Nat
          BY <1>0, <3>3, RouterAssumption DEF Client
        <5> QED BY <3>1, <3>3, <5>1, <5>2
      <4>2. CASE n = 0
        BY <3>2, <3>3, <3>7, <4>2
      <4>3. CASE n >= 1
        BY <3>2, <3>3, <3>7, <4>1, <4>3
      <4> QED BY <4>2, <4>3
    <3>11. x.synced => ~x.invalid /\ ~x.breaker /\ x.up
      BY <1>3, <1>0, <2>4, <3>2, <3>6, <3>7 DEF Asks, u
    <3>12. g => x.synced
      BY <3>7 DEF u
    <3> QED BY <2>1, <2>4, <2>6, <3>7, <3>8, <3>9, <3>10, <3>11, <3>12, SyncEndedHealthy
  <2> QED BY <2>5, <2>6
<1> QED BY <1>1, <1>2, <1>3
-----------------------------------------------------------------------------
(* The invariant: the socket, and the client that listens to it.              *)

\* The events pushed before the socket's first one, or before the client joined.
Seen == log - Len(wire)

\* The socket holds the last events in order, after the welcome if that is not yet received.
Socket ==
  /\ ~client.up => wire = <<>>
  /\ \A k \in DOMAIN wire : wire[k] = Welcome \/ wire[k] = Seen + k
  /\ \A k \in DOMAIN wire : wire[k] = Welcome => k = 1

World ==
  /\ knows \in 0 .. server /\ server \in 1 .. MaxRestarts + 1
  /\ wire \in Seq(0 .. MaxEvents) /\ log \in 0 .. MaxEvents
  /\ wasReset \in BOOLEAN /\ faults \in 0 .. MaxFaults
  /\ HasGreeted => knows = server

Level == IF HasGreeted THEN Seen ELSE 0

Alive == Healthy(client, HasGreeted, Level) /\ ~client.recovery

IInv == World /\ Socket /\ Alive

LEMMA LevelIs ==
  ASSUME World, Socket
  PROVE  /\ HasGreeted \in BOOLEAN /\ Level \in Nat /\ Len(wire) \in Nat /\ log \in Nat
         /\ HasGreeted => Seen \in Nat /\ Level = Seen
         /\ HasGreeted => \A k \in DOMAIN wire : wire[k] = Seen + k
<1>1. Len(wire) \in Nat /\ log \in Nat /\ wire \in Seq(0 .. MaxEvents) /\ MaxEvents \in Nat
      /\ DOMAIN wire = 1 .. Len(wire) /\ \A k \in DOMAIN wire : wire[k] \in 0 .. MaxEvents
  <2>1. MaxEvents \in Nat
    BY RouterAssumption
  <2> QED BY <2>1 DEF World
<1>2. HasGreeted \in BOOLEAN
  BY DEF HasGreeted, Alive, Healthy, Typed, Client
<1>3. HasGreeted => \A k \in DOMAIN wire : wire[k] = Seen + k
  BY DEF HasGreeted, Socket
<1>4. HasGreeted => Seen \in Nat
  <2>1. CASE Len(wire) = 0
    BY <1>1, <2>1 DEF Seen
  <2>2. CASE HasGreeted /\ Len(wire) > 0
    <3>1. 1 \in DOMAIN wire
      BY <1>1, <2>2
    <3>2. wire[1] = Seen + 1 /\ wire[1] \in 0 .. MaxEvents /\ wire[1] # Welcome
      BY <1>1, <1>3, <2>2, <3>1 DEF HasGreeted
    <3>3. Seen \in Int
      BY <1>1 DEF Seen
    <3>4. Seen + 1 \in 0 .. MaxEvents /\ Seen + 1 # 0
      BY <3>2 DEF Welcome
    <3> QED BY <3>3, <3>4
  <2> QED BY <1>1, <2>1, <2>2
<1> QED BY <1>1, <1>2, <1>3, <1>4 DEF Level

\* The welcome is the head of the socket, or every push is an event and the head is due.
LEMMA HeadIs ==
  ASSUME World, Socket, wire # <<>>, client.up
  PROVE  /\ Head(wire) = wire[1] /\ Len(wire) >= 1 /\ Tail(wire) \in Seq(0 .. MaxEvents)
         /\ Len(Tail(wire)) = Len(wire) - 1
         /\ \A k \in DOMAIN Tail(wire) : Tail(wire)[k] = Seen + 1 + k /\ Tail(wire)[k] # Welcome /\ Tail(wire)[k] \in Nat
         /\ Head(wire) # Welcome => HasGreeted /\ Head(wire) = Seen + 1 /\ Head(wire) \in Event
<1>1. wire \in Seq(0 .. MaxEvents) /\ Len(wire) \in Nat /\ log \in Nat /\ MaxEvents \in Nat
  BY RouterAssumption DEF World
<1>2. /\ Head(wire) = wire[1] /\ Len(wire) >= 1 /\ Tail(wire) \in Seq(0 .. MaxEvents)
      /\ Len(Tail(wire)) = Len(wire) - 1 /\ wire[1] \in 0 .. MaxEvents
      /\ DOMAIN wire = 1 .. Len(wire)
      /\ \A k \in 1 .. Len(wire) - 1 : Tail(wire)[k] = wire[k + 1]
  BY <1>1
<1>3. DOMAIN Tail(wire) = 1 .. Len(wire) - 1
  BY <1>1, <1>2
<1>4. ASSUME NEW k \in DOMAIN Tail(wire)
      PROVE  Tail(wire)[k] = Seen + 1 + k /\ Tail(wire)[k] # Welcome /\ Tail(wire)[k] \in Nat
  <2>1. k + 1 \in DOMAIN wire /\ k + 1 # 1 /\ k \in Int /\ Tail(wire)[k] = wire[k + 1]
    BY <1>1, <1>2, <1>3
  <2>2. wire[k + 1] # Welcome
    BY <2>1 DEF Socket
  <2>3. wire[k + 1] = Seen + (k + 1)
    BY <2>1, <2>2 DEF Socket
  <2>4. wire[k + 1] \in Nat
    BY <1>1, <2>1
  <2> QED BY <1>1, <2>1, <2>2, <2>3, <2>4 DEF Seen
<1>5. ASSUME Head(wire) # Welcome
      PROVE  HasGreeted /\ Head(wire) = Seen + 1 /\ Head(wire) \in Event
  <2>1. \A k \in DOMAIN wire : wire[k] # Welcome
    BY <1>2, <1>5 DEF Socket
  <2>2. 1 \in DOMAIN wire
    BY <1>1, <1>2
  <2>3. Head(wire) = Seen + 1
    BY <1>2, <2>1, <2>2 DEF Socket
  <2>4. Head(wire) \in Event
    BY <1>1, <1>2, <1>5 DEF Event, Welcome
  <2> QED BY <2>1, <2>3, <2>4 DEF HasGreeted
<1> QED BY <1>2, <1>4, <1>5

\* The steps that leave the socket alone.
LEMMA SameSocket ==
  ASSUME World, Socket, Level' = Level, HasGreeted' = HasGreeted,
         UNCHANGED <<wire, log>>, client'.up = client.up
  PROVE  Socket'
BY DEF Socket, Seen

LEMMA SameLevel ==
  ASSUME UNCHANGED <<wire, log>>, client'.up = client.up
  PROVE  Level' = Level /\ HasGreeted' = HasGreeted
BY DEF Level, HasGreeted, Seen

LEMMA InitHolds == Init => IInv
<1> SUFFICES ASSUME Init PROVE IInv
  OBVIOUS
<1>0. /\ MaxEvents \in Nat \ {0} /\ MaxPending \in Nat /\ 1 < MaxPending /\ MaxPoison \in Nat \ {0}
      /\ MaxRestarts \in Nat /\ MaxFaults \in Nat
  BY RouterAssumption
<1>1. ~client.up /\ ~HasGreeted
  BY DEF Init, HasGreeted
<1>2. World /\ Socket
  <2>1. /\ knows = 0 /\ wire = <<>> /\ server = 1 /\ faults = 0 /\ wasReset = FALSE /\ log \in 0 .. 1
    BY DEF Init
  <2>2. log \in 0 .. MaxEvents /\ wire \in Seq(0 .. MaxEvents) /\ DOMAIN wire = {}
    BY <1>0, <2>1
  <2>3. knows \in 0 .. server /\ server \in 1 .. MaxRestarts + 1 /\ faults \in 0 .. MaxFaults
    BY <1>0, <2>1
  <2>4. World
    BY <1>1, <2>1, <2>2, <2>3 DEF World
  <2>5. Socket
    BY <2>1, <2>2 DEF Socket
  <2> QED BY <2>4, <2>5
<1>3. client \in Client
  <2>1. /\ Empty \in Store /\ <<>> \in Seq(Event) /\ {} \in SUBSET Event /\ 0 \in 0 .. MaxEvents
        /\ 0 \in 0 .. MaxPoison /\ NoAnswer \in NoAnswer .. MaxEvents
    <3>1. 0 \in 0 .. MaxEvents /\ {} \in SUBSET Event
      BY <1>0
    <3> QED BY <1>0, <3>1 DEF Empty, Store, NoAnswer
  <2> QED BY <2>1 DEF Init, Client
<1>4. /\ client.pending = <<>> /\ client.buffered = {} /\ ~client.breaker /\ client.poisons = 0
      /\ ~client.shared /\ ~client.immediate /\ ~client.invalid /\ ~client.synced /\ ~client.recovery
  BY DEF Init
<1>5. Typed(client)
  <2>1. Len(<<>>) < MaxPending /\ 0 # MaxPoison
    BY <1>0
  <2> QED BY <1>3, <1>4, <2>1, EmptyBuffer DEF Typed
<1>6. Alive
  BY <1>1, <1>4, <1>5 DEF Alive, Healthy, Asks, Calm
<1> QED BY <1>2, <1>6 DEF IInv

\* A step of the client alone.
LEMMA ClientStep ==
  ASSUME IInv, NEW d, Healthy(d, HasGreeted, Level), d.up = client.up,
         client' = Recovering(d), UNCHANGED <<knows, wire, log, server, wasReset>>,
         faults' \in 0 .. MaxFaults
  PROVE  IInv'
<1>1. Level \in Nat /\ HasGreeted \in BOOLEAN
  BY LevelIs DEF IInv
<1>2. Healthy(client', HasGreeted, Level) /\ client'.up = d.up /\ ~client'.recovery
  BY <1>1, RecoveringHealthy
<1>3. Level' = Level /\ HasGreeted' = HasGreeted
  BY <1>2, SameLevel
<1>4. Socket'
  BY <1>2, <1>3, SameSocket DEF IInv
<1>5. World'
  BY <1>3 DEF IInv, World
<1>6. Alive'
  BY <1>2, <1>3 DEF Alive
<1> QED BY <1>4, <1>5, <1>6 DEF IInv

LEMMA FaultsGrow ==
  ASSUME World, Faulty
  PROVE  faults' \in 0 .. MaxFaults
BY RouterAssumption DEF World, Faulty

LEMMA AliveIs ==
  ASSUME IInv
  PROVE  /\ Healthy(client, HasGreeted, Level) /\ ~client.recovery /\ client \in Client
         /\ Typed(client) /\ Asks(client) /\ Calm(client)
         /\ (HasGreeted => Awake(client) /\ Caught(client, Level))
         /\ Level \in Nat /\ HasGreeted \in BOOLEAN /\ (HasGreeted => client.up)
         /\ faults \in 0 .. MaxFaults
<1>1. Level \in Nat /\ HasGreeted \in BOOLEAN
  BY LevelIs DEF IInv
<1> QED BY <1>1 DEF IInv, World, Alive, Healthy, Typed, HasGreeted

LEMMA FlushPendingHolds ==
  ASSUME IInv, FlushPending
  PROVE  IInv'
<1> DEFINE d == Flushed(client)
<1>1. Healthy(d, HasGreeted, Level) /\ d.up = client.up
  BY AliveIs, FlushedHolds, FlushedIs DEF Typed
<1>2. client' = Recovering(d) /\ UNCHANGED <<knows, wire, log, server, wasReset, faults>>
  BY DEF FlushPending
<1> HIDE DEF d
<1> QED BY <1>1, <1>2, AliveIs, ClientStep

LEMMA MergeSnapshotHolds ==
  ASSUME IInv, MergeSnapshot
  PROVE  IInv'
<1> DEFINE d == MergeEnd(client)
<1>1. Healthy(d, HasGreeted, Level) /\ d.up = client.up
  BY AliveIs, MergeHealthy DEF MergeSnapshot
<1>2. client' = Recovering(d) /\ UNCHANGED <<knows, wire, log, server, wasReset, faults>>
  BY DEF MergeSnapshot, MergeEnd, Merged
<1> HIDE DEF d
<1> QED BY <1>1, <1>2, AliveIs, ClientStep

LEMMA FinishSyncHolds ==
  ASSUME IInv, FinishSync
  PROVE  IInv'
<1> DEFINE d == FinishEnd(client)
<1>1. Healthy(d, HasGreeted, Level) /\ d.up = client.up
  BY AliveIs, FinishHealthy DEF FinishSync
<1>2. client' = Recovering(d) /\ UNCHANGED <<knows, wire, log, server, wasReset, faults>>
  BY DEF FinishSync, FinishEnd
<1> HIDE DEF d
<1> QED BY <1>1, <1>2, AliveIs, ClientStep

LEMMA SyncFailsHolds ==
  ASSUME IInv, SyncFails
  PROVE  IInv'
<1> DEFINE d == IF client.breaker THEN SyncEnded(client) ELSE SyncFailed(client)
<1>0. ~client.synced
  BY AliveIs DEF SyncFails, Calm
<1>1. Healthy(d, HasGreeted, Level) /\ d.up = client.up
  <2>1. CASE client.breaker
    BY <1>0, <2>1, AliveIs, SyncEndedHealthy
  <2>2. CASE ~client.breaker
    BY <1>0, <2>2, AliveIs, SyncFailedHealthy
  <2> QED BY <2>1, <2>2
<1>2. client' = Recovering(d) /\ UNCHANGED <<knows, wire, log, server, wasReset>>
  BY DEF SyncFails
<1>3. faults' \in 0 .. MaxFaults
  BY FaultsGrow DEF SyncFails, IInv
<1> HIDE DEF d
<1> QED BY <1>1, <1>2, <1>3, ClientStep

LEMMA RetryTimerHolds ==
  ASSUME IInv, RetryTimer
  PROVE  IInv'
<1> DEFINE t == [client EXCEPT !.timer = FALSE]
           d == Synchronizing(t)
<1>1. t \in Client
  BY AliveIs DEF Client
<1>2. /\ t.pending = client.pending /\ t.buffered = client.buffered /\ t.shared = client.shared
      /\ t.breaker = client.breaker /\ t.poisons = client.poisons /\ t.immediate = client.immediate
      /\ t.stale = client.stale /\ t.invalid = client.invalid /\ t.again = client.again
  BY AliveIs DEF Client
<1>3. /\ t.synced = client.synced /\ t.latest = client.latest /\ t.answer = client.answer
      /\ t.recovery = client.recovery /\ t.sync = client.sync /\ t.up = client.up
  BY AliveIs DEF Client
<1>4. client' = Recovering(d) /\ UNCHANGED <<knows, wire, log, server, wasReset, faults>>
  BY DEF RetryTimer
<1> HIDE DEF t
<1>5. Typed(t) /\ Asks(t) /\ Calm(t)
  BY <1>1, <1>2, <1>3, AliveIs DEF Typed, Asks, Calm
<1>6. HasGreeted => Caught(t, Level)
  BY <1>2, <1>3, AliveIs DEF Caught
<1>7. Healthy(d, HasGreeted, Level) /\ d.up = client.up
  BY <1>3, <1>5, <1>6, AliveIs, SynchronizingHealthy
<1> HIDE DEF d
<1> QED BY <1>4, <1>7, AliveIs, ClientStep

\* A step that leaves the client's business as it is, and only writes some of its fields.
LEMMA PlainStep ==
  ASSUME IInv, Healthy(client', HasGreeted, Level), client'.up = client.up, ~client'.recovery,
         UNCHANGED <<knows, wire, log, server, wasReset, faults>>
  PROVE  IInv'
<1>3. Level' = Level /\ HasGreeted' = HasGreeted
  BY SameLevel
<1>4. Socket'
  BY <1>3, SameSocket DEF IInv
<1>5. World'
  BY <1>3 DEF IInv, World
<1>6. Alive'
  BY <1>3 DEF Alive
<1> QED BY <1>4, <1>5, <1>6 DEF IInv

LEMMA ServerReadsHolds ==
  ASSUME IInv, ServerReads
  PROVE  IInv'
<1> DEFINE c == client
           d == [c EXCEPT !.answer = log]
<1>0. /\ c \in Client /\ log \in NoAnswer .. MaxEvents /\ log \in Nat /\ c.sync = "sent"
      /\ client' = d /\ UNCHANGED <<knows, wire, log, server, wasReset, faults>>
  BY AliveIs, RouterAssumption DEF ServerReads, IInv, World, NoAnswer
<1> HIDE DEF c
<1>1. d \in Client
  BY <1>0 DEF Client
<1>2. /\ d.pending = c.pending /\ d.buffered = c.buffered /\ d.shared = c.shared
      /\ d.breaker = c.breaker /\ d.poisons = c.poisons /\ d.immediate = c.immediate
      /\ d.stale = c.stale /\ d.invalid = c.invalid /\ d.again = c.again
  BY <1>0 DEF Client
<1>3. /\ d.synced = c.synced /\ d.latest = c.latest /\ d.answer = log /\ d.timer = c.timer
      /\ d.recovery = c.recovery /\ d.sync = c.sync /\ d.up = c.up
  BY <1>0 DEF Client
<1> HIDE DEF d
<1>4. Typed(d) /\ Asks(d) /\ Calm(d) /\ ~d.recovery /\ (HasGreeted => Awake(d))
  BY <1>0, <1>1, <1>2, <1>3, AliveIs DEF Typed, Asks, Calm, Awake, c
<1>5. HasGreeted => Caught(d, Level)
  <2>1. HasGreeted => Level <= log /\ Level \in Nat
    BY LevelIs DEF IInv, Seen
  <2>2. HasGreeted => \A e \in 1 .. Level : e <= d.answer
    BY <1>0, <1>3, <2>1
  <2>3. HasGreeted => (d.synced => d.latest >= Level)
    BY <1>3, AliveIs DEF Caught, c
  <2> QED BY <1>0, <1>3, <2>2, <2>3 DEF Caught
<1>6. Healthy(d, HasGreeted, Level)
  BY <1>4, <1>5 DEF Healthy
<1>7. Healthy(client', HasGreeted, Level) /\ client'.up = client.up /\ ~client'.recovery
  BY <1>0, <1>3, <1>4, <1>6 DEF c
<1> QED BY <1>0, <1>7, PlainStep

LEMMA PoisonAgesHolds ==
  ASSUME IInv, PoisonAges
  PROVE  IInv'
<1> DEFINE c == client
           d == [c EXCEPT !.poisons = 0]
<1>0. /\ c \in Client /\ ~c.breaker /\ 0 \in 0 .. MaxPoison /\ MaxPoison # 0
      /\ client' = d /\ UNCHANGED <<knows, wire, log, server, wasReset, faults>>
  BY AliveIs, RouterAssumption DEF PoisonAges
<1> HIDE DEF c
<1>1. d \in Client
  BY <1>0 DEF Client
<1>2. /\ d.pending = c.pending /\ d.buffered = c.buffered /\ d.shared = c.shared
      /\ d.breaker = c.breaker /\ d.poisons = 0 /\ d.immediate = c.immediate
      /\ d.stale = c.stale /\ d.invalid = c.invalid /\ d.again = c.again
  BY <1>0 DEF Client
<1>3. /\ d.synced = c.synced /\ d.latest = c.latest /\ d.answer = c.answer /\ d.timer = c.timer
      /\ d.recovery = c.recovery /\ d.sync = c.sync /\ d.up = c.up
  BY <1>0 DEF Client
<1> HIDE DEF d
<1>4. Typed(d) /\ Asks(d) /\ Calm(d) /\ ~d.recovery /\ (HasGreeted => Awake(d))
  BY <1>0, <1>1, <1>2, <1>3, AliveIs DEF Typed, Asks, Calm, Awake, c
<1>5. HasGreeted => Caught(d, Level)
  BY <1>2, <1>3, AliveIs DEF Caught, c
<1>6. Healthy(d, HasGreeted, Level)
  BY <1>4, <1>5 DEF Healthy
<1>7. Healthy(client', HasGreeted, Level) /\ client'.up = client.up /\ ~client'.recovery
  BY <1>0, <1>3, <1>4, <1>6 DEF c
<1> QED BY <1>0, <1>7, PlainStep
LEMMA ReceiveHolds ==
  ASSUME IInv, Receive
  PROVE  IInv'
<1> DEFINE e == Head(wire)
           d == IF e = Welcome THEN Greeted(client) ELSE Received(client, e)
           n == IF e = Welcome THEN Seen + 1 ELSE Level + 1
<1>0. /\ wire # <<>> /\ client.up /\ World /\ Socket /\ wire' = Tail(wire)
      /\ log' = log /\ server' = server /\ faults' = faults /\ client' = Recovering(d)
  BY DEF Receive, IInv
<1>1. /\ Head(wire) = wire[1] /\ Len(wire) >= 1 /\ Tail(wire) \in Seq(0 .. MaxEvents)
      /\ Len(Tail(wire)) = Len(wire) - 1
      /\ \A k \in DOMAIN Tail(wire) : Tail(wire)[k] = Seen + 1 + k /\ Tail(wire)[k] # Welcome /\ Tail(wire)[k] \in Nat
      /\ Head(wire) # Welcome => HasGreeted /\ Head(wire) = Seen + 1 /\ Head(wire) \in Event
  BY <1>0, HeadIs
<1>2. Len(wire) \in Nat /\ log \in Nat
  BY <1>0, LevelIs
<1>3. Seen' = Seen + 1
  <2>1. Len(wire') = Len(wire) - 1
    BY <1>0, <1>1
  <2> QED BY <1>0, <1>2, <2>1 DEF Seen
<1>4. d.up = client.up /\ Healthy(d, TRUE, Seen + 1) /\ Seen + 1 \in Nat
  <2>1. CASE e = Welcome
    <3>1. Seen + 1 \in Nat
      <4>1. CASE Len(wire) = 1
        BY <1>2, <4>1 DEF Seen
      <4>2. CASE Len(wire) > 1
        <5>1. 1 \in DOMAIN Tail(wire)
          BY <1>1, <1>2, <4>2
        <5>2. Tail(wire)[1] = Seen + 1 + 1 /\ Tail(wire)[1] # Welcome /\ Tail(wire)[1] \in Nat
          BY <1>1, <5>1
        <5>3. Seen \in Int
          BY <1>2 DEF Seen
        <5>4. Seen + 1 + 1 \in Nat /\ Seen + 1 + 1 # 0
          BY <5>2 DEF Welcome
        <5> QED BY <5>3, <5>4
      <4> QED BY <1>1, <1>2, <4>1, <4>2
    <3>2. d = Greeted(client)
      BY <2>1
    <3> HIDE DEF d, e
    <3> QED BY <3>1, <3>2, AliveIs, GreetedHealthy
  <2>2. CASE e # Welcome
    <3>1. HasGreeted /\ e = Seen + 1 /\ e \in Event /\ Level = Seen /\ Level \in Nat
      BY <1>0, <1>1, <2>2, LevelIs
    <3>2. d = Received(client, e)
      BY <2>2
    <3>3. client \in Client /\ Healthy(client, TRUE, Level)
      BY <3>1, AliveIs DEF Healthy
    <3> HIDE DEF d, e
    <3>4. Healthy(d, TRUE, Level + 1) /\ d.up = client.up
      BY <3>1, <3>2, <3>3, ReceivedHealthy
    <3>5. Level + 1 = Seen + 1 /\ Level + 1 \in Nat
      BY <3>1
    <3> QED BY <3>4, <3>5
  <2> QED BY <2>1, <2>2
<1>5. Healthy(client', TRUE, Seen + 1) /\ client'.up /\ ~client'.recovery
  <2> HIDE DEF d
  <2> QED BY <1>0, <1>4, RecoveringHealthy
<1>6. HasGreeted' /\ Level' = Seen + 1
  <2>1. HasGreeted'
    <3>1. wire' = Tail(wire) /\ client'.up
      BY <1>0, <1>5
    <3>2. \A k \in DOMAIN wire' : wire'[k] # Welcome
      BY <1>1, <3>1
    <3> QED BY <3>1, <3>2 DEF HasGreeted
  <2> QED BY <1>3, <2>1 DEF Level
<1>7. Alive'
  <2>1. HasGreeted' = TRUE
    BY <1>6 DEF HasGreeted
  <2> QED BY <1>5, <1>6, <2>1 DEF Alive
<1>8. Socket'
  <2>1. \A k \in DOMAIN wire' : wire'[k] = Seen' + k /\ wire'[k] # Welcome
    BY <1>0, <1>1, <1>3
  <2> QED BY <1>5, <2>1 DEF Socket
<1>9. World'
  <2>1. knows' = server
    <3>1. CASE e = Welcome
      BY <3>1 DEF Receive
    <3>2. CASE e # Welcome
      BY <1>0, <1>1, <3>2 DEF Receive, World
    <3> QED BY <3>1, <3>2
  <2>2. wasReset' \in BOOLEAN
    BY <1>0 DEF Receive, World
  <2>3. knows' \in 0 .. server' /\ server' \in 1 .. MaxRestarts + 1
    BY <1>0, <2>1, RouterAssumption DEF World
  <2> QED BY <1>0, <1>1, <2>1, <2>2, <2>3 DEF World
<1> QED BY <1>7, <1>8, <1>9 DEF IInv

LEMMA ReconcileHolds ==
  ASSUME IInv, Reconcile
  PROVE  IInv'
<1>0. /\ client.up /\ UNCHANGED <<wire, log, server>> /\ faults' \in 0 .. MaxFaults
  BY FaultsGrow DEF Reconcile, IInv
<1>1. CASE server # knows
  <2> DEFINE r == ResetStream(client)
             d == Synchronizing(r)
  <2>1. /\ client' = Recovering(d) /\ knows' = server /\ wasReset' = TRUE
    BY <1>1 DEF Reconcile
  <2>2. ~HasGreeted
    BY <1>1 DEF IInv, World
  <2>3. /\ Typed(r) /\ Asks(r) /\ r.sync = client.sync /\ r.breaker = client.breaker
        /\ r.synced = client.synced /\ r.up = client.up
    BY AliveIs, ResetTyped, ResetStreamIs
  <2> HIDE DEF r
  <2>4. (r.sync = "no" /\ ~r.breaker) \/ Calm(r)
    BY <2>3, AliveIs DEF Calm
  <2>5. Healthy(d, FALSE, 0) /\ d.up = client.up
    BY <2>3, <2>4, SynchronizingHealthy
  <2> HIDE DEF d
  <2>6. Healthy(client', FALSE, 0) /\ client'.up = client.up /\ ~client'.recovery
    BY <2>1, <2>5, RecoveringHealthy
  <2>7. Level' = Level /\ HasGreeted' = HasGreeted
    BY <1>0, <2>6, SameLevel
  <2>8. Socket'
    BY <1>0, <2>6, <2>7, SameSocket DEF IInv
  <2>9. World'
    BY <1>0, <2>1, <2>2, <2>7, RouterAssumption DEF IInv, World
  <2>10. Alive'
    BY <2>2, <2>6, <2>7 DEF Alive, Healthy
  <2> QED BY <2>8, <2>9, <2>10 DEF IInv
<1>2. CASE server = knows
  <2> DEFINE f == Flushed(client)
             s == Synchronizing(f)
             d == IF f.sync = "no" /\ ~f.timer THEN s ELSE f
  <2>1. /\ client' = Recovering(d) /\ UNCHANGED <<knows, wasReset>>
    BY <1>2 DEF Reconcile
  <2>2. Healthy(f, HasGreeted, Level) /\ f.up = client.up
    BY AliveIs, FlushedHolds, FlushedIs DEF Typed
  <2> HIDE DEF f
  <2>3. Healthy(s, HasGreeted, Level) /\ s.up = f.up
    <3>1. Typed(f) /\ Asks(f) /\ Calm(f) /\ (HasGreeted => Caught(f, Level))
      BY <2>2 DEF Healthy
    <3> QED BY <3>1, AliveIs, SynchronizingHealthy
  <2> HIDE DEF s
  <2>4. Healthy(d, HasGreeted, Level) /\ d.up = client.up
    BY <2>2, <2>3
  <2> HIDE DEF d
  <2> QED BY <1>0, <2>1, <2>4, ClientStep
<1> QED BY <1>1, <1>2

LEMMA ConnectHolds ==
  ASSUME IInv, Connect
  PROVE  IInv'
<1> DEFINE c == client
           q == IF c.sync = "queued" THEN "sent" ELSE c.sync
           d == [c EXCEPT !.up = TRUE, !.synced = FALSE, !.sync = q]
<1>0. /\ c \in Client /\ client' = d /\ wire' = <<Welcome>>
      /\ UNCHANGED <<knows, log, server, wasReset, faults>>
  BY AliveIs DEF Connect
<1> HIDE DEF c
<1>1. q \in {"no", "queued", "sent", "finishing"}
  BY <1>0 DEF Client
<1> HIDE DEF q
<1>2. d \in Client
  BY <1>0, <1>1 DEF Client
<1>3. /\ d.pending = c.pending /\ d.buffered = c.buffered /\ d.shared = c.shared
      /\ d.breaker = c.breaker /\ d.poisons = c.poisons /\ d.immediate = c.immediate
      /\ d.stale = c.stale /\ d.invalid = c.invalid /\ d.again = c.again
  BY <1>0 DEF Client
<1>4. d.up /\ ~d.synced /\ d.recovery = c.recovery
  BY <1>0 DEF Client
<1> HIDE DEF d
<1>5. Typed(d) /\ Asks(d) /\ Calm(d) /\ ~d.recovery
  BY <1>0, <1>2, <1>3, <1>4, AliveIs DEF Typed, Asks, Calm, c
<1>6. ~HasGreeted'
  <2>1. 1 \in DOMAIN wire' /\ wire'[1] = Welcome
    BY <1>0
  <2> QED BY <2>1 DEF HasGreeted
<1>7. Alive'
  BY <1>0, <1>5, <1>6 DEF Alive, Healthy
<1>8. Socket'
  <2>1. DOMAIN wire' = 1 .. 1 /\ wire'[1] = Welcome
    BY <1>0
  <2>2. \A k \in DOMAIN wire' : k = 1 /\ wire'[k] = Welcome
    BY <2>1
  <2> QED BY <1>0, <1>4, <2>2 DEF Socket
<1>9. World'
  <2>1. wire' \in Seq(0 .. MaxEvents)
    BY <1>0, RouterAssumption DEF Welcome
  <2> QED BY <1>0, <1>6, <2>1 DEF IInv, World
<1> QED BY <1>7, <1>8, <1>9 DEF IInv

\* The connection is gone, with or without the server.
LEMMA ClosedHolds ==
  ASSUME IInv, client' = Recovering(Closed(client)), wire' = <<>>,
         knows' = knows, server' \in server .. MaxRestarts + 1, log' \in 0 .. MaxEvents,
         wasReset' = wasReset, faults' \in 0 .. MaxFaults
  PROVE  IInv'
<1> DEFINE d == Closed(client)
<1>1. Healthy(d, FALSE, 0) /\ ~d.up
  BY AliveIs, ClosedHealthy
<1> HIDE DEF d
<1>2. Healthy(client', FALSE, 0) /\ client'.up = d.up /\ ~client'.recovery
  <2>1. client' = Recovering(d)
    BY DEF d
  <2> QED BY <1>1, <2>1, RecoveringHealthy
<1>3. ~client'.up /\ ~HasGreeted'
  BY <1>1, <1>2 DEF HasGreeted
<1>4. Alive'
  BY <1>2, <1>3 DEF Alive, Healthy
<1>5. Socket'
  <2>1. DOMAIN wire' = {}
    OBVIOUS
  <2> QED BY <2>1 DEF Socket
<1>6. World'
  <2>1. server \in Nat /\ server >= 1 /\ MaxRestarts \in Nat /\ knows \in 0 .. server
    BY RouterAssumption DEF IInv, World
  <2>2. knows' \in 0 .. server' /\ server' \in 1 .. MaxRestarts + 1
    BY <2>1
  <2>3. wire' \in Seq(0 .. MaxEvents) /\ wasReset' \in BOOLEAN
    BY DEF IInv, World
  <2> QED BY <1>3, <2>2, <2>3 DEF World
<1> QED BY <1>4, <1>5, <1>6 DEF IInv

LEMMA DisconnectHolds ==
  ASSUME IInv, Disconnect
  PROVE  IInv'
<1>1. faults' \in 0 .. MaxFaults
  BY FaultsGrow DEF Disconnect, IInv
<1>2. server' \in server .. MaxRestarts + 1 /\ log' \in 0 .. MaxEvents
  BY RouterAssumption DEF Disconnect, IInv, World
<1> QED BY <1>1, <1>2, ClosedHolds DEF Disconnect

LEMMA ServerRestartsHolds ==
  ASSUME IInv, ServerRestarts
  PROVE  IInv'
<1>1. /\ server \in 1 .. MaxRestarts + 1 /\ MaxRestarts \in Nat /\ log \in 0 .. MaxEvents
      /\ faults \in 0 .. MaxFaults /\ MaxEvents \in Nat
  BY RouterAssumption DEF IInv, World
<1>2. server' \in server .. MaxRestarts + 1 /\ log' \in 0 .. MaxEvents
  BY <1>1 DEF ServerRestarts
<1> QED BY <1>1, <1>2, ClosedHolds DEF ServerRestarts

LEMMA PublishHolds ==
  ASSUME IInv, Publish
  PROVE  IInv'
<1>0. /\ wire \in Seq(0 .. MaxEvents) /\ Len(wire) \in Nat /\ log \in 0 .. MaxEvents /\ log < MaxEvents
      /\ MaxEvents \in Nat /\ log' = log + 1 /\ UNCHANGED <<client, knows, server, wasReset, faults>>
      /\ World /\ Socket /\ Alive
  BY RouterAssumption DEF IInv, World, Publish
<1>1. CASE client.up
  <2>1. wire' = Append(wire, log + 1)
    BY <1>1 DEF Publish
  <2>2. /\ wire' \in Seq(0 .. MaxEvents) /\ Len(wire') = Len(wire) + 1
        /\ DOMAIN wire' = 1 .. Len(wire) + 1 /\ DOMAIN wire = 1 .. Len(wire)
        /\ wire'[Len(wire) + 1] = log + 1 /\ \A k \in 1 .. Len(wire) : wire'[k] = wire[k]
    BY <1>0, <2>1
  <2>3. Seen' = Seen /\ Seen + (Len(wire) + 1) = log + 1 /\ log + 1 # Welcome
    BY <1>0, <2>2 DEF Seen, Welcome
  <2>4. \A k \in DOMAIN wire' : k \in DOMAIN wire \/ k = Len(wire) + 1
    BY <1>0, <2>2
  <2>5. Socket'
    <3>1. ASSUME NEW k \in DOMAIN wire'
          PROVE  (wire'[k] = Welcome \/ wire'[k] = Seen + k) /\ (wire'[k] = Welcome => k = 1)
      <4>1. CASE k \in DOMAIN wire
        BY <1>0, <2>2, <4>1 DEF Socket
      <4>2. CASE k = Len(wire) + 1
        BY <2>2, <2>3, <4>2
      <4> QED BY <2>4, <4>1, <4>2
    <3> QED BY <1>0, <1>1, <2>3, <3>1 DEF Socket
  <2>6. HasGreeted' = HasGreeted
    <3>1. (\E k \in DOMAIN wire' : wire'[k] = Welcome) <=> (\E k \in DOMAIN wire : wire[k] = Welcome)
      BY <2>2, <2>3, <2>4
    <3> QED BY <1>0, <3>1 DEF HasGreeted
  <2>7. Level' = Level
    BY <2>3, <2>6 DEF Level
  <2>8. World'
    BY <1>0, <2>2, <2>6 DEF World
  <2>9. Alive'
    BY <1>0, <2>6, <2>7 DEF Alive
  <2> QED BY <2>5, <2>8, <2>9 DEF IInv
<1>2. CASE ~client.up
  <2>1. wire' = wire /\ wire = <<>> /\ ~HasGreeted /\ ~HasGreeted'
    BY <1>0, <1>2 DEF Publish, Socket, HasGreeted
  <2>2. World' /\ Alive'
    BY <1>0, <2>1 DEF World, Alive, Healthy
  <2>3. Socket'
    BY <1>0, <2>1 DEF Socket
  <2> QED BY <2>2, <2>3 DEF IInv
<1> QED BY <1>1, <1>2

LEMMA StutterHolds ==
  ASSUME IInv, UNCHANGED vars
  PROVE  IInv'
<1>1. Healthy(client', HasGreeted, Level) /\ client'.up = client.up /\ ~client'.recovery
  BY AliveIs DEF vars
<1> QED BY <1>1, PlainStep DEF vars

\* What keeps a client going is inductive: the router's flags, its buffer and its cursor, and
\* the frames on its socket, fit together after every callback of eventRouter.ts.
THEOREM Inductive == Spec => []IInv
<1>1. ASSUME IInv, [Next]_vars PROVE IInv'
  <2>1. CASE Receive
    BY <1>1, <2>1, ReceiveHolds
  <2>2. CASE FlushPending
    BY <1>1, <2>2, FlushPendingHolds
  <2>3. CASE ServerReads
    BY <1>1, <2>3, ServerReadsHolds
  <2>4. CASE MergeSnapshot
    BY <1>1, <2>4, MergeSnapshotHolds
  <2>5. CASE FinishSync
    BY <1>1, <2>5, FinishSyncHolds
  <2>6. CASE SyncFails
    BY <1>1, <2>6, SyncFailsHolds
  <2>7. CASE RetryTimer
    BY <1>1, <2>7, RetryTimerHolds
  <2>8. CASE PoisonAges
    BY <1>1, <2>8, PoisonAgesHolds
  <2>9. CASE Reconcile
    BY <1>1, <2>9, ReconcileHolds
  <2>10. CASE Connect
    BY <1>1, <2>10, ConnectHolds
  <2>11. CASE Disconnect
    BY <1>1, <2>11, DisconnectHolds
  <2>12. CASE ServerRestarts
    BY <1>1, <2>12, ServerRestartsHolds
  <2>13. CASE Publish
    BY <1>1, <2>13, PublishHolds
  <2>14. CASE UNCHANGED vars
    BY <1>1, <2>14, StutterHolds
  <2> QED BY <1>1, <2>1, <2>2, <2>3, <2>4, <2>5, <2>6, <2>7, <2>8, <2>9, <2>10, <2>11, <2>12,
             <2>13, <2>14 DEF Next
<1> QED BY <1>1, InitHolds, PTL DEF Spec
-----------------------------------------------------------------------------
(* What the client shows, as long as it has not reset its stream.             *)

\* The store has the events up to its cursor; the pending ones follow the committed ones; and
\* what is kept for later is not yet in the store, or behind the cursor of the stream.
Clean(c) ==
  /\ ~c.shared
  /\ c.committed <= c.latest /\ c.committed <= c.store.last
  /\ Len(c.pending) = c.latest - c.committed
  /\ \A i \in 1 .. Len(c.pending) : c.pending[i] = c.committed + i
  /\ c.store.last > c.committed => c.pending = <<>>
  /\ c.store.shown = 1 .. c.store.last /\ ~c.store.twice
  /\ \A e \in c.buffered : e > c.store.last \/ e <= c.latest

\* Nothing is pending outside the ordinary course of events.
Tidy(c) == c.sync # "no" \/ c.invalid \/ c.breaker => c.pending = <<>>

\* With one server of l events: the store is ahead of the committed cursor only by events the
\* socket has delivered, those up to n, and no longer once the client is synchronized.
Base(c, n, l) ==
  /\ c.synced => c.store.last = c.committed
  /\ c.store.last > c.committed => c.store.last <= n
  /\ c.pending # <<>> => c.latest <= n
  /\ \A e \in c.buffered : e <= n
  /\ c.store.last <= l /\ c.latest <= l

Fit(c, n, l) ==
  /\ Base(c, n, l)
  /\ c.sync = "finishing" /\ ~c.stale /\ ~c.breaker => c.store.last = c.committed
  /\ c.sync \in {"sent", "queued"} /\ c.answer # NoAnswer => c.store.last <= c.answer /\ c.answer <= l

Faithful(c, s, n, l) == Clean(c) /\ Tidy(c) /\ (s => Fit(c, n, l))

\* The types of what Clean and Base speak of.
LEMMA ClientTypes ==
  ASSUME NEW c \in Client
  PROVE  /\ c.latest \in Nat /\ c.committed \in Nat /\ c.pending \in Seq(Event) /\ Len(c.pending) \in Nat
         /\ c.buffered \in SUBSET Event /\ (\A e \in c.buffered : e \in Nat)
         /\ c.store \in Store /\ c.store.last \in Nat /\ c.store.last \in 0 .. MaxEvents
         /\ c.store.shown \in SUBSET Event /\ c.store.twice \in BOOLEAN
         /\ c.latest \in 0 .. MaxEvents /\ c.committed \in 0 .. MaxEvents /\ MaxEvents \in Nat
         /\ c.answer \in NoAnswer .. MaxEvents
<1>1. /\ c.latest \in 0 .. MaxEvents /\ c.committed \in 0 .. MaxEvents /\ c.pending \in Seq(Event)
      /\ c.buffered \in SUBSET Event /\ c.store \in Store /\ c.answer \in NoAnswer .. MaxEvents
  BY DEF Client
<1>2. MaxEvents \in Nat
  BY RouterAssumption
<1>3. /\ c.store.last \in 0 .. MaxEvents /\ c.store.shown \in SUBSET Event /\ c.store.twice \in BOOLEAN
  BY <1>1 DEF Store
<1>4. \A e \in c.buffered : e \in Nat
  BY <1>1, <1>2 DEF Event
<1>5. Len(c.pending) \in Nat /\ c.latest \in Nat /\ c.committed \in Nat /\ c.store.last \in Nat
  BY <1>1, <1>2, <1>3
<1> QED BY <1>1, <1>2, <1>3, <1>4, <1>5

\* Reducing the events that follow the store leaves the events up to the last of them.
LEMMA ReducedFollows ==
  ASSUME NEW s \in Store, s.shown = 1 .. s.last, ~s.twice, NEW h \in 0 .. MaxEvents, s.last <= h,
         NEW d, d = Reduced(s, s.last + 1 .. h)
  PROVE  d \in Store /\ d.last = h /\ d.shown = 1 .. h /\ ~d.twice
<1> DEFINE E == s.last + 1 .. h
<1>0. s.last \in Nat /\ h \in Nat /\ MaxEvents \in Nat /\ h <= MaxEvents
  BY RouterAssumption DEF Store
<1>1. E \in SUBSET Event
  BY <1>0 DEF Event
<1>d. d = Reduced(s, E)
  OBVIOUS
<1> HIDE DEF E
<1>2. /\ d \in Store
      /\ d.shown = s.shown \cup E
      /\ d.twice <=> s.twice \/ E \cap s.shown # {}
      /\ d.last = s.last \/ d.last \in E
      /\ s.last <= d.last
      /\ \A e \in E : e <= d.last
  BY <1>1, <1>d, ReducedIs
<1> USE DEF E
<1>3. d.last = h
  <2>1. CASE s.last = h
    BY <1>0, <1>2, <2>1
  <2>2. CASE s.last < h
    <3>1. h \in E
      BY <1>0, <2>2
    <3>2. h <= d.last
      BY <1>2, <3>1
    <3>3. d.last \in E
      BY <1>0, <1>2, <2>2, <3>2
    <3> QED BY <1>0, <3>2, <3>3
  <2> QED BY <1>0, <2>1, <2>2
<1>4. d.shown = 1 .. h
  <2>1. 1 .. s.last \cup E = 1 .. h
    BY <1>0
  <2> QED BY <1>2, <2>1
<1>5. E \cap s.shown = {}
  BY <1>0
<1> QED BY <1>2, <1>3, <1>4, <1>5

\* The pending batch of a clean client is the run from the committed cursor to the latest.
LEMMA BatchIs ==
  ASSUME NEW c \in Client, Clean(c), c.pending # <<>>,
         NEW d, d = ReducedBatch(c.store, c.pending)
  PROVE  /\ c.store.last = c.committed /\ c.committed < c.latest
         /\ Last(c.pending) = c.latest /\ Max({c.committed, Last(c.pending)}) = c.latest
         /\ d \in Store /\ d.last = c.latest /\ d.shown = 1 .. c.latest /\ ~d.twice
<1>0. /\ c.latest \in Nat /\ c.committed \in Nat /\ c.pending \in Seq(Event) /\ Len(c.pending) \in Nat
      /\ c.store \in Store /\ c.store.last \in Nat /\ c.latest \in 0 .. MaxEvents
  BY ClientTypes
<1>1. /\ c.store.last = c.committed
      /\ Len(c.pending) = c.latest - c.committed /\ c.committed <= c.latest
      /\ \A i \in 1 .. Len(c.pending) : c.pending[i] = c.committed + i
  BY <1>0 DEF Clean
<1>2. Len(c.pending) # 0
  BY <1>0
<1>3. c.committed < c.latest
  BY <1>0, <1>1, <1>2
<1>4. Last(c.pending) = c.latest
  <2>1. Len(c.pending) \in 1 .. Len(c.pending)
    BY <1>0, <1>2
  <2>2. c.pending[Len(c.pending)] = c.committed + Len(c.pending)
    BY <1>1, <2>1
  <2> QED BY <1>0, <1>1, <2>2 DEF Last
<1>5. {e \in ToSet(c.pending) : e > c.store.last} = c.store.last + 1 .. c.latest
  <2>1. DOMAIN c.pending = 1 .. Len(c.pending)
    BY <1>0
  <2>2. ASSUME NEW e \in ToSet(c.pending) PROVE e \in c.store.last + 1 .. c.latest
    <3>1. PICK i \in 1 .. Len(c.pending) : c.pending[i] = e
      BY <2>1 DEF ToSet
    <3>2. e = c.committed + i
      BY <1>1, <3>1
    <3> QED BY <1>0, <1>1, <3>2
  <2>3. ASSUME NEW e \in c.store.last + 1 .. c.latest
        PROVE  e \in ToSet(c.pending) /\ e > c.store.last
    <3>1. e - c.committed \in 1 .. Len(c.pending) /\ e \in Int /\ e > c.store.last
      BY <1>0, <1>1
    <3>2. c.pending[e - c.committed] = c.committed + (e - c.committed)
      BY <1>1, <3>1
    <3>3. c.pending[e - c.committed] = e
      BY <1>0, <3>1, <3>2
    <3> QED BY <2>1, <3>1, <3>3 DEF ToSet
  <2>4. \A e \in c.store.last + 1 .. c.latest : e > c.store.last
    BY <2>3
  <2> QED BY <2>2, <2>3
<1>6. ~Repeats(c.pending, c.store.last)
  <2>1. DOMAIN c.pending = 1 .. Len(c.pending)
    BY <1>0
  <2> QED BY <1>0, <1>1, <2>1 DEF Repeats
<1>7. d \in Store /\ d.last = c.latest /\ d.shown = 1 .. c.latest /\ ~d.twice
  <2> DEFINE done == Reduced(c.store, c.store.last + 1 .. c.latest)
             again == done.twice \/ Repeats(c.pending, c.store.last)
  <2>1. c.store.shown = 1 .. c.store.last /\ ~c.store.twice /\ c.store.last <= c.latest
    BY <1>0, <1>1, <1>3 DEF Clean
  <2>2. done \in Store /\ done.last = c.latest /\ done.shown = 1 .. c.latest /\ ~done.twice
    BY <1>0, <2>1, ReducedFollows
  <2>3. d = [done EXCEPT !.twice = again]
    BY <1>5 DEF ReducedBatch
  <2>4. again = FALSE
    BY <1>6, <2>2
  <2> HIDE DEF done, again
  <2> QED BY <2>2, <2>3, <2>4 DEF Store
<1>8. Max({c.committed, Last(c.pending)}) = c.latest
  BY <1>0, <1>3, <1>4, MaxOfTwo
<1> QED BY <1>1, <1>3, <1>4, <1>7, <1>8

\* applyPendingBatch.
LEMMA FlushedFaithful ==
  ASSUME NEW c \in Client, c.breaker <=> c.poisons = MaxPoison, Clean(c),
         c.sync # "no" \/ c.breaker => c.pending = <<>>,
         NEW s \in BOOLEAN, NEW n \in Int, NEW l \in Int, s => Fit(c, n, l),
         NEW d, d = Flushed(c)
  PROVE  Clean(d) /\ d.pending = <<>> /\ (s => Fit(d, n, l))
<1>1. /\ d \in Client
      /\ d.sync = c.sync /\ d.answer = c.answer
      /\ c.breaker \/ c.pending = <<>> => Quiet(c, d)
      /\ ~(c.breaker \/ c.pending = <<>>) =>
               /\ d.pending = <<>> /\ ~d.shared
               /\ Applied(c, d) \/ Spoiled(c, d)
  BY FlushedIs
<1>0. /\ c.latest \in Nat /\ c.committed \in Nat /\ c.store.last \in Nat /\ d.latest \in Nat
      /\ \A e \in c.buffered : e \in Nat
  BY <1>1, ClientTypes
<1>2. CASE c.pending = <<>>
  <2>1. Quiet(c, d) /\ d.pending = <<>>
    BY <1>1, <1>2 DEF Quiet
  <2>2. Clean(d)
    BY <2>1 DEF Clean, Quiet
  <2>3. s => Fit(d, n, l)
    BY <1>1, <2>1 DEF Fit, Base, Quiet
  <2> QED BY <2>1, <2>2, <2>3
<1>3. CASE c.pending # <<>>
  <2> DEFINE r == ReducedBatch(c.store, c.pending)
  <2>0. c.sync = "no" /\ ~c.breaker /\ d.pending = <<>> /\ ~d.shared /\ d.sync = "no"
        /\ Len(<<>>) = 0
    BY <1>1, <1>3
  <2>1. /\ c.store.last = c.committed /\ c.committed < c.latest
        /\ Max({c.committed, Last(c.pending)}) = c.latest
        /\ r.last = c.latest /\ r.shown = 1 .. c.latest /\ ~r.twice
    BY <1>3, BatchIs
  <2>2. c.store.shown = 1 .. c.store.last /\ ~c.store.twice
    BY DEF Clean
  <2>3. CASE Applied(c, d)
    <3>1. d.latest = c.latest /\ d.committed = c.latest /\ d.store = r /\ d.buffered = c.buffered
      BY <2>1, <2>3 DEF Applied
    <3> HIDE DEF r
    <3>2. Clean(d)
      BY <1>0, <2>0, <2>1, <3>1 DEF Clean
    <3>3. s => Fit(d, n, l)
      BY <1>0, <2>0, <2>1, <3>1 DEF Fit, Base
    <3> QED BY <2>0, <3>2, <3>3
  <2>4. CASE Spoiled(c, d)
    <3>1. d.latest = c.committed /\ d.committed = c.committed /\ d.buffered = {} /\ ~d.synced
          /\ (d.store = c.store \/ d.store = r)
      BY <2>4 DEF Spoiled
    <3> HIDE DEF r
    <3>2. Clean(d)
      BY <1>0, <2>0, <2>1, <2>2, <3>1 DEF Clean
    <3>3. s => Fit(d, n, l)
      BY <1>0, <1>3, <2>0, <2>1, <3>1 DEF Fit, Base
    <3> QED BY <2>0, <3>2, <3>3
  <2> QED BY <1>1, <1>3, <2>0, <2>3, <2>4
<1> QED BY <1>2, <1>3

LEMMA SynchronizingFaithful ==
  ASSUME NEW c, Typed(c), Clean(c), c.sync # "no" \/ c.breaker => c.pending = <<>>,
         NEW s \in BOOLEAN, NEW n \in Int, NEW l \in Int, s => Fit(c, n, l),
         NEW d, d = Synchronizing(c)
  PROVE  Faithful(d, s, n, l)
<1> DEFINE f == Flushed(c)
<1>1. c \in Client /\ (c.breaker <=> c.poisons = MaxPoison)
  BY DEF Typed
<1>2. /\ d \in Client
      /\ d.breaker <=> d.poisons = MaxPoison
      /\ d.up = c.up
      /\ c.breaker => d = c
      /\ ~c.breaker /\ c.sync # "no" =>
              /\ d.again /\ d.sync = c.sync /\ d.answer = c.answer /\ d.frame = c.frame
              /\ Quiet([c EXCEPT !.again = TRUE], d)
              /\ d = [c EXCEPT !.again = TRUE]
      /\ ~c.breaker /\ c.sync = "no" /\ f.breaker => d = f
      /\ ~c.breaker /\ c.sync = "no" /\ ~f.breaker =>
              /\ d.sync \in {"sent", "queued"} /\ d.answer = NoAnswer
              /\ ~d.stale /\ ~d.invalid /\ ~d.immediate /\ ~d.again /\ ~d.synced /\ ~d.recovery
              /\ d.latest = f.latest /\ d.committed = f.committed /\ d.pending = f.pending
              /\ d.frame = f.frame /\ d.buffered = f.buffered /\ d.shared = f.shared
              /\ d.timer = f.timer /\ d.poisons = f.poisons /\ d.breaker = f.breaker
              /\ d.store = f.store
  BY <1>1, SynchronizingIs
<1>3. Clean(f) /\ f.pending = <<>> /\ (s => Fit(f, n, l))
  BY <1>1, FlushedFaithful
<1> HIDE DEF f
<1>4. CASE c.breaker
  BY <1>2, <1>4 DEF Faithful, Tidy
<1>5. CASE ~c.breaker /\ c.sync # "no"
  <2>1. d = [c EXCEPT !.again = TRUE]
    BY <1>2, <1>5
  <2>2. /\ d.latest = c.latest /\ d.committed = c.committed /\ d.pending = c.pending
        /\ d.buffered = c.buffered /\ d.shared = c.shared /\ d.store = c.store
        /\ d.sync = c.sync /\ d.answer = c.answer /\ d.stale = c.stale /\ d.breaker = c.breaker
        /\ d.synced = c.synced
    BY <1>1, <2>1 DEF Client
  <2>3. Clean(d) /\ Tidy(d)
    BY <1>5, <2>2 DEF Clean, Tidy
  <2>4. s => Fit(d, n, l)
    BY <2>2 DEF Fit, Base
  <2> QED BY <2>3, <2>4 DEF Faithful
<1>6. CASE ~c.breaker /\ c.sync = "no" /\ f.breaker
  BY <1>2, <1>3, <1>6 DEF Faithful, Tidy
<1>7. CASE ~c.breaker /\ c.sync = "no" /\ ~f.breaker
  <2>1. /\ d.sync \in {"sent", "queued"} /\ d.answer = NoAnswer /\ ~d.synced
        /\ d.latest = f.latest /\ d.committed = f.committed /\ d.pending = f.pending
        /\ d.buffered = f.buffered /\ d.shared = f.shared /\ d.store = f.store
    BY <1>2, <1>7
  <2>2. Clean(d) /\ Tidy(d)
    BY <1>3, <2>1 DEF Clean, Tidy
  <2>3. s => Fit(d, n, l)
    BY <1>3, <2>1 DEF Fit, Base
  <2> QED BY <2>2, <2>3 DEF Faithful
<1> QED BY <1>4, <1>5, <1>6, <1>7

LEMMA RecoveringFaithful ==
  ASSUME NEW c, Typed(c), NEW s \in BOOLEAN, NEW n \in Int, NEW l \in Int, Faithful(c, s, n, l),
         NEW d, d = Recovering(c)
  PROVE  Faithful(d, s, n, l)
<1>1. CASE c.recovery
  <2> DEFINE b == [c EXCEPT !.recovery = FALSE]
  <2>0. c \in Client
    BY DEF Typed
  <2>1. d = Synchronizing(b)
    BY <1>1 DEF Recovering
  <2>2. b \in Client
    BY <2>0 DEF Client
  <2>3. /\ b.pending = c.pending /\ b.buffered = c.buffered /\ b.shared = c.shared
        /\ b.breaker = c.breaker /\ b.stale = c.stale
        /\ b.synced = c.synced /\ b.latest = c.latest /\ b.poisons = c.poisons
    BY <2>0 DEF Client
  <2>4. /\ b.sync = c.sync /\ b.answer = c.answer /\ b.store = c.store /\ b.committed = c.committed
    BY <2>0 DEF Client
  <2> HIDE DEF b
  <2>5. Typed(b)
    BY <2>2, <2>3 DEF Typed
  <2>6. Clean(b)
    BY <2>3, <2>4 DEF Faithful, Clean
  <2>7. s => Fit(b, n, l)
    BY <2>3, <2>4 DEF Faithful, Fit, Base
  <2>8. b.sync # "no" \/ b.breaker => b.pending = <<>>
    BY <2>3, <2>4 DEF Faithful, Tidy
  <2> QED BY <2>1, <2>5, <2>6, <2>7, <2>8, SynchronizingFaithful
<1>2. CASE ~c.recovery
  BY <1>2 DEF Recovering
<1> QED BY <1>1, <1>2

LEMMA SyncEndedFaithful ==
  ASSUME NEW c, Typed(c), Clean(c), c.invalid \/ c.breaker => c.pending = <<>>,
         NEW s \in BOOLEAN, NEW n \in Int, NEW l \in Int, s => Base(c, n, l),
         NEW d, d = SyncEnded(c)
  PROVE  Faithful(d, s, n, l)
<1> DEFINE ended == [c EXCEPT !.sync = "no", !.answer = NoAnswer, !.recovery = FALSE]
           begun == [ended EXCEPT !.again = FALSE]
<1>0. c \in Client /\ NoAnswer \in NoAnswer .. MaxEvents
  BY RouterAssumption DEF Typed, NoAnswer
<1>1. ended \in Client /\ begun \in Client
  BY <1>0 DEF Client
<1>2. /\ ended.pending = c.pending /\ ended.buffered = c.buffered /\ ended.shared = c.shared
      /\ ended.latest = c.latest /\ ended.committed = c.committed /\ ended.store = c.store
      /\ ended.breaker = c.breaker /\ ended.invalid = c.invalid /\ ended.synced = c.synced
      /\ ended.sync = "no"
  BY <1>0 DEF Client
<1>4. /\ begun.pending = c.pending /\ begun.buffered = c.buffered /\ begun.shared = c.shared
      /\ begun.latest = c.latest /\ begun.committed = c.committed /\ begun.store = c.store
      /\ begun.breaker = c.breaker /\ begun.poisons = c.poisons /\ begun.synced = c.synced
      /\ begun.sync = "no"
  BY <1>0 DEF Client
<1>5. d = IF Again(ended) THEN Synchronizing(begun) ELSE ended
  BY DEF SyncEnded
<1> HIDE DEF ended, begun
<1>6. CASE Again(ended)
  <2>1. Typed(begun)
    BY <1>0, <1>1, <1>4 DEF Typed
  <2>2. Clean(begun) /\ (s => Fit(begun, n, l))
    BY <1>4 DEF Clean, Fit, Base
  <2>3. begun.sync # "no" \/ begun.breaker => begun.pending = <<>>
    BY <1>4
  <2>4. d = Synchronizing(begun)
    BY <1>5, <1>6
  <2> QED BY <2>1, <2>2, <2>3, <2>4, SynchronizingFaithful
<1>7. CASE ~Again(ended)
  <2>1. d = ended
    BY <1>5, <1>7
  <2>2. Clean(d) /\ Tidy(d)
    BY <1>2, <2>1 DEF Clean, Tidy
  <2>3. s => Fit(d, n, l)
    BY <1>2, <2>1 DEF Fit, Base
  <2> QED BY <2>2, <2>3 DEF Faithful
<1> QED BY <1>6, <1>7

LEMMA SyncFailedFaithful ==
  ASSUME NEW c, Typed(c), Clean(c), c.invalid \/ c.breaker => c.pending = <<>>,
         NEW s \in BOOLEAN, NEW n \in Int, NEW l \in Int, s => Base(c, n, l),
         NEW d, d = SyncFailed(c)
  PROVE  Faithful(d, s, n, l)
<1> DEFINE t == ~c.breaker /\ ~(c.invalid /\ c.immediate)
           b == [c EXCEPT !.timer = t]
<1>0. c \in Client /\ t \in BOOLEAN
  BY DEF Typed
<1>1. d = SyncEnded(b)
  BY DEF SyncFailed
<1> HIDE DEF t
<1>3. b \in Client
  BY <1>0 DEF Client
<1>4. /\ b.pending = c.pending /\ b.buffered = c.buffered /\ b.shared = c.shared
      /\ b.breaker = c.breaker /\ b.poisons = c.poisons /\ b.invalid = c.invalid
  BY <1>0 DEF Client
<1>5. /\ b.synced = c.synced /\ b.latest = c.latest /\ b.committed = c.committed /\ b.store = c.store
  BY <1>0 DEF Client
<1> HIDE DEF b
<1>6. Typed(b)
  BY <1>3, <1>4 DEF Typed
<1>7. Clean(b) /\ (s => Base(b, n, l))
  BY <1>4, <1>5 DEF Clean, Base
<1> QED BY <1>1, <1>4, <1>6, <1>7, SyncEndedFaithful

LEMMA DrainFailedFaithful ==
  ASSUME NEW c, Typed(c), Clean(c), c.invalid \/ c.breaker => c.pending = <<>>,
         NEW s \in BOOLEAN, NEW n \in Int, NEW l \in Int, s => Base(c, n, l),
         NEW d, d = DrainFailed(c)
  PROVE  Faithful(d, s, n, l)
<1> DEFINE t == c.timer \/ (~c.invalid /\ ~c.breaker)
           b == [c EXCEPT !.again = TRUE, !.timer = t]
<1>0. c \in Client
  BY DEF Typed
<1>1. t \in BOOLEAN
  BY <1>0 DEF Client
<1>2. d = SyncEnded(b)
  BY DEF DrainFailed
<1> HIDE DEF t
<1>3. b \in Client
  BY <1>0, <1>1 DEF Client
<1>4. /\ b.pending = c.pending /\ b.buffered = c.buffered /\ b.shared = c.shared
      /\ b.breaker = c.breaker /\ b.poisons = c.poisons /\ b.invalid = c.invalid
  BY <1>0 DEF Client
<1>5. /\ b.synced = c.synced /\ b.latest = c.latest /\ b.committed = c.committed /\ b.store = c.store
  BY <1>0 DEF Client
<1> HIDE DEF b
<1>6. Typed(b)
  BY <1>3, <1>4 DEF Typed
<1>7. Clean(b) /\ (s => Base(b, n, l))
  BY <1>4, <1>5 DEF Clean, Base
<1> QED BY <1>2, <1>4, <1>6, <1>7, SyncEndedFaithful
\* The run that drainBufferedEvents takes follows the store, and so does the bad event after it.
LEMMA DrainIs ==
  ASSUME NEW c \in Client, Clean(c), c.pending = <<>>
  PROVE  /\ c.committed = c.latest /\ c.latest <= c.store.last
         /\ Good(c) = c.latest + 1 .. Head0(c) /\ Committed0(c) = Head0(c)
         /\ Good(c) \subseteq c.buffered /\ Bad(c) \subseteq c.buffered
         /\ Good(c) # {} \/ Bad(c) # {} => c.store.last = c.latest
         /\ Good(c) # {} => Head0(c) \in c.buffered
         /\ Good(c) = {} => Head0(c) = c.latest
         /\ Bad(c) \subseteq {Head0(c) + 1}
<1> DEFINE h == Head0(c)
<1>0. /\ c.latest \in Nat /\ c.committed \in Nat /\ c.store.last \in Nat
      /\ \A e \in c.buffered : e \in Nat
  BY ClientTypes
<1>1. /\ DrainRun(c) \subseteq c.buffered
      /\ \A e \in DrainRun(c) : e \in Nat /\ e > c.latest
      /\ h \in Nat /\ c.latest <= h
      /\ h \in Good(c) \/ h = c.latest
      /\ \A e \in Good(c) : e <= h
  BY RunIs, RouterAssumption
<1>2. c.committed = c.latest /\ c.latest <= c.store.last
  BY <1>0 DEF Clean
<1>3. Good(c) = {} => h = c.latest
  BY DEF Head0
<1>4. Committed0(c) = h
  BY <1>2, <1>3 DEF Committed0
<1>5. Good(c) \subseteq DrainRun(c) /\ Bad(c) \subseteq DrainRun(c) /\ Good(c) \cap Bad(c) = {}
  BY DEF Good, Bad
<1> HIDE DEF h
<1>6. ASSUME NEW e \in DrainRun(c), NEW x \in c.latest + 1 .. e - 1 PROVE x \in Good(c)
  <2>1. e \in Nat /\ x \in Nat /\ x > c.latest /\ x < e
    BY <1>0, <1>1
  <2>2. \A y \in c.latest + 1 .. e - 1 : y \in c.buffered \ (Throws \cup ThrowsLate)
    BY DEF DrainRun
  <2>3. \A y \in c.latest + 1 .. x - 1 : y \in c.latest + 1 .. e - 1
    BY <1>0, <2>1
  <2>4. x \in DrainRun(c)
    BY <2>1, <2>2, <2>3 DEF DrainRun
  <2> QED BY <2>2, <2>4 DEF Good, Bad
<1>7. Good(c) = c.latest + 1 .. h
  <2>1. ASSUME NEW e \in Good(c) PROVE e \in c.latest + 1 .. h
    BY <1>0, <1>1, <1>5
  <2>2. ASSUME NEW x \in c.latest + 1 .. h PROVE x \in Good(c)
    <3>1. h \in Good(c) /\ h \in DrainRun(c) /\ x \in Nat
      BY <1>0, <1>1, <1>5
    <3>2. x = h \/ x \in c.latest + 1 .. h - 1
      BY <1>0, <1>1
    <3> QED BY <1>6, <3>1, <3>2
  <2> QED BY <2>1, <2>2
<1>8. ASSUME NEW e \in Bad(c) PROVE e = h + 1
  <2>1. e \in DrainRun(c) /\ e \in Nat /\ e > c.latest /\ e \notin Good(c)
    BY <1>1, <1>5
  <2>2. ~(e <= h)
    BY <1>0, <1>1, <1>7, <2>1
  <2>3. CASE e = c.latest + 1
    BY <1>0, <1>1, <2>2, <2>3
  <2>4. CASE e > c.latest + 1
    <3>1. e - 1 \in c.latest + 1 .. e - 1
      BY <1>0, <2>1, <2>4
    <3>2. e - 1 <= h
      BY <1>1, <1>6, <2>1, <3>1
    <3> QED BY <1>1, <2>1, <2>2, <3>2
  <2> QED BY <1>0, <2>1, <2>3, <2>4
<1>9. ASSUME NEW e \in DrainRun(c) PROVE c.store.last = c.latest
  <2>1. e \in Nat /\ e > c.latest
    BY <1>1
  <2>2. c.latest + 1 \in c.buffered
    <3>1. CASE e = c.latest + 1
      BY <1>1, <3>1
    <3>2. CASE e > c.latest + 1
      <4>1. c.latest + 1 \in c.latest + 1 .. e - 1
        BY <1>0, <2>1, <3>2
      <4> QED BY <1>1, <1>5, <1>6, <4>1
    <3> QED BY <1>0, <2>1, <3>1, <3>2
  <2>3. c.latest + 1 > c.store.last \/ c.latest + 1 <= c.latest
    BY <2>2 DEF Clean
  <2> QED BY <1>0, <1>2, <2>3
<1>10. Good(c) # {} \/ Bad(c) # {} => c.store.last = c.latest
  BY <1>5, <1>9
<1>11. Good(c) # {} => h \in c.buffered
  <2>1. Good(c) # {} => h \in Good(c)
    BY <1>0, <1>1, <1>7
  <2> QED BY <1>1, <1>5, <2>1
<1> QED BY <1>1, <1>2, <1>3, <1>4, <1>5, <1>7, <1>8, <1>10, <1>11 DEF h

\* A client whose buffer may be handed over: no failure is left, and what it shows is right.
Ready(c, s, n, l) ==
  /\ Typed(c) /\ ~c.breaker /\ ~c.synced /\ Clean(c) /\ c.pending = <<>>
  /\ s => Base(c, n, l)

\* What a drain of the buffer shows is what the client may show.
LEMMA ReadyFaithful ==
  ASSUME NEW c, NEW s \in BOOLEAN, NEW n \in Int, NEW l \in Int, n <= l, Ready(c, s, n, l),
         NEW d, d = Drained(c)
  PROVE  /\ Clean(d) /\ d.pending = <<>> /\ (s => Base(d, n, l))
         /\ Bad(c) = {} /\ c.store.last = c.committed => d.store.last = d.committed
<1>r. /\ Typed(c) /\ ~c.breaker /\ ~c.synced /\ Clean(c) /\ c.pending = <<>>
      /\ s => Base(c, n, l)
  BY DEF Ready
<1> USE <1>r
<1> DEFINE h == Head0(c)
           g == Reduced(c.store, Good(c))
           b == Reduced(g, Bad(c) \ Throws)
           k == IF Good(c) = {} THEN c.store.last ELSE h
<1>a. c \in Client /\ (c.breaker <=> c.poisons = MaxPoison) /\ c.poisons < MaxPoison
  BY NoPoison DEF Typed
<1>0. /\ c.latest \in Nat /\ c.committed \in Nat /\ c.store.last \in Nat /\ c.store \in Store
      /\ c.store.last \in 0 .. MaxEvents /\ MaxEvents \in Nat /\ c.buffered \in SUBSET Event
      /\ \A e \in c.buffered : e \in Nat
  BY <1>a, ClientTypes
<1>1. /\ c.committed = c.latest /\ c.latest <= c.store.last
      /\ Good(c) = c.latest + 1 .. h /\ Committed0(c) = h
      /\ Good(c) \subseteq c.buffered /\ Bad(c) \subseteq c.buffered
      /\ Good(c) # {} \/ Bad(c) # {} => c.store.last = c.latest
      /\ Good(c) # {} => h \in c.buffered
      /\ Good(c) = {} => h = c.latest
      /\ Bad(c) \subseteq {h + 1}
  BY <1>a, DrainIs
<1>2. h \in 0 .. MaxEvents /\ c.latest <= h /\ h \in Nat
  BY <1>a, <1>0, RunIs
<1>3. /\ d.pending = <<>> /\ ~d.shared /\ d.committed = h
      /\ Bad(c) = {} =>
           /\ d.latest = h /\ d.buffered = {e \in c.buffered : e > h} /\ d.synced = c.synced
           /\ d.store = g
      /\ Bad(c) # {} => d.latest = h /\ d.buffered = {} /\ ~d.synced /\ d.store = b
  <2>1. /\ d.pending = c.pending /\ ~d.shared /\ d.committed = Committed0(c)
        /\ Bad(c) = {} =>
             /\ d.latest = Head0(c) /\ d.buffered = {e \in c.buffered : e > Head0(c)}
             /\ d.synced = c.synced /\ d.store = Reduced(c.store, Good(c))
        /\ Bad(c) # {} =>
             /\ d.latest = Committed0(c) /\ d.buffered = {} /\ ~d.synced
             /\ d.store = Reduced(Reduced(c.store, Good(c)), Bad(c) \ Throws)
    BY <1>a, DrainedIs
  <2> QED BY <1>1, <2>1
<1>4. c.store.shown = 1 .. c.store.last /\ ~c.store.twice
      /\ \A e \in c.buffered : e > c.store.last \/ e <= c.latest
  BY DEF Clean
<1> HIDE DEF h
<1>5. g \in Store /\ g.last = k /\ g.shown = 1 .. k /\ ~g.twice /\ k \in 0 .. MaxEvents
  <2>1. k \in 0 .. MaxEvents /\ c.store.last <= k /\ Good(c) = c.store.last + 1 .. k
    <3>1. CASE Good(c) = {}
      BY <1>0, <3>1
    <3>2. CASE Good(c) # {}
      BY <1>1, <1>2, <3>2
    <3> QED BY <3>1, <3>2
  <2> HIDE DEF k
  <2>2. g = Reduced(c.store, c.store.last + 1 .. k)
    BY <2>1
  <2> HIDE DEF g
  <2> QED BY <1>0, <1>4, <2>1, <2>2, ReducedFollows
<1>6. k \in Nat /\ h <= k /\ (k = h \/ (Good(c) = {} /\ k = c.store.last))
  BY <1>0, <1>1, <1>2
<1>7. CASE Bad(c) = {}
  <2>1. d.latest = h /\ d.buffered = {e \in c.buffered : e > h} /\ ~d.synced /\ d.store = g
    BY <1>3, <1>7
  <2>2. \A e \in d.buffered : e > k \/ e <= h
    <3>1. CASE k = h
      BY <2>1, <3>1
    <3>2. CASE Good(c) = {} /\ k = c.store.last
      BY <1>1, <1>4, <2>1, <3>2
    <3> QED BY <1>6, <3>1, <3>2
  <2>3. Clean(d)
    <3>1. Len(d.pending) = 0
      BY <1>3
    <3> HIDE DEF k, g
    <3> QED BY <1>2, <1>3, <1>5, <1>6, <2>1, <2>2, <3>1 DEF Clean
  <2>4. s => Base(d, n, l)
    <3>1. ASSUME s PROVE d.store.last > d.committed => d.store.last <= n
      BY <1>0, <1>1, <1>3, <1>5, <1>6, <2>1, <3>1 DEF Base
    <3>2. ASSUME s PROVE d.store.last <= l /\ d.latest <= l
      <4>1. h <= l
        BY <1>0, <1>1, <1>2, <3>2 DEF Base
      <4>2. k <= l
        BY <1>6, <3>2, <4>1 DEF Base
      <4> QED BY <1>5, <2>1, <4>1, <4>2
    <3>3. ASSUME s PROVE \A e \in d.buffered : e <= n
      BY <2>1, <3>3 DEF Base
    <3> QED BY <1>3, <2>1, <3>1, <3>2, <3>3 DEF Base
  <2>5. c.store.last = c.committed => d.store.last = d.committed
    BY <1>1, <1>3, <1>5, <1>6, <2>1
  <2> QED BY <1>3, <2>3, <2>4, <2>5
<1>8. CASE Bad(c) # {}
  <2>1. d.latest = h /\ d.buffered = {} /\ ~d.synced /\ d.store = b /\ h + 1 \in Bad(c)
        /\ h + 1 \in c.buffered /\ Bad(c) = {h + 1}
    BY <1>1, <1>3, <1>8
  <2>2. k = h
    BY <1>1, <1>8
  <2>3. h + 1 \in 0 .. MaxEvents
    BY <1>0, <2>1 DEF Event
  <2>4. /\ b.last \in {h, h + 1} /\ b.shown = 1 .. b.last /\ ~b.twice
    <3> HIDE DEF k, g
    <3>1. CASE h + 1 \in Throws
      <4>1. Bad(c) \ Throws = g.last + 1 .. h /\ g.last <= h
        BY <1>2, <1>5, <2>1, <2>2, <3>1
      <4>2. b = Reduced(g, g.last + 1 .. h)
        BY <4>1
      <4> HIDE DEF b
      <4>3. b.last = h /\ b.shown = 1 .. h /\ ~b.twice
        BY <1>2, <1>5, <2>2, <4>1, <4>2, ReducedFollows
      <4> QED BY <4>3
    <3>2. CASE h + 1 \notin Throws
      <4> DEFINE j == h + 1
      <4>1. Bad(c) \ Throws = g.last + 1 .. j /\ g.last <= j /\ j \in 0 .. MaxEvents
        BY <1>2, <1>5, <2>1, <2>2, <2>3, <3>2
      <4>2. b = Reduced(g, g.last + 1 .. j) /\ g.shown = 1 .. g.last /\ ~g.twice /\ g \in Store
        BY <1>5, <4>1
      <4> HIDE DEF b, j
      <4>3. b.last = j /\ b.shown = 1 .. j /\ ~b.twice
        BY <4>1, <4>2, ReducedFollows
      <4> QED BY <4>3 DEF j
    <3> QED BY <3>1, <3>2
  <2> HIDE DEF b, k, g
  <2>5. Clean(d)
    <3>1. Len(d.pending) = 0 /\ b.last \in Nat /\ h <= b.last
      BY <1>2, <1>3, <2>4
    <3> QED BY <1>2, <1>3, <2>1, <2>4, <3>1 DEF Clean
  <2>6. s => Base(d, n, l)
    <3>1. ASSUME s PROVE h + 1 <= n
      BY <2>1, <3>1 DEF Base
    <3>2. ASSUME s PROVE h + 1 <= l /\ h <= l
      BY <1>2, <3>1, <3>2
    <3>3. ASSUME s PROVE d.store.last <= n /\ d.store.last <= l
      BY <1>2, <2>1, <2>4, <3>1, <3>2, <3>3
    <3> QED BY <1>3, <2>1, <3>2, <3>3 DEF Base
  <2> QED BY <1>3, <1>8, <2>5, <2>6
<1> QED BY <1>7, <1>8

\* The answer moves the store and both cursors to it, or is behind them all.
LEMMA MergedFaithful ==
  ASSUME NEW c, Typed(c), ~c.synced, c.answer # NoAnswer, Clean(c), c.pending = <<>>,
         NEW s \in BOOLEAN, NEW n \in Int, NEW l \in Int, n <= l,
         s => Base(c, n, l) /\ c.store.last <= c.answer /\ c.answer <= l,
         NEW m, m = Merged(c)
  PROVE  Clean(m) /\ m.pending = <<>> /\ (s => Base(m, n, l) /\ m.store.last = m.committed)
<1> DEFINE a == c.answer
<1>a. c \in Client
  BY DEF Typed
<1>0. /\ c.latest \in Nat /\ c.committed \in Nat /\ c.store.last \in Nat /\ c.store \in Store
      /\ \A e \in c.buffered : e \in Nat
  BY <1>a, ClientTypes
<1>1. /\ a \in 0 .. MaxEvents
      /\ m.latest = Max({c.latest, a}) /\ m.committed = Max({c.committed, a})
      /\ m.store = Hydrated(c.store, a)
      /\ m.pending = c.pending /\ m.buffered = c.buffered /\ m.shared = c.shared /\ m.synced = c.synced
  BY <1>a, MergedIs
<1>2. a \in Nat
  BY <1>1, RouterAssumption
<1>3. c.committed = c.latest /\ c.latest <= c.store.last /\ Len(c.pending) = 0
  BY <1>0 DEF Clean
<1>4. m.latest = (IF c.latest <= a THEN a ELSE c.latest) /\ m.committed = m.latest
  BY <1>0, <1>1, <1>2, <1>3, MaxOfTwo
<1>5. /\ a < c.store.last => m.store = c.store
      /\ a >= c.store.last => m.store.shown = 1 .. a /\ m.store.last = a /\ ~m.store.twice
  BY <1>0, <1>1, HydratedIs
<1> HIDE DEF a
<1>6. m.store.last = (IF a < c.store.last THEN c.store.last ELSE a)
  BY <1>0, <1>2, <1>5
<1>7. Clean(m)
  <2>1. m.committed <= m.store.last
    BY <1>0, <1>2, <1>3, <1>4, <1>6
  <2>2. m.store.shown = 1 .. m.store.last /\ ~m.store.twice
    BY <1>0, <1>2, <1>5 DEF Clean
  <2>3. \A e \in m.buffered : e > m.store.last \/ e <= m.latest
    <3>1. \A e \in m.buffered : e \in Nat /\ (e > c.store.last \/ e <= c.latest)
      BY <1>0, <1>1 DEF Clean
    <3> QED BY <1>0, <1>2, <1>4, <1>6, <3>1
  <2>4. ~m.shared /\ m.committed <= m.latest /\ Len(m.pending) = m.latest - m.committed
        /\ m.pending = <<>> /\ Len(m.pending) = 0
    BY <1>0, <1>1, <1>2, <1>3, <1>4 DEF Clean
  <2>5. \A i \in 1 .. Len(m.pending) : m.pending[i] = m.committed + i
    BY <2>4
  <2> QED BY <2>1, <2>2, <2>3, <2>4, <2>5 DEF Clean
<1>8. ASSUME s PROVE Base(m, n, l) /\ m.store.last = m.committed
  <2>1. c.store.last <= a /\ a <= l /\ Base(c, n, l)
    BY <1>8 DEF a
  <2>2. m.store.last = a /\ m.committed = a /\ m.latest = a
    BY <1>0, <1>2, <1>3, <1>4, <1>6, <2>1
  <2> QED BY <1>1, <1>2, <2>1, <2>2 DEF Base
<1> QED BY <1>1, <1>7, <1>8

LEMMA MergeFaithful ==
  ASSUME NEW c, Typed(c), Calm(c), c.sync = "sent", c.answer # NoAnswer,
         NEW s \in BOOLEAN, NEW n \in Int, NEW l \in Int, n <= l, Faithful(c, s, n, l),
         NEW d, d = MergeEnd(c)
  PROVE  Faithful(d, s, n, l)
<1> DEFINE m == Merged(c)
           D == Drained(m)
           x == [D EXCEPT !.sync = "finishing", !.answer = NoAnswer]
<1>0. /\ c \in Client /\ ~c.synced /\ Clean(c) /\ c.pending = <<>> /\ (s => Base(c, n, l))
      /\ (s => c.store.last <= c.answer /\ c.answer <= l)
  BY DEF Typed, Calm, Faithful, Tidy, Fit
<1>1. CASE c.breaker
  <2>1. d = SyncEnded(c)
    BY <1>1 DEF MergeEnd
  <2> QED BY <1>0, <2>1, SyncEndedFaithful
<1>2. CASE ~c.breaker /\ c.stale
  <2>1. d = SyncFailed(c)
    BY <1>2 DEF MergeEnd
  <2> QED BY <1>0, <2>1, SyncFailedFaithful
<1>3. CASE ~c.breaker /\ ~c.stale
  <2>1. d = IF DrainComplete(m) THEN x ELSE DrainFailed(D)
    BY <1>3 DEF MergeEnd
  <2>2. /\ m \in Client
        /\ m.pending = c.pending /\ m.buffered = c.buffered /\ m.shared = c.shared
        /\ m.poisons = c.poisons /\ m.breaker = c.breaker /\ m.synced = c.synced
    BY <1>0, MergedIs
  <2>3. Clean(m) /\ m.pending = <<>> /\ (s => Base(m, n, l) /\ m.store.last = m.committed)
    BY <1>0, MergedFaithful
  <2> HIDE DEF m
  <2>4. Typed(m) /\ ~m.breaker /\ ~m.synced
    BY <1>0, <1>3, <2>2 DEF Typed
  <2>5. D = Drained(m)
    OBVIOUS
  <2> HIDE DEF D
  <2>6. /\ Clean(D) /\ D.pending = <<>> /\ (s => Base(D, n, l))
        /\ Bad(m) = {} /\ m.store.last = m.committed => D.store.last = D.committed
    <3>1. Ready(m, s, n, l)
      BY <2>3, <2>4 DEF Ready
    <3> QED BY <2>5, <3>1, ReadyFaithful, ZenonT(60)
  <2>9. Typed(D)
    BY <2>4, <2>5, DrainedTyped
  <2>7. CASE ~DrainComplete(m)
    BY <2>1, <2>6, <2>7, <2>9, DrainFailedFaithful
  <2>8. CASE DrainComplete(m)
    <3>1. Bad(m) = {}
      BY <2>2, <2>8, CompleteIs
    <3>2. s => D.store.last = D.committed
      BY <2>3, <2>6, <3>1
    <3>3. D \in Client
      BY <2>9 DEF Typed
    <3>4. /\ x.latest = D.latest /\ x.committed = D.committed /\ x.pending = D.pending
          /\ x.buffered = D.buffered /\ x.shared = D.shared /\ x.store = D.store
          /\ x.synced = D.synced /\ x.sync = "finishing"
      BY <3>3 DEF Client
    <3> HIDE DEF x
    <3>5. Clean(x) /\ Tidy(x)
      BY <2>6, <3>4 DEF Clean, Tidy
    <3>6. s => Fit(x, n, l)
      BY <2>6, <3>2, <3>4 DEF Fit, Base
    <3> QED BY <2>1, <2>8, <3>5, <3>6 DEF Faithful
  <2> QED BY <2>7, <2>8
<1> QED BY <1>1, <1>2, <1>3

LEMMA FinishFaithful ==
  ASSUME NEW c, Typed(c), Calm(c), c.sync = "finishing",
         NEW s \in BOOLEAN, NEW n \in Int, NEW l \in Int, n <= l, Faithful(c, s, n, l),
         NEW d, d = FinishEnd(c)
  PROVE  Faithful(d, s, n, l)
<1> DEFINE D == Drained(c)
           u == c.up
           x == [D EXCEPT !.timer = FALSE, !.synced = u]
<1>0. /\ c \in Client /\ ~c.synced /\ Clean(c) /\ c.pending = <<>> /\ (s => Base(c, n, l))
      /\ (s /\ ~c.stale /\ ~c.breaker => c.store.last = c.committed)
  BY DEF Typed, Calm, Faithful, Tidy, Fit
<1>1. CASE c.breaker
  <2>1. d = SyncEnded(c)
    BY <1>1 DEF FinishEnd
  <2> QED BY <1>0, <2>1, SyncEndedFaithful
<1>2. CASE ~c.breaker /\ c.stale
  <2>1. d = SyncFailed(c)
    BY <1>2 DEF FinishEnd
  <2> QED BY <1>0, <2>1, SyncFailedFaithful
<1>3. CASE ~c.breaker /\ ~c.stale
  <2>1. d = IF DrainComplete(c) THEN SyncEnded(x) ELSE DrainFailed(D)
    BY <1>3 DEF FinishEnd
  <2>5. D = Drained(c) /\ u \in BOOLEAN
    BY <1>0 DEF Client
  <2> HIDE DEF D, u
  <2>6. /\ Clean(D) /\ D.pending = <<>> /\ (s => Base(D, n, l))
        /\ Bad(c) = {} /\ c.store.last = c.committed => D.store.last = D.committed
    <3>1. Ready(c, s, n, l)
      BY <1>0, <1>3 DEF Ready
    <3>2. D = Drained(c)
      BY <2>5
    <3> QED BY <3>1, <3>2, ReadyFaithful, ZenonT(60)
  <2>9. Typed(D)
    BY <1>3, <2>5, DrainedTyped
  <2>7. CASE ~DrainComplete(c)
    BY <2>1, <2>6, <2>7, <2>9, DrainFailedFaithful
  <2>8. CASE DrainComplete(c)
    <3>1. Bad(c) = {}
      BY <1>0, <2>8, CompleteIs
    <3>2. s => D.store.last = D.committed
      BY <1>0, <1>3, <2>6, <3>1
    <3>3. D \in Client
      BY <2>9 DEF Typed
    <3>4. /\ x.latest = D.latest /\ x.committed = D.committed /\ x.pending = D.pending
          /\ x.buffered = D.buffered /\ x.shared = D.shared /\ x.store = D.store
          /\ x.breaker = D.breaker /\ x.poisons = D.poisons
      BY <3>3 DEF Client
    <3>5. x \in Client
      BY <2>5, <3>3 DEF Client
    <3> HIDE DEF x
    <3>6. Typed(x)
      BY <2>9, <3>4, <3>5 DEF Typed
    <3>7. Clean(x) /\ (s => Base(x, n, l))
      BY <2>6, <3>2, <3>4 DEF Clean, Base
    <3> QED BY <2>1, <2>6, <2>8, <3>4, <3>6, <3>7, SyncEndedFaithful
  <2> QED BY <2>7, <2>8
<1> QED BY <1>1, <1>2, <1>3
\* More events delivered, or more of them at the server, change nothing.
LEMMA FitGrows ==
  ASSUME NEW c \in Client, NEW n \in Int, NEW l \in Int, NEW k \in Int, NEW j \in Int,
         n <= k, l <= j, Fit(c, n, l)
  PROVE  Fit(c, k, j)
<1>0. c.latest \in Int /\ c.store.last \in Int /\ c.answer \in Int /\ \A e \in c.buffered : e \in Int
  BY ClientTypes, RouterAssumption DEF NoAnswer
<1>1. Base(c, k, j)
  BY <1>0 DEF Fit, Base
<1> QED BY <1>0, <1>1 DEF Fit

\* bufferEvent after the flush: an event the client keeps is new to the store.
LEMMA BufferedFaithful ==
  ASSUME NEW c \in Client, NEW e \in Event, c.pending = <<>>,
         NEW s \in BOOLEAN, NEW n \in Int, NEW l \in Int, Faithful(c, s, n, l),
         c.store.last > c.committed => c.store.last < e, s => e <= n,
         NEW d, d = Buffered(c, e)
  PROVE  Faithful(d, s, n, l) /\ d.pending = <<>>
<1>0. /\ c.latest \in Nat /\ c.committed \in Nat /\ c.store.last \in Nat /\ e \in Nat
      /\ Clean(c) /\ Tidy(c)
  BY ClientTypes, RouterAssumption DEF Faithful, Event
<1>1. \/ (e <= c.latest \/ c.invalid) /\ d = c
      \/ /\ e > c.latest /\ ~c.invalid /\ Cardinality(c.buffered) >= MaxBuffer
         /\ d = Overflown(c)
      \/ /\ e > c.latest /\ ~c.invalid /\ ~(Cardinality(c.buffered) >= MaxBuffer)
         /\ d = Kept(c, e)
  BY BufferedIs
<1>2. CASE d = c
  BY <1>2
<1>3. CASE d = Overflown(c)
  <2>1. /\ d.latest = c.latest /\ d.committed = c.committed /\ d.pending = c.pending
        /\ d.buffered = {} /\ ~d.shared /\ d.store = c.store /\ ~d.synced
        /\ d.sync = c.sync /\ d.answer = c.answer /\ d.stale
    BY <1>3 DEF Client, Overflown
  <2>2. Clean(d) /\ Tidy(d)
    BY <1>0, <2>1 DEF Clean, Tidy
  <2>3. s => Fit(d, n, l)
    BY <2>1 DEF Faithful, Fit, Base
  <2> QED BY <2>1, <2>2, <2>3 DEF Faithful
<1>4. CASE e > c.latest /\ d = Kept(c, e)
  <2>0. ~c.shared
    BY <1>0 DEF Clean
  <2>1. /\ d.latest = c.latest /\ d.committed = c.committed /\ d.pending = c.pending
        /\ d.buffered = c.buffered \cup {e} /\ ~d.shared /\ d.store = c.store
    BY <1>4, <2>0 DEF Client, Kept
  <2>2. /\ d.synced = c.synced /\ d.breaker = c.breaker /\ d.invalid = c.invalid
        /\ d.sync = c.sync /\ d.answer = c.answer /\ d.stale = c.stale
    BY <1>4, <2>0 DEF Client, Kept
  <2>3. e > c.store.last
    BY <1>0, <1>4 DEF Clean
  <2>4. Clean(d) /\ Tidy(d)
    BY <1>0, <2>1, <2>2, <2>3 DEF Clean, Tidy
  <2>5. s => Fit(d, n, l)
    BY <2>1, <2>2 DEF Faithful, Fit, Base
  <2> QED BY <2>1, <2>4, <2>5 DEF Faithful
<1> QED BY <1>1, <1>2, <1>3, <1>4

LEMMA EnqueuedFaithful ==
  ASSUME NEW c \in Client, c.breaker <=> c.poisons = MaxPoison, NEW e \in Event,
         c.sync = "no", ~c.breaker, ~c.invalid, e = c.latest + 1,
         NEW s \in BOOLEAN, NEW n \in Int, NEW l \in Int, n <= l, Faithful(c, s, n, l),
         c.store.last > c.committed => c.store.last < e, s => e <= n,
         NEW d, d = Enqueued(c, e)
  PROVE  Faithful(d, s, n, l)
<1> DEFINE p == Append(c.pending, e)
           q == [c EXCEPT !.pending = p, !.frame = TRUE, !.latest = e, !.buffered = c.buffered]
<1>0. /\ c.latest \in Nat /\ c.committed \in Nat /\ c.store.last \in Nat /\ e \in Nat
      /\ c.pending \in Seq(Event) /\ Len(c.pending) \in Nat /\ c.buffered \in SUBSET Event
      /\ Clean(c) /\ Tidy(c) /\ e \in 0 .. MaxEvents /\ \A b \in c.buffered : b \in Nat
  BY ClientTypes, RouterAssumption DEF Faithful, Event
<1>1. /\ p \in Seq(Event) /\ Len(p) = Len(c.pending) + 1 /\ p[Len(c.pending) + 1] = e
      /\ \A i \in 1 .. Len(c.pending) : p[i] = c.pending[i]
  BY <1>0
<1>2. ~c.shared /\ Len(c.pending) = c.latest - c.committed
  BY <1>0 DEF Clean
<1>3. c.store.last = c.committed
  <2>1. CASE c.pending = <<>>
    <3>1. Len(c.pending) = 0
      BY <2>1
    <3> QED BY <1>0, <1>2, <3>1 DEF Clean
  <2>2. CASE c.pending # <<>>
    BY <1>0, <2>2 DEF Clean
  <2> QED BY <2>1, <2>2
<1>4. d = IF Len(q.pending) >= MaxPending THEN Flushed(q) ELSE q
  BY <1>2 DEF Enqueued
<1> HIDE DEF p
<1>5. q \in Client
  BY <1>0, <1>1 DEF Client
<1>6. /\ q.latest = e /\ q.committed = c.committed /\ q.pending = p
      /\ q.buffered = c.buffered /\ q.shared = c.shared /\ q.store = c.store
  BY DEF Client
<1>7. /\ q.synced = c.synced /\ q.breaker = c.breaker /\ q.invalid = c.invalid
      /\ q.sync = c.sync /\ q.answer = c.answer /\ q.stale = c.stale /\ q.poisons = c.poisons
  BY DEF Client
<1> HIDE DEF q
<1>8. Clean(q) /\ Tidy(q)
  <2>1. \A i \in 1 .. Len(p) : p[i] = c.committed + i
    <3>1. ASSUME NEW i \in 1 .. Len(p) PROVE p[i] = c.committed + i
      <4>1. CASE i \in 1 .. Len(c.pending)
        BY <1>0, <1>1, <4>1 DEF Clean
      <4>2. CASE i = Len(c.pending) + 1
        BY <1>0, <1>1, <1>2, <4>2
      <4> QED BY <1>0, <1>1, <4>1, <4>2
    <3> QED BY <3>1
  <2>2. Len(q.pending) = q.latest - q.committed /\ q.committed <= q.latest
    BY <1>0, <1>1, <1>2, <1>6
  <2>3. \A b \in q.buffered : b > q.store.last \/ b <= q.latest
    BY <1>0, <1>6 DEF Clean
  <2>4. Clean(q)
    BY <1>0, <1>2, <1>3, <1>6, <2>1, <2>2, <2>3 DEF Clean
  <2> QED BY <1>7, <2>4 DEF Tidy
<1>9. s => Fit(q, n, l)
  <2>1. ASSUME s PROVE Base(q, n, l)
    <3>1. Base(c, n, l) /\ e <= n /\ e <= l
      BY <1>0, <2>1 DEF Faithful, Fit
    <3> QED BY <1>3, <1>6, <1>7, <3>1 DEF Base
  <2> QED BY <1>7, <2>1 DEF Fit
<1>10. CASE Len(q.pending) >= MaxPending
  <2>1. d = Flushed(q)
    BY <1>4, <1>10
  <2>2. Clean(d) /\ d.pending = <<>> /\ (s => Fit(d, n, l))
    BY <1>5, <1>7, <1>8, <1>9, <2>1, FlushedFaithful
  <2> QED BY <2>2 DEF Faithful, Tidy
<1>11. CASE ~(Len(q.pending) >= MaxPending)
  BY <1>4, <1>8, <1>9, <1>11 DEF Faithful
<1> QED BY <1>10, <1>11

LEMMA ReceivedFaithful ==
  ASSUME NEW c \in Client, NEW e \in Event, Healthy(c, FALSE, 0),
         NEW s \in BOOLEAN, NEW n \in Int, NEW l \in Int, n <= l, Faithful(c, s, n, l),
         c.store.last > c.committed => c.store.last < e, s => e <= n,
         NEW d, d = Received(c, e)
  PROVE  Faithful(d, s, n, l)
<1> DEFINE f == Flushed(c)
           b == Buffered(f, e)
           x == [b EXCEPT !.timer = FALSE]
<1>0. /\ c.latest \in Nat /\ e \in Nat /\ c.committed \in Nat /\ c.store.last \in Nat
      /\ Typed(c) /\ (c.breaker <=> c.poisons = MaxPoison)
      /\ Clean(c) /\ Tidy(c) /\ (s => Fit(c, n, l))
  BY ClientTypes, RouterAssumption DEF Faithful, Event, Healthy, Typed
<1>1. CASE c.breaker \/ e <= c.latest
  BY <1>0, <1>1 DEF Received
<1>f. /\ f \in Client /\ f.sync = c.sync /\ Clean(f) /\ f.pending = <<>> /\ (s => Fit(f, n, l))
      /\ c.breaker \/ c.pending = <<>> => Quiet(c, f)
      /\ ~(c.breaker \/ c.pending = <<>>) => Applied(c, f) \/ Spoiled(c, f)
      /\ Healthy(f, FALSE, 0)
  <2>1. Clean(f) /\ f.pending = <<>> /\ (s => Fit(f, n, l))
    <3>1. c.sync # "no" \/ c.breaker => c.pending = <<>>
      BY <1>0 DEF Tidy
    <3> HIDE DEF f
    <3>2. f = Flushed(c)
      BY DEF f
    <3> QED BY <1>0, <3>1, <3>2, FlushedFaithful
  <2>2. /\ f \in Client /\ f.sync = c.sync
        /\ c.breaker \/ c.pending = <<>> => Quiet(c, f)
        /\ ~(c.breaker \/ c.pending = <<>>) => Applied(c, f) \/ Spoiled(c, f)
    BY <1>0, FlushedIs
  <2>3. Healthy(f, FALSE, 0)
    BY FlushedHolds
  <2> QED BY <2>1, <2>2, <2>3
<1>g. Faithful(f, s, n, l)
  BY <1>f DEF Faithful, Tidy
<1>h. CASE ~c.breaker /\ e > c.latest
  <2>1. f.store.last > f.committed => f.store.last < e
    <3> DEFINE r == ReducedBatch(c.store, c.pending)
    <3>1. CASE c.pending = <<>>
      BY <1>0, <1>f, <3>1 DEF Quiet
    <3>2. CASE c.pending # <<>>
      <4>1. /\ c.store.last = c.committed /\ c.committed < c.latest /\ r.last = c.latest
            /\ Max({c.committed, Last(c.pending)}) = c.latest
        BY <1>0, <3>2, BatchIs
      <4>2. CASE Applied(c, f)
        BY <1>0, <1>h, <4>1, <4>2 DEF Applied
      <4>3. CASE Spoiled(c, f)
        BY <1>0, <1>h, <4>1, <4>3 DEF Spoiled
      <4> QED BY <1>h, <1>f, <3>2, <4>2, <4>3
    <3> QED BY <3>1, <3>2
  <2>f. f = Flushed(c)
    OBVIOUS
  <2> HIDE DEF f
  <2>b. b = Buffered(f, e)
    OBVIOUS
  <2> HIDE DEF b
  <2>2. Faithful(b, s, n, l) /\ b.pending = <<>>
    BY <1>f, <1>g, <2>1, <2>b, BufferedFaithful
  <2>3. Typed(b)
    BY <1>f, <2>b, BufferedHealthy
  <2>4. CASE c.sync # "no" \/ c.invalid
    <3>1. d = b
      <4>1. ~(c.breaker \/ e <= c.latest)
        BY <1>0, <1>h
      <4> QED BY <1>h, <2>4, <4>1, <2>f, <2>b DEF Received
    <3> QED BY <2>2, <3>1
  <2>5. CASE c.sync = "no" /\ ~c.invalid /\ e > c.latest + 1
    <3>1. d = Synchronizing(x)
      <4>1. ~(c.breaker \/ e <= c.latest) /\ ~(c.sync # "no" \/ c.invalid)
        BY <1>0, <1>h, <2>5
      <4> QED BY <1>h, <2>5, <4>1, <2>f, <2>b DEF Received
    <3>2. b \in Client
      BY <2>3 DEF Typed
    <3>3. x \in Client
      BY <3>2 DEF Client
    <3>4. /\ x.pending = b.pending /\ x.buffered = b.buffered /\ x.shared = b.shared
          /\ x.breaker = b.breaker /\ x.poisons = b.poisons /\ x.sync = b.sync
          /\ x.stale = b.stale
      BY <3>2 DEF Client
    <3>5. /\ x.synced = b.synced /\ x.latest = b.latest /\ x.answer = b.answer
          /\ x.store = b.store /\ x.committed = b.committed
      BY <3>2 DEF Client
    <3> HIDE DEF x
    <3>6. Typed(x)
      BY <2>3, <3>3, <3>4 DEF Typed
    <3>7. Clean(x)
      BY <2>2, <3>4, <3>5 DEF Faithful, Clean
    <3>8. s => Fit(x, n, l)
      BY <2>2, <3>4, <3>5 DEF Faithful, Fit, Base
    <3> QED BY <2>2, <3>1, <3>4, <3>6, <3>7, <3>8, SynchronizingFaithful
  <2>6. CASE c.sync = "no" /\ ~c.invalid /\ e = c.latest + 1
    <3>1. d = Enqueued(c, e)
      <4>1. ~(c.breaker \/ e <= c.latest) /\ ~(c.sync # "no" \/ c.invalid) /\ ~(e > c.latest + 1)
        BY <1>0, <1>h, <2>6
      <4> QED BY <4>1 DEF Received
    <3> QED BY <1>0, <1>h, <2>6, <3>1, EnqueuedFaithful
  <2> QED BY <1>0, <1>h, <2>4, <2>5, <2>6
<1> QED BY <1>0, <1>1, <1>h

\* The welcome of the server the client knows, or of its first one.
LEMMA GreetedFaithful ==
  ASSUME NEW c, Typed(c), NEW s \in BOOLEAN, NEW n \in Int, NEW l \in Int, Faithful(c, s, n, l),
         knows \in {0, server},
         NEW d, d = Greeted(c)
  PROVE  Faithful(d, s, n, l)
<1> DEFINE i == Invalidated(c)
           u == [i EXCEPT !.synced = FALSE]
<1>0. c \in Client
  BY DEF Typed
<1>1. Typed(i) /\ i \in Client
  BY InvalidatedTyped DEF Typed
<1>2. /\ i.latest = c.latest /\ i.committed = c.committed /\ i.pending = c.pending
      /\ i.buffered = c.buffered /\ i.shared = c.shared /\ i.store = c.store
      /\ i.sync = c.sync /\ i.answer = c.answer /\ i.breaker = c.breaker /\ i.stale
  BY <1>0, InvalidatedIs
<1>4. d = Synchronizing(u)
  BY DEF Greeted, i
<1> HIDE DEF i
<1>5. u \in Client
  BY <1>1 DEF Client
<1>6. /\ u.latest = i.latest /\ u.committed = i.committed /\ u.pending = i.pending
      /\ u.buffered = i.buffered /\ u.shared = i.shared /\ u.store = i.store
  BY <1>1 DEF Client
<1>7. /\ u.sync = i.sync /\ u.answer = i.answer /\ u.breaker = i.breaker /\ u.stale = i.stale
      /\ u.poisons = i.poisons /\ ~u.synced
  BY <1>1 DEF Client
<1> HIDE DEF u
<1>8. Typed(u)
  BY <1>1, <1>5, <1>6, <1>7 DEF Typed
<1>9. Clean(u) /\ (u.sync # "no" \/ u.breaker => u.pending = <<>>)
  BY <1>2, <1>6, <1>7 DEF Faithful, Clean, Tidy
<1>10. s => Fit(u, n, l)
  BY <1>2, <1>6, <1>7 DEF Faithful, Fit, Base
<1> QED BY <1>4, <1>8, <1>9, <1>10, SynchronizingFaithful

LEMMA ClosedFaithful ==
  ASSUME NEW c, Typed(c), NEW s \in BOOLEAN, NEW n \in Int, NEW l \in Int, Faithful(c, s, n, l),
         NEW d, d = Closed(c)
  PROVE  Faithful(d, s, n, l)
<1> DEFINE w == [c EXCEPT !.up = FALSE, !.synced = FALSE]
<1>0. c \in Client
  BY DEF Typed
<1>1. d = IF c.sync # "sent" THEN w ELSE IF c.breaker THEN SyncEnded(w) ELSE SyncFailed(w)
  BY DEF Closed
<1>2. w \in Client
  BY <1>0 DEF Client
<1>3. /\ w.pending = c.pending /\ w.buffered = c.buffered /\ w.shared = c.shared
      /\ w.breaker = c.breaker /\ w.poisons = c.poisons /\ w.stale = c.stale /\ w.invalid = c.invalid
  BY <1>0 DEF Client
<1>4. /\ w.latest = c.latest /\ w.committed = c.committed /\ w.store = c.store
      /\ w.sync = c.sync /\ w.answer = c.answer /\ ~w.synced
  BY <1>0 DEF Client
<1> HIDE DEF w
<1>5. Typed(w)
  BY <1>2, <1>3 DEF Typed
<1>6. Clean(w) /\ Tidy(w)
  BY <1>3, <1>4 DEF Faithful, Clean, Tidy
<1>7. s => Fit(w, n, l)
  BY <1>3, <1>4 DEF Faithful, Fit, Base
<1>8. (s => Base(w, n, l)) /\ (w.invalid \/ w.breaker => w.pending = <<>>)
  BY <1>6, <1>7 DEF Fit, Tidy
<1>9. CASE c.sync # "sent"
  BY <1>1, <1>6, <1>7, <1>9 DEF Faithful
<1>10. CASE c.sync = "sent" /\ c.breaker
  <2>1. d = SyncEnded(w)
    BY <1>1, <1>10
  <2> QED BY <1>5, <1>6, <1>8, <2>1, SyncEndedFaithful
<1>11. CASE c.sync = "sent" /\ ~c.breaker
  <2>1. d = SyncFailed(w)
    BY <1>1, <1>11
  <2> QED BY <1>5, <1>6, <1>8, <2>1, SyncFailedFaithful
<1> QED BY <1>9, <1>10, <1>11

\* Every reachable state has the types the code gives its variables: the list of pending
\* events stays below a batch, the buffer within its limit, the breaker is open exactly when
\* the failures allow it, and no recovery is left over at the end of a callback.
THEOREM TypeCorrect == Spec => []TypeOK
<1>1. IInv => TypeOK
  <2> SUFFICES ASSUME IInv PROVE TypeOK
    OBVIOUS
  <2>1. Typed(client) /\ ~client.recovery
    BY AliveIs
  <2> QED BY <2>1 DEF TypeOK, IInv, World, Typed
<1> QED BY <1>1, Inductive, PTL

\* eventRouter.ts: a client that is not synchronized has a snapshot under way, a retry or an
\* open breaker; no callback leaves it waiting for nothing, however the calls interleave.
THEOREM NeverStrandedHolds == Spec => []NeverStranded
<1>1. IInv => NeverStranded
  <2> SUFFICES ASSUME IInv, HasGreeted, ~client.synced
               PROVE  client.sync # "no" \/ client.timer \/ client.breaker
    BY DEF NeverStranded
  <2>1. Awake(client) /\ ~client.recovery
    BY AliveIs
  <2> QED BY <2>1 DEF Awake
<1> QED BY <1>1, Inductive, PTL

\* receive and flushSnapshotSync: every event that the cursor of a synchronized client has not
\* passed is still on its socket, whatever overtook the snapshot.
THEOREM NothingMissedHolds == Spec => []NothingMissed
<1>1. IInv => NothingMissed
  <2> SUFFICES ASSUME IInv, client.synced, HasGreeted, NEW e \in client.latest + 1 .. log
               PROVE  e \in ToSet(wire)
    BY DEF NothingMissed, Settled
  <2>1. /\ Level = Seen /\ Seen \in Nat /\ Len(wire) \in Nat /\ log \in Nat
        /\ \A k \in DOMAIN wire : wire[k] = Seen + k
    BY LevelIs DEF IInv
  <2>2. client.latest >= Seen /\ client.latest \in Nat
    BY <2>1, AliveIs, RouterAssumption DEF Caught, Client
  <2>3. e - Seen \in 1 .. Len(wire) /\ e \in Int
    BY <2>1, <2>2 DEF Seen
  <2>4. e - Seen \in DOMAIN wire
    BY <2>3 DEF IInv, World
  <2>5. wire[e - Seen] = e
    BY <2>1, <2>3, <2>4
  <2> QED BY <2>4, <2>5 DEF ToSet
<1> QED BY <1>1, Inductive, PTL
-----------------------------------------------------------------------------
(* The second invariant: what the client shows.                               *)

\* The server's events up to here have been delivered on this connection or came before it.
Joined == IF wire # <<>> /\ wire[1] = Welcome THEN Seen + 1 ELSE Seen

\* Before its first welcome the client has nothing.
Blank ==
  knows = 0 =>
    /\ client.store = Empty /\ client.latest = 0 /\ client.committed = 0
    /\ client.pending = <<>> /\ client.buffered = {} /\ client.sync = "no"
    /\ ~client.synced /\ ~client.timer /\ ~client.breaker

Shows == ~wasReset => Faithful(client, knows = server, Joined, log)

JInv == IInv /\ Blank /\ Shows

LEMMA JoinedIs ==
  ASSUME World
  PROVE  Joined \in Int /\ log \in Int /\ Joined <= log /\ Seen \in Int /\ log >= 0
         /\ server \in Nat /\ server # 0
<1>1. wire \in Seq(0 .. MaxEvents) /\ Len(wire) \in Nat /\ log \in Nat /\ server \in Nat /\ server # 0
  BY RouterAssumption DEF World
<1>2. wire # <<>> => Len(wire) >= 1
  BY <1>1
<1> QED BY <1>1, <1>2 DEF Joined, Seen

LEMMA BlankFits ==
  ASSUME NEW n \in Int, NEW l \in Int, 0 <= l, Blank, knows = 0
  PROVE  Fit(client, n, l)
BY DEF Blank, Empty, Fit, Base

\* A step of the client alone.
LEMMA ClientShows ==
  ASSUME JInv, NEW d, Typed(d), ~wasReset => Faithful(d, knows = server, Joined, log),
         client' = Recovering(d), UNCHANGED <<knows, wire, log, server, wasReset>>,
         knows # 0
  PROVE  Blank' /\ Shows'
<1>1. Joined \in Int /\ log \in Int
  BY JoinedIs DEF JInv, IInv
<1>2. ~wasReset => Faithful(client', knows = server, Joined, log)
  <2>1. (knows = server) \in BOOLEAN
    OBVIOUS
  <2> QED BY <1>1, <2>1, RecoveringFaithful
<1>3. Joined' = Joined
  BY DEF Joined, Seen
<1> QED BY <1>2, <1>3 DEF Blank, Shows

LEMMA FlushPendingShows ==
  ASSUME JInv, FlushPending
  PROVE  Blank' /\ Shows'
<1> DEFINE d == Flushed(client)
<1>1. Typed(d)
  BY AliveIs, FlushedHolds DEF Healthy, JInv
<1>2. ~wasReset => Faithful(d, knows = server, Joined, log)
  <2>1. ASSUME ~wasReset PROVE Clean(d) /\ d.pending = <<>> /\ (knows = server => Fit(d, Joined, log))
    <3>1. Clean(client) /\ Tidy(client) /\ (knows = server => Fit(client, Joined, log))
      BY <2>1 DEF JInv, Shows, Faithful
    <3>2. client \in Client /\ (client.breaker <=> client.poisons = MaxPoison)
      BY AliveIs DEF JInv, Typed
    <3>3. Joined \in Int /\ log \in Int /\ (knows = server) \in BOOLEAN
      BY JoinedIs DEF JInv, IInv
    <3>4. client.sync # "no" \/ client.breaker => client.pending = <<>>
      BY <3>1 DEF Tidy
    <3> QED BY <3>1, <3>2, <3>3, <3>4, FlushedFaithful
  <2> QED BY <2>1 DEF Faithful, Tidy
<1>3. client' = Recovering(d) /\ UNCHANGED <<knows, wire, log, server, wasReset>>
  BY DEF FlushPending
<1>4. knows # 0
  BY DEF JInv, Blank, FlushPending
<1> HIDE DEF d
<1> QED BY <1>1, <1>2, <1>3, <1>4, ClientShows

LEMMA MergeSnapshotShows ==
  ASSUME JInv, MergeSnapshot
  PROVE  Blank' /\ Shows'
<1> DEFINE d == MergeEnd(client)
<1>0. client.sync = "sent" /\ client.answer # NoAnswer
  BY DEF MergeSnapshot
<1>1. Typed(d)
  BY <1>0, AliveIs, MergeHealthy DEF Healthy, JInv
<1>2. ~wasReset => Faithful(d, knows = server, Joined, log)
  <2>1. Joined \in Int /\ log \in Int /\ Joined <= log /\ (knows = server) \in BOOLEAN
    BY JoinedIs DEF JInv, IInv
  <2>2. Typed(client) /\ Calm(client)
    BY AliveIs DEF JInv
  <2> QED BY <1>0, <2>1, <2>2, MergeFaithful DEF JInv, Shows
<1>3. client' = Recovering(d) /\ UNCHANGED <<knows, wire, log, server, wasReset>>
  BY DEF MergeSnapshot, MergeEnd, Merged
<1>4. knows # 0
  BY <1>0 DEF JInv, Blank
<1> HIDE DEF d
<1> QED BY <1>1, <1>2, <1>3, <1>4, ClientShows

LEMMA FinishSyncShows ==
  ASSUME JInv, FinishSync
  PROVE  Blank' /\ Shows'
<1> DEFINE d == FinishEnd(client)
<1>0. client.sync = "finishing"
  BY DEF FinishSync
<1>1. Typed(d)
  BY <1>0, AliveIs, FinishHealthy DEF Healthy, JInv
<1>2. ~wasReset => Faithful(d, knows = server, Joined, log)
  <2>1. Joined \in Int /\ log \in Int /\ Joined <= log /\ (knows = server) \in BOOLEAN
    BY JoinedIs DEF JInv, IInv
  <2>2. Typed(client) /\ Calm(client)
    BY AliveIs DEF JInv
  <2> QED BY <1>0, <2>1, <2>2, FinishFaithful DEF JInv, Shows
<1>3. client' = Recovering(d) /\ UNCHANGED <<knows, wire, log, server, wasReset>>
  BY DEF FinishSync, FinishEnd
<1>4. knows # 0
  BY <1>0 DEF JInv, Blank
<1> HIDE DEF d
<1> QED BY <1>1, <1>2, <1>3, <1>4, ClientShows

LEMMA SyncFailsShows ==
  ASSUME JInv, SyncFails
  PROVE  Blank' /\ Shows'
<1> DEFINE d == IF client.breaker THEN SyncEnded(client) ELSE SyncFailed(client)
<1>0. client.sync # "no" /\ ~client.synced /\ Typed(client) /\ Asks(client)
  BY AliveIs DEF SyncFails, Calm, JInv
<1>1. Typed(d)
  <2>1. CASE client.breaker
    BY <1>0, <2>1, AliveIs, SyncEndedHealthy DEF Healthy, JInv
  <2>2. CASE ~client.breaker
    BY <1>0, <2>2, AliveIs, SyncFailedHealthy DEF Healthy, JInv
  <2> QED BY <2>1, <2>2
<1>2. ASSUME ~wasReset PROVE Faithful(d, knows = server, Joined, log)
  <2>1. Joined \in Int /\ log \in Int /\ (knows = server) \in BOOLEAN
    BY JoinedIs DEF JInv, IInv
  <2>2. /\ Clean(client) /\ (client.invalid \/ client.breaker => client.pending = <<>>)
        /\ (knows = server => Base(client, Joined, log))
    BY <1>2 DEF JInv, Shows, Faithful, Tidy, Fit
  <2>3. CASE client.breaker
    BY <1>0, <2>1, <2>2, <2>3, SyncEndedFaithful
  <2>4. CASE ~client.breaker
    BY <1>0, <2>1, <2>2, <2>4, SyncFailedFaithful
  <2> QED BY <2>3, <2>4
<1>3. client' = Recovering(d) /\ UNCHANGED <<knows, wire, log, server, wasReset>>
  BY DEF SyncFails
<1>4. knows # 0
  BY <1>0 DEF JInv, Blank
<1> HIDE DEF d
<1> QED BY <1>1, <1>2, <1>3, <1>4, ClientShows

LEMMA RetryTimerShows ==
  ASSUME JInv, RetryTimer
  PROVE  Blank' /\ Shows'
<1> DEFINE c == client
           t == [c EXCEPT !.timer = FALSE]
           d == Synchronizing(t)
<1>0. c \in Client /\ Typed(c) /\ Asks(c) /\ Calm(c)
  BY AliveIs DEF JInv
<1>1. t \in Client
  BY <1>0 DEF Client
<1>2. /\ t.pending = c.pending /\ t.buffered = c.buffered /\ t.shared = c.shared
      /\ t.breaker = c.breaker /\ t.poisons = c.poisons /\ t.immediate = c.immediate
      /\ t.stale = c.stale /\ t.invalid = c.invalid /\ t.again = c.again
  BY <1>0 DEF Client
<1>3. /\ t.synced = c.synced /\ t.latest = c.latest /\ t.answer = c.answer
      /\ t.sync = c.sync /\ t.up = c.up /\ t.store = c.store /\ t.committed = c.committed
  BY <1>0 DEF Client
<1>4. client' = Recovering(d) /\ UNCHANGED <<knows, wire, log, server, wasReset>> /\ c.timer
  BY DEF RetryTimer
<1> HIDE DEF t
<1>5. Typed(t) /\ Asks(t) /\ Calm(t)
  BY <1>0, <1>1, <1>2, <1>3 DEF Typed, Asks, Calm
<1>6. Typed(d)
  <2>1. Healthy(d, FALSE, 0)
    BY <1>5, SynchronizingHealthy
  <2> QED BY <2>1 DEF Healthy
<1>7. ASSUME ~wasReset PROVE Faithful(d, knows = server, Joined, log)
  <2>1. Joined \in Int /\ log \in Int /\ (knows = server) \in BOOLEAN
    BY JoinedIs DEF JInv, IInv
  <2>2. Clean(t) /\ (t.sync # "no" \/ t.breaker => t.pending = <<>>)
    BY <1>2, <1>3, <1>7 DEF JInv, Shows, Faithful, Clean, Tidy
  <2>3. knows = server => Fit(t, Joined, log)
    BY <1>2, <1>3, <1>7 DEF JInv, Shows, Faithful, Fit, Base
  <2> QED BY <1>5, <2>1, <2>2, <2>3, SynchronizingFaithful
<1>8. knows # 0
  BY <1>4 DEF JInv, Blank
<1> HIDE DEF d, c
<1> QED BY <1>4, <1>6, <1>7, <1>8, ClientShows

\* A step that leaves what is shown as it is.
LEMMA PlainShows ==
  ASSUME JInv, UNCHANGED <<knows, wire, log, server, wasReset>>,
         client'.store = client.store, client'.latest = client.latest,
         client'.committed = client.committed, client'.pending = client.pending,
         client'.buffered = client.buffered, client'.sync = client.sync,
         client'.synced = client.synced, client'.timer = client.timer,
         client'.breaker = client.breaker, client'.shared = client.shared,
         client'.invalid = client.invalid, client'.stale = client.stale,
         knows = server /\ ~wasReset /\ client'.answer # client.answer =>
             client.store.last <= client'.answer /\ client'.answer <= log
  PROVE  Blank' /\ Shows'
<1>1. Blank'
  BY DEF JInv, Blank
<1>2. Joined' = Joined
  BY DEF Joined, Seen
<1>3. ASSUME ~wasReset PROVE Faithful(client', knows = server, Joined, log)
  <2>1. Clean(client') /\ Tidy(client')
    BY <1>3 DEF JInv, Shows, Faithful, Clean, Tidy
  <2>2. knows = server => Fit(client', Joined, log)
    BY <1>3 DEF JInv, Shows, Faithful, Fit, Base
  <2> QED BY <2>1, <2>2 DEF Faithful
<1> QED BY <1>1, <1>2, <1>3 DEF Shows

LEMMA ServerReadsShows ==
  ASSUME JInv, ServerReads
  PROVE  Blank' /\ Shows'
<1> DEFINE c == client
           d == [c EXCEPT !.answer = log]
<1>0. /\ c \in Client /\ client' = d /\ UNCHANGED <<knows, wire, log, server, wasReset>>
  BY AliveIs DEF ServerReads, JInv
<1> HIDE DEF c
<1>2. /\ d.pending = c.pending /\ d.buffered = c.buffered /\ d.shared = c.shared
      /\ d.breaker = c.breaker /\ d.stale = c.stale /\ d.invalid = c.invalid
  BY <1>0 DEF Client
<1>3. /\ d.synced = c.synced /\ d.latest = c.latest /\ d.answer = log /\ d.timer = c.timer
      /\ d.sync = c.sync /\ d.store = c.store /\ d.committed = c.committed
  BY <1>0 DEF Client
<1> HIDE DEF d
<1>4. knows = server /\ ~wasReset => c.store.last <= log /\ log <= log
  BY JoinedIs DEF JInv, IInv, Shows, Faithful, Fit, Base, c
<1> QED BY <1>0, <1>2, <1>3, <1>4, PlainShows DEF c

LEMMA PoisonAgesShows ==
  ASSUME JInv, PoisonAges
  PROVE  Blank' /\ Shows'
<1> DEFINE c == client
           d == [c EXCEPT !.poisons = 0]
<1>0. /\ c \in Client /\ client' = d /\ UNCHANGED <<knows, wire, log, server, wasReset>>
  BY AliveIs DEF PoisonAges, JInv
<1> HIDE DEF c
<1>2. /\ d.pending = c.pending /\ d.buffered = c.buffered /\ d.shared = c.shared
      /\ d.breaker = c.breaker /\ d.stale = c.stale /\ d.invalid = c.invalid
  BY <1>0 DEF Client
<1>3. /\ d.synced = c.synced /\ d.latest = c.latest /\ d.answer = c.answer /\ d.timer = c.timer
      /\ d.sync = c.sync /\ d.store = c.store /\ d.committed = c.committed
  BY <1>0 DEF Client
<1> HIDE DEF d
<1> QED BY <1>0, <1>2, <1>3, PlainShows DEF c

LEMMA ReceiveShows ==
  ASSUME JInv, Receive
  PROVE  Blank' /\ Shows'
<1> DEFINE e == Head(wire)
           d == IF e = Welcome THEN Greeted(client) ELSE Received(client, e)
<1>0. /\ wire # <<>> /\ client.up /\ World /\ Socket /\ wire' = Tail(wire) /\ Blank /\ Shows
      /\ log' = log /\ server' = server /\ client' = Recovering(d)
  BY DEF Receive, JInv, IInv
<1>1. /\ Head(wire) = wire[1] /\ Len(wire) >= 1 /\ Tail(wire) \in Seq(0 .. MaxEvents)
      /\ Len(Tail(wire)) = Len(wire) - 1
      /\ \A k \in DOMAIN Tail(wire) : Tail(wire)[k] = Seen + 1 + k /\ Tail(wire)[k] # Welcome /\ Tail(wire)[k] \in Nat
      /\ Head(wire) # Welcome => HasGreeted /\ Head(wire) = Seen + 1 /\ Head(wire) \in Event
  BY <1>0, HeadIs
<1>2. Len(wire) \in Nat /\ log \in Int /\ Joined \in Int /\ Joined <= log /\ Seen \in Int /\ log >= 0
      /\ server \in Nat /\ server # 0
  BY <1>0, LevelIs, JoinedIs
<1>3. Joined' = Seen + 1
  <2>1. Len(wire') = Len(wire) - 1
    BY <1>0, <1>1
  <2>2. Seen' = Seen + 1
    BY <1>0, <1>2, <2>1 DEF Seen
  <2>3. wire' # <<>> => wire'[1] # Welcome
    <3>1. wire' # <<>> => 1 \in DOMAIN wire'
      BY <1>0, <1>1
    <3> QED BY <1>0, <1>1, <3>1
  <2> QED BY <2>2, <2>3 DEF Joined
<1>4. knows' = server
  <2>1. CASE e = Welcome
    BY <2>1 DEF Receive
  <2>2. CASE e # Welcome
    BY <1>0, <1>1, <2>2 DEF Receive, World
  <2> QED BY <2>1, <2>2
<1>5. Blank'
  BY <1>2, <1>4 DEF Blank
<1>6. Typed(client) /\ client \in Client /\ Healthy(client, FALSE, 0)
  BY AliveIs DEF JInv, Healthy
<1>7. ASSUME ~wasReset' PROVE Typed(d) /\ Faithful(d, TRUE, Seen + 1, log)
  <2>1. CASE e = Welcome
    <3>1. knows \in {0, server} /\ ~wasReset
      BY <1>0, <1>7, <2>1 DEF Receive, World
    <3>2. Joined = Seen + 1
      BY <1>0, <1>1, <2>1 DEF Joined
    <3>3. Faithful(client, TRUE, Seen + 1, log)
      <4>1. knows = 0 => Fit(client, Seen + 1, log)
        BY <1>0, <1>2, BlankFits
      <4> QED BY <1>0, <3>1, <3>2, <4>1 DEF Shows, Faithful
    <3>4. d = Greeted(client) /\ Seen + 1 \in Int
      BY <1>2, <2>1
    <3> HIDE DEF d, e
    <3>5. Typed(d)
      BY <1>6, <3>4, GreetedHealthy DEF Healthy
    <3> QED BY <1>2, <1>6, <3>1, <3>3, <3>4, <3>5, GreetedFaithful
  <2>2. CASE e # Welcome
    <3>1. knows = server /\ ~wasReset /\ e = Seen + 1 /\ e \in Event
      BY <1>0, <1>1, <1>7, <2>2 DEF Receive, World
    <3>2. Joined = Seen
      BY <1>1, <2>2 DEF Joined
    <3>3. Faithful(client, TRUE, Seen, log)
      BY <1>0, <3>1, <3>2 DEF Shows
    <3>4. Fit(client, Seen, log)
      BY <3>3 DEF Faithful
    <3>5. Seen + 1 \in Int /\ Seen <= Seen + 1 /\ Seen + 1 <= log /\ log <= log
      BY <1>1, <1>2 DEF Seen
    <3>6. Faithful(client, TRUE, Seen + 1, log)
      BY <1>2, <1>6, <3>3, <3>4, <3>5, FitGrows DEF Faithful
    <3>7. client.store.last > client.committed => client.store.last < e
      BY <1>2, <1>6, <3>1, <3>4, ClientTypes DEF Fit, Base
    <3>8. d = Received(client, e)
      BY <2>2
    <3> HIDE DEF d, e
    <3>9. Typed(d)
      <4>1. Healthy(d, FALSE, 0 + 1)
        BY <1>6, <3>1, <3>8, ReceivedHealthy
      <4> QED BY <4>1 DEF Healthy
    <3>10. e <= Seen + 1
      BY <3>1, <3>5
    <3> QED BY <1>2, <1>6, <3>1, <3>5, <3>6, <3>7, <3>8, <3>9, <3>10, ReceivedFaithful
  <2> QED BY <2>1, <2>2
<1>8. ~wasReset' => Faithful(client', TRUE, Seen + 1, log)
  <2> SUFFICES ASSUME ~wasReset' PROVE Faithful(client', TRUE, Seen + 1, log)
    OBVIOUS
  <2>1. Typed(d) /\ Faithful(d, TRUE, Seen + 1, log)
    BY <1>7
  <2>2. client' = Recovering(d) /\ log \in Int /\ Seen + 1 \in Int
    BY <1>0, <1>2
  <2> HIDE DEF d
  <2> QED BY <2>1, <2>2, RecoveringFaithful
<1>9. Shows'
  BY <1>0, <1>3, <1>4, <1>8 DEF Shows, Faithful
<1> QED BY <1>5, <1>9

LEMMA ReconcileShows ==
  ASSUME JInv, Reconcile
  PROVE  Blank' /\ Shows'
<1>0. server \in Nat /\ server # 0 /\ server' = server /\ Joined \in Int /\ log \in Int
      /\ UNCHANGED <<wire, log>>
  BY JoinedIs DEF JInv, IInv, Reconcile
<1>1. CASE server # knows
  <2>1. knows' = server /\ wasReset'
    BY <1>1 DEF Reconcile
  <2> QED BY <1>0, <2>1 DEF Blank, Shows
<1>2. CASE server = knows
  <2> DEFINE f == Flushed(client)
             s == Synchronizing(f)
             d == IF f.sync = "no" /\ ~f.timer THEN s ELSE f
  <2>1. /\ client' = Recovering(d) /\ UNCHANGED <<knows, wasReset>>
    BY <1>2 DEF Reconcile
  <2>2. Healthy(f, FALSE, 0)
    <3>1. Healthy(client, FALSE, 0)
      BY AliveIs DEF JInv, Healthy
    <3> QED BY <3>1, FlushedHolds
  <2>3. ASSUME ~wasReset PROVE Faithful(f, knows = server, Joined, log)
    <3>1. Clean(client) /\ Tidy(client) /\ (knows = server => Fit(client, Joined, log))
      BY <2>3 DEF JInv, Shows, Faithful
    <3>2. client \in Client /\ (client.breaker <=> client.poisons = MaxPoison)
      BY AliveIs DEF JInv, Typed
    <3>4. (client.sync # "no" \/ client.breaker => client.pending = <<>>) /\ (knows = server) \in BOOLEAN
      BY <3>1 DEF Tidy
    <3>5. Clean(f) /\ f.pending = <<>> /\ (knows = server => Fit(f, Joined, log))
      BY <1>0, <3>1, <3>2, <3>4, FlushedFaithful
    <3> QED BY <3>5 DEF Faithful, Tidy
  <2> HIDE DEF f
  <2>4. Typed(f) /\ Typed(s)
    <3>1. Typed(f) /\ Asks(f) /\ Calm(f)
      BY <2>2 DEF Healthy
    <3>2. Healthy(s, FALSE, 0)
      BY <3>1, SynchronizingHealthy
    <3> QED BY <3>1, <3>2 DEF Healthy
  <2>5. ASSUME ~wasReset PROVE Faithful(s, knows = server, Joined, log)
    <3>1. Clean(f) /\ (f.sync # "no" \/ f.breaker => f.pending = <<>>)
          /\ (knows = server => Fit(f, Joined, log)) /\ (knows = server) \in BOOLEAN
      BY <2>3, <2>5 DEF Faithful, Tidy
    <3> QED BY <1>0, <2>4, <3>1, SynchronizingFaithful
  <2> HIDE DEF s
  <2>6. Typed(d) /\ (~wasReset => Faithful(d, knows = server, Joined, log))
    BY <2>3, <2>4, <2>5
  <2> HIDE DEF d
  <2> QED BY <1>0, <1>2, <2>1, <2>6, ClientShows
<1> QED BY <1>1, <1>2

LEMMA ConnectShows ==
  ASSUME JInv, Connect
  PROVE  Blank' /\ Shows'
<1> DEFINE c == client
           q == IF c.sync = "queued" THEN "sent" ELSE c.sync
           d == [c EXCEPT !.up = TRUE, !.synced = FALSE, !.sync = q]
<1>0. /\ c \in Client /\ client' = d /\ wire' = <<Welcome>> /\ wire = <<>>
      /\ UNCHANGED <<knows, log, server, wasReset>>
  BY AliveIs DEF Connect, JInv, IInv, Socket
<1> HIDE DEF c
<1>3. /\ d.pending = c.pending /\ d.buffered = c.buffered /\ d.shared = c.shared
      /\ d.breaker = c.breaker /\ d.stale = c.stale /\ d.invalid = c.invalid /\ d.timer = c.timer
  BY <1>0 DEF Client
<1>4. /\ d.latest = c.latest /\ d.committed = c.committed /\ d.store = c.store
      /\ d.answer = c.answer /\ ~d.synced /\ d.sync = q
  BY <1>0 DEF Client
<1>5. /\ q = "no" <=> c.sync = "no"
      /\ q = "finishing" <=> c.sync = "finishing"
      /\ q \in {"sent", "queued"} => c.sync \in {"sent", "queued"}
  OBVIOUS
<1> HIDE DEF d, q
<1>6. Blank'
  BY <1>0, <1>3, <1>4, <1>5 DEF JInv, Blank, c
<1>7. Joined' = Joined
  <2>1. Len(wire) = 0 /\ Len(wire') = 1 /\ wire' # <<>> /\ wire'[1] = Welcome /\ log \in Int
    BY <1>0, JoinedIs DEF JInv, IInv
  <2>2. Seen' = Seen - 1 /\ Seen \in Int
    BY <1>0, <2>1 DEF Seen
  <2> QED BY <1>0, <2>1, <2>2 DEF Joined
<1>8. ASSUME ~wasReset PROVE Faithful(d, knows = server, Joined, log)
  <2>0. Faithful(c, knows = server, Joined, log)
    BY <1>8 DEF JInv, Shows, c
  <2>1. Clean(d) /\ Tidy(d)
    BY <1>3, <1>4, <1>5, <2>0 DEF Faithful, Clean, Tidy
  <2>2. knows = server => Fit(d, Joined, log)
    BY <1>3, <1>4, <1>5, <2>0 DEF Faithful, Fit, Base
  <2> QED BY <2>1, <2>2 DEF Faithful
<1>9. Shows'
  BY <1>0, <1>7, <1>8 DEF Shows
<1> QED BY <1>6, <1>9

LEMMA ClosedShows ==
  ASSUME JInv, client' = Recovering(Closed(client)), wire' = <<>>,
         knows' = knows, wasReset' = wasReset,
         \/ server' = server /\ log' = log
         \/ server' # knows
  PROVE  Blank' /\ Shows'
<1> DEFINE d == Closed(client)
<1>0. /\ client \in Client /\ Typed(client) /\ ~client.recovery
      /\ Joined \in Int /\ log \in Int /\ Joined <= log /\ server \in Nat /\ server # 0
      /\ Asks(client) /\ Calm(client)
  BY AliveIs, JoinedIs DEF JInv, IInv
<1>1. Blank'
  <2>1. ASSUME knows = 0 PROVE Blank'
    <3> DEFINE w == [client EXCEPT !.up = FALSE, !.synced = FALSE]
    <3>1. d = w
      BY <2>1 DEF Closed, JInv, Blank
    <3>2. /\ w.store = client.store /\ w.latest = client.latest /\ w.committed = client.committed
          /\ w.pending = client.pending /\ w.buffered = client.buffered /\ w.sync = client.sync
          /\ ~w.synced /\ w.timer = client.timer /\ w.breaker = client.breaker
          /\ w.recovery = client.recovery
      BY <1>0 DEF Client
    <3> HIDE DEF w, d
    <3>3. client' = w
      <4>1. client' = Recovering(w)
        BY <3>1 DEF d
      <4> QED BY <1>0, <3>2, <4>1 DEF Recovering
    <3> QED BY <2>1, <3>2, <3>3 DEF JInv, Blank
  <2> QED BY <2>1 DEF Blank
<1>2. Typed(d)
  BY <1>0, ClosedHealthy DEF Healthy
<1>3. ASSUME ~wasReset PROVE Faithful(client', knows = server, Joined, log)
  <2>1. (knows = server) \in BOOLEAN
    OBVIOUS
  <2>2. Faithful(d, knows = server, Joined, log)
    BY <1>0, <1>3, <2>1, ClosedFaithful DEF JInv, Shows
  <2> HIDE DEF d
  <2>3. client' = Recovering(d)
    BY DEF d
  <2> QED BY <1>0, <1>2, <2>1, <2>2, <2>3, RecoveringFaithful
<1>4. ASSUME ~wasReset PROVE Faithful(client', knows = server', Joined', log')
  <2>1. CASE server' # knows
    BY <1>3, <1>4, <2>1 DEF Faithful
  <2>2. CASE server' = server /\ log' = log
    <3>1. Joined' = log
      <4>1. Len(wire') = 0
        OBVIOUS
      <4> QED BY <1>0, <2>2, <4>1 DEF Joined, Seen
    <3>2. client' \in Client
      <4>1. Healthy(d, FALSE, 0)
        BY <1>0, ClosedHealthy
      <4> HIDE DEF d
      <4>2. client' = Recovering(d)
        BY DEF d
      <4>3. Healthy(client', FALSE, 0)
        BY <4>1, <4>2, RecoveringHealthy
      <4> QED BY <4>3 DEF Healthy, Typed
    <3>3. knows = server => Fit(client', Joined, log)
      BY <1>3, <1>4 DEF Faithful
    <3>4. log <= log /\ Joined <= log
      BY <1>0
    <3>5. knows = server => Fit(client', log, log)
      BY <1>0, <3>2, <3>3, <3>4, FitGrows
    <3> QED BY <1>3, <1>4, <2>2, <3>1, <3>5 DEF Faithful
  <2> QED BY <2>1, <2>2
<1>5. Shows'
  BY <1>4 DEF Shows
<1> QED BY <1>1, <1>5

LEMMA ServerRestartsShows ==
  ASSUME JInv, ServerRestarts
  PROVE  Blank' /\ Shows'
<1>1. server' = server + 1 /\ knows \in 0 .. server /\ server \in Nat
  BY JoinedIs DEF ServerRestarts, JInv, IInv, World
<1>2. server' # knows
  BY <1>1
<1> QED BY <1>2, ClosedShows DEF ServerRestarts

LEMMA PublishShows ==
  ASSUME JInv, Publish
  PROVE  Blank' /\ Shows'
<1>0. /\ wire \in Seq(0 .. MaxEvents) /\ Len(wire) \in Nat /\ log \in Nat
      /\ log' = log + 1 /\ UNCHANGED <<client, knows, server, wasReset>>
      /\ Socket /\ client \in Client /\ Joined \in Int /\ Joined <= log
  BY AliveIs, JoinedIs, RouterAssumption DEF JInv, IInv, World, Publish
<1>1. Blank'
  BY <1>0 DEF JInv, Blank
<1>2. Joined' \in Int /\ Joined <= Joined'
  <2>1. CASE client.up
    <3>1. wire' = Append(wire, log + 1)
      BY <2>1 DEF Publish
    <3>2. Len(wire') = Len(wire) + 1 /\ wire' # <<>>
          /\ (wire = <<>> => wire'[1] = log + 1) /\ (wire # <<>> => wire'[1] = wire[1])
      BY <1>0, <3>1
    <3>3. Seen' = Seen /\ Seen \in Int /\ log + 1 # Welcome
      BY <1>0, <3>2 DEF Seen, Welcome
    <3> QED BY <3>2, <3>3 DEF Joined
  <2>2. CASE ~client.up
    <3>1. wire' = wire /\ wire = <<>>
      BY <1>0, <2>2 DEF Publish, Socket
    <3> QED BY <1>0, <3>1 DEF Joined, Seen
  <2> QED BY <2>1, <2>2
<1>3. ASSUME ~wasReset PROVE Faithful(client, knows = server, Joined', log + 1)
  <2>1. log \in Int /\ log + 1 \in Int /\ log <= log + 1
    BY <1>0
  <2>2. knows = server => Fit(client, Joined, log)
    BY <1>3 DEF JInv, Shows, Faithful
  <2>3. knows = server => Fit(client, Joined', log + 1)
    BY <1>0, <1>2, <2>1, <2>2, FitGrows
  <2> QED BY <1>3, <2>3 DEF JInv, Shows, Faithful
<1> QED BY <1>0, <1>1, <1>3 DEF Shows

LEMMA InitShows == Init => Blank /\ Shows
<1> SUFFICES ASSUME Init PROVE Blank /\ Shows
  OBVIOUS
<1>1. /\ client.store = Empty /\ client.latest = 0 /\ client.committed = 0
      /\ client.pending = <<>> /\ client.buffered = {} /\ client.sync = "no"
      /\ ~client.synced /\ ~client.timer /\ ~client.breaker /\ ~client.shared /\ ~client.invalid
      /\ knows = 0 /\ server = 1
  BY DEF Init
<1>2. Blank
  BY <1>1 DEF Blank
<1>3. Clean(client) /\ Tidy(client)
  <2>1. Len(client.pending) = 0 /\ 1 .. 0 = {}
    BY <1>1
  <2> QED BY <1>1, <2>1 DEF Clean, Tidy, Empty
<1> QED BY <1>1, <1>2, <1>3 DEF Shows, Faithful

\* What the client shows is as inductive as what keeps it going.
THEOREM InductiveShows == Spec => []JInv
<1>1. ASSUME JInv, [Next]_vars PROVE Blank' /\ Shows'
  <2>1. CASE Receive
    BY <1>1, <2>1, ReceiveShows
  <2>2. CASE FlushPending
    BY <1>1, <2>2, FlushPendingShows
  <2>3. CASE ServerReads
    BY <1>1, <2>3, ServerReadsShows
  <2>4. CASE MergeSnapshot
    BY <1>1, <2>4, MergeSnapshotShows
  <2>5. CASE FinishSync
    BY <1>1, <2>5, FinishSyncShows
  <2>6. CASE SyncFails
    BY <1>1, <2>6, SyncFailsShows
  <2>7. CASE RetryTimer
    BY <1>1, <2>7, RetryTimerShows
  <2>8. CASE PoisonAges
    BY <1>1, <2>8, PoisonAgesShows
  <2>9. CASE Reconcile
    BY <1>1, <2>9, ReconcileShows
  <2>10. CASE Connect
    BY <1>1, <2>10, ConnectShows
  <2>11. CASE Disconnect
    BY <1>1, <2>11, ClosedShows DEF Disconnect
  <2>12. CASE ServerRestarts
    BY <1>1, <2>12, ServerRestartsShows
  <2>13. CASE Publish
    BY <1>1, <2>13, PublishShows
  <2>14. CASE UNCHANGED vars
    BY <1>1, <2>14, PlainShows DEF vars
  <2> QED BY <1>1, <2>1, <2>2, <2>3, <2>4, <2>5, <2>6, <2>7, <2>8, <2>9, <2>10, <2>11, <2>12,
             <2>13, <2>14 DEF Next
<1>2. JInv /\ [Next]_vars /\ IInv' => JInv'
  BY <1>1 DEF JInv
<1>3. Init => Blank /\ Shows
  BY InitShows
<1>4. JInv <=> IInv /\ Blank /\ Shows
  BY DEF JInv
<1> QED BY <1>2, <1>3, <1>4, Inductive, InitHolds, PTL DEF Spec

\* syncController.ts and store.ts: through gaps, overflows, failing batches, failed reads and
\* lost connections, a synchronized client of one server shows the events up to its committed
\* cursor, each of them once.
THEOREM ShowsPrefixHolds == Spec => []ShowsPrefixOfOneServer
<1>1. JInv => ShowsPrefixOfOneServer
  <2> SUFFICES ASSUME JInv, ~wasReset, client.synced, HasGreeted
               PROVE  client.store.shown = 1 .. client.committed /\ ~client.store.twice
    BY DEF ShowsPrefixOfOneServer, ShowsPrefix, Settled
  <2>1. knows = server
    BY DEF JInv, IInv, World
  <2>2. Clean(client) /\ Fit(client, Joined, log)
    BY <2>1 DEF JInv, Shows, Faithful
  <2> QED BY <2>2 DEF Clean, Fit, Base
<1> QED BY <1>1, InductiveShows, PTL
====
