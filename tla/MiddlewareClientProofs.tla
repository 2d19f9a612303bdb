----------------------- MODULE MiddlewareClientProofs -----------------------
(***************************************************************************)
(* Proofs about MiddlewareClient, for any callers, kinds of operations,    *)
(* numbers of calls, limits and delays.                                    *)
(***************************************************************************)
EXTENDS MiddlewareClient, FiniteSetTheorems, WellFoundedInduction, TLAPS

-----------------------------------------------------------------------------
(***************************************************************************)
(* Numbers, and the constants.                                             *)
(***************************************************************************)

\* A nonempty set of naturals has a least element.
LEMMA LeastElement ==
  ASSUME NEW S \in SUBSET Nat, S # {}
  PROVE  \E n \in S : \A k \in S : n <= k
  <1>1. ASSUME NEW y \in Nat, NEW n \in Nat, y < n PROVE <<y, n>> \in OpToRel(<, Nat)
    BY <1>1 DEF OpToRel
  <1>2. PICK n \in S : \A y \in S : ~(<<y, n>> \in OpToRel(<, Nat))
    BY NatLessThanWellFounded, WFMin, Zenon
  <1>3. \A k \in S : ~(k < n)
    BY <1>1, <1>2, Zenon
  <1> QED BY <1>3

\* The minimum of a pair.
LEMMA MinOfTwo == ASSUME NEW a \in Int, NEW b \in Int PROVE Min({a, b}) = IF a <= b THEN a ELSE b
  BY DEF Min

\* The maximum of a pair.
LEMMA MaxOfTwo == ASSUME NEW a \in Int, NEW b \in Int PROVE Max({a, b}) = IF a >= b THEN a ELSE b
  BY DEF Max

\* A power of two counts subsets.
LEMMA PowerOfTwo == ASSUME NEW n \in Nat PROVE 2^n \in Nat
  <1>1. IsFiniteSet(1..n) /\ Cardinality(1..n) = n
    BY FS_Interval
  <1>2. IsFiniteSet(SUBSET (1..n)) /\ Cardinality(SUBSET (1..n)) = 2^n
    BY <1>1, FS_SUBSET
  <1> QED BY <1>2, FS_CardinalityType

\* A request is its operation and its number.
LEMMA RequestParts ==
  /\ \A r \in Requests : r[1] \in Ops /\ r[2] \in 0..CallsPerOp /\ r = <<r[1], r[2]>>
  /\ \A o \in Ops : Login(o) \in Requests /\ Login(o)[1] = o /\ Login(o)[2] = 0
  /\ \A r \in Requests : r[2] = 0 => r = Login(r[1])
  BY ClientAssumption DEF Requests, Login

\* There are finitely many of them.
LEMMA RequestsFinite ==
  /\ IsFiniteSet(Requests)
  /\ \A S \in SUBSET Requests :
        IsFiniteSet(S) /\ Cardinality(S) \in Nat /\ Cardinality(S) <= Cardinality(Requests)
  <1>1. IsFiniteSet(0..CallsPerOp)
    BY FS_Interval, ClientAssumption
  <1>2. IsFiniteSet(Requests)
    BY <1>1, FS_Product, ClientAssumption DEF Requests
  <1> QED BY <1>2, FS_Subset, FS_CardinalityType

\* The calls an operation makes are requests of its own.
LEMMA CallsOfParts ==
  ASSUME NEW o \in Ops
  PROVE  /\ CallsOf(o) \in SUBSET Requests
         /\ \A r \in Requests : r \in CallsOf(o) <=> r[1] = o /\ r[2] # 0 /\ (kind[o] = "single" => r[2] = 1)
  BY ClientAssumption DEF CallsOf, Calls, Requests

-----------------------------------------------------------------------------
(***************************************************************************)
(* The limiter, for any step that uses it.                                 *)
(***************************************************************************)

\* The waiters are queued, and each is in the queue once.
QueueOK ==
    /\ \A i \in DOMAIN waiters : st[waiters[i]] = "queued"
    /\ \A i, j \in DOMAIN waiters : waiters[i] = waiters[j] => i = j

\* Nobody is in the queue, not even cancelled, while a slot is free.
QueueMeansFull == waiters # <<>> => active >= limit

LimiterInv == QueueOK /\ QueueMeansFull /\ SlotsConserved /\ QueuedForAReason

Owners == {"granted", "sending", "waiting", "broken", "failed", "abandoned", "orphaned"}
States == InFlight \union {"new", "broken", "failed", "abandoned", "orphaned", "done"}

\* _admit pops a prefix of the queue: all of it, or up to where the slots are taken.
LEMMA PoppedPrefix ==
  ASSUME TypeOK, NEW taken \in Nat, NEW l \in Nat
  PROVE  \E k \in 0..Len(waiters) :
            /\ Popped(taken, l) = 1..k
            /\ Cardinality(Popped(taken, l)) = k
            /\ k < Len(waiters) => taken + Cardinality({j \in 1..k : Live(waiters[j])}) >= l
            /\ k > 0 => taken + Cardinality({j \in 1..(k - 1) : Live(waiters[j])}) < l
  <1> DEFINE Before(i) == {j \in 1..(i - 1) : Live(waiters[j])}
             Rest == {i \in Nat \ {0} : i \notin Popped(taken, l)}
  <1>1. \A i \in Nat : IsFiniteSet(Before(i)) /\ Cardinality(Before(i)) \in Nat
    <2> SUFFICES ASSUME NEW i \in Nat PROVE IsFiniteSet(Before(i)) /\ Cardinality(Before(i)) \in Nat
      OBVIOUS
    <2>1. IsFiniteSet(1..(i - 1))
      BY FS_Interval
    <2> QED BY <2>1, FS_Subset, FS_CardinalityType
  <1>2. \A i, k \in Nat : i <= k => Cardinality(Before(i)) <= Cardinality(Before(k))
    <2> SUFFICES ASSUME NEW i \in Nat, NEW k \in Nat, i <= k
                 PROVE  Cardinality(Before(i)) <= Cardinality(Before(k))
      OBVIOUS
    <2>1. Before(i) \in SUBSET Before(k)
      OBVIOUS
    <2> QED BY <2>1, <1>1, FS_Subset
  <1>3. Len(waiters) \in Nat /\ DOMAIN waiters = 1..Len(waiters)
    BY DEF TypeOK
  <1>4. \A i \in Nat : i \in Popped(taken, l) <=> i \in 1..Len(waiters) /\ taken + Cardinality(Before(i)) < l
    BY <1>3 DEF Popped
  <1>5. Popped(taken, l) \subseteq Nat \ {0}
    BY <1>3 DEF Popped
  <1> HIDE DEF Before
  <1>6. Rest \in SUBSET Nat /\ Len(waiters) + 1 \in Rest
    BY <1>3, <1>4
  <1>7. PICK n \in Rest : \A i \in Rest : n <= i
    <2> HIDE DEF Rest
    <2> QED BY <1>6, LeastElement
  <1>8. n \in Nat /\ n # 0 /\ n <= Len(waiters) + 1 /\ n \notin Popped(taken, l)
    BY <1>6, <1>7
  <1>9. \A i \in 1..(n - 1) : i \in Popped(taken, l)
    BY <1>7, <1>8
  <1>10. n - 1 < Len(waiters) => taken + Cardinality(Before(n)) >= l
    <2>1. Cardinality(Before(n)) \in Nat
      BY <1>1, <1>8
    <2> QED BY <1>3, <1>4, <1>8, <2>1
  <1>11. ASSUME NEW i \in Popped(taken, l) PROVE i \in 1..(n - 1)
    <2>1. i \in Nat /\ i \in 1..Len(waiters) /\ taken + Cardinality(Before(i)) < l
      BY <1>4, <1>5
    <2>2. Cardinality(Before(n)) \in Nat /\ Cardinality(Before(i)) \in Nat
      BY <1>1, <1>8, <2>1
    <2>3. n <= i => Cardinality(Before(n)) <= Cardinality(Before(i))
      BY <1>2, <1>8, <2>1
    <2> QED BY <1>3, <1>8, <1>10, <2>1, <2>2, <2>3
  <1>12. Popped(taken, l) = 1..(n - 1)
    BY <1>9, <1>11
  <1>13. Cardinality(Popped(taken, l)) = n - 1
    BY <1>8, <1>12, FS_Interval
  <1>14. n - 1 > 0 => taken + Cardinality(Before(n - 1)) < l
    BY <1>4, <1>8, <1>9
  <1>15. n - 1 \in 0..Len(waiters)
    BY <1>3, <1>8
  <1> WITNESS n - 1 \in 0..Len(waiters)
  <1> QED BY <1>10, <1>12, <1>13, <1>14 DEF Before

\* What is left of a sequence without its first k elements.
LEMMA SuffixParts ==
  ASSUME NEW S, NEW s \in Seq(S), NEW k \in 0..Len(s)
  PROVE  LET t == SubSeq(s, k + 1, Len(s))
         IN  /\ t \in Seq(S) /\ Len(t) = Len(s) - k /\ DOMAIN t = 1..(Len(s) - k)
             /\ \A i \in 1..(Len(s) - k) : t[i] = s[k + i]
  OBVIOUS

\* The popped waiters that are live get a slot each.
LEMMA GrantedCount ==
  ASSUME TypeOK, QueueOK, NEW taken \in Nat, NEW l \in Nat,
         NEW k \in 0..Len(waiters), Popped(taken, l) = 1..k
  PROVE  /\ Granted(taken, l) \in SUBSET Requests
         /\ \A r \in Requests : r \in Granted(taken, l) <=> \E j \in 1..k : Live(waiters[j]) /\ waiters[j] = r
         /\ \A r \in Granted(taken, l) : Live(r)
         /\ Cardinality(Granted(taken, l)) = Cardinality({j \in 1..k : Live(waiters[j])})
         /\ Cardinality(Granted(taken, l)) \in Nat
  <1> DEFINE S == {j \in 1..k : Live(waiters[j])}
             T == Granted(taken, l)
             f == [j \in S |-> waiters[j]]
  <1>1. \A j \in 1..k : j \in DOMAIN waiters /\ waiters[j] \in Requests
    BY DEF TypeOK
  <1>2. T = {waiters[j] : j \in S}
    BY DEF Granted
  <1>3. T \in SUBSET Requests /\ \A r \in Requests : r \in T <=> \E j \in S : waiters[j] = r
    BY <1>1, <1>2
  <1>4. f \in Bijection(S, T)
    <2>1. f \in [S -> T]
      BY <1>2
    <2>2. \A i, j \in S : f[i] = f[j] => i = j
      BY <1>1 DEF QueueOK
    <2>3. \A t \in T : \E j \in S : f[j] = t
      BY <1>2
    <2> HIDE DEF f, S, T
    <2> QED BY <2>1, <2>2, <2>3 DEF Bijection, Injection, Surjection, IsInjective
  <1>5. IsFiniteSet(S)
    <2>1. IsFiniteSet(1..k)
      BY FS_Interval
    <2> QED BY <2>1, FS_Subset
  <1>6. Cardinality(T) = Cardinality(S) /\ Cardinality(T) \in Nat
    <2> HIDE DEF f, S, T
    <2> QED BY <1>4, <1>5, FS_Bijection, FS_CardinalityType DEF ExistsBijection
  <1>7. \A r \in T : Live(r)
    BY <1>2
  <1> QED BY <1>3, <1>6, <1>7

\* _admit, from any states in which the slots that are taken are counted: the counter
\* is right again, nobody waits without a reason, and slots are given in turn.
LEMMA AdmitLimiter ==
  ASSUME TypeOK, LimiterInv,
         NEW taken \in Nat, NEW l \in Nat, NEW states \in [Requests -> States],
         Admit(taken, l, states), limit' = l,
         taken = Cardinality({r \in Requests : states[r] \in Owners}),
         \A r \in Requests : st[r] = "queued" <=> states[r] = "queued",
         \A r \in Requests : st[r] = "queued" => cancel'[r] = cancel[r]
  PROVE  /\ LimiterInv'
         /\ st' \in [Requests -> States]
         /\ waiters' \in Seq(Requests)
         /\ \A r \in Requests : st'[r] = states[r] \/ (Live(r) /\ st'[r] = "granted")
         /\ active' > taken => active' <= l
         /\ \A j \in DOMAIN waiters : \A i \in 1..(j - 1) :
               Live(waiters[j]) /\ st'[waiters[j]] = "granted" /\ Live(waiters[i]) => st'[waiters[i]] = "granted"
  <1> DEFINE G == Granted(taken, l)
             H == {r \in Requests : states[r] \in Owners}
             N == Len(waiters)
  <1>1. PICK k \in 0..N :
            /\ Popped(taken, l) = 1..k
            /\ Cardinality(Popped(taken, l)) = k
            /\ k < N => taken + Cardinality({j \in 1..k : Live(waiters[j])}) >= l
            /\ k > 0 => taken + Cardinality({j \in 1..(k - 1) : Live(waiters[j])}) < l
    BY PoppedPrefix
  <1>2. /\ G \in SUBSET Requests
        /\ \A r \in Requests : r \in G <=> \E j \in 1..k : Live(waiters[j]) /\ waiters[j] = r
        /\ \A r \in G : Live(r)
        /\ Cardinality(G) = Cardinality({j \in 1..k : Live(waiters[j])})
        /\ Cardinality(G) \in Nat
    <2>1. QueueOK
      BY DEF LimiterInv
    <2>2. k \in 0..Len(waiters) /\ Popped(taken, l) = 1..k
      BY <1>1
    <2> QED BY <2>1, <2>2, GrantedCount, Zenon
  <1>3. N \in Nat /\ DOMAIN waiters = 1..N /\ \A i \in 1..N : waiters[i] \in Requests
    BY DEF TypeOK
  <1>4. /\ waiters' = SubSeq(waiters, k + 1, N)
        /\ active' = taken + Cardinality(G)
        /\ st' = [r \in Requests |-> IF r \in G THEN "granted" ELSE states[r]]
    BY <1>1 DEF Admit
  <1>5. /\ waiters' \in Seq(Requests) /\ Len(waiters') = N - k /\ DOMAIN waiters' = 1..(N - k)
        /\ \A i \in 1..(N - k) : waiters'[i] = waiters[k + i]
    <2>1. waiters \in Seq(Requests)
      BY DEF TypeOK
    <2> QED BY <1>4, <2>1, SuffixParts
  <1>6. st' \in [Requests -> States]
    BY <1>4 DEF States, InFlight
  <1>7. \A r \in Requests : st'[r] = states[r] \/ (Live(r) /\ st'[r] = "granted")
    BY <1>2, <1>4
  <1>8. QueueOK'
    <2>1. ASSUME NEW i \in 1..(N - k) PROVE st'[waiters'[i]] = "queued"
      <3>1. k + i \in 1..N /\ waiters'[i] = waiters[k + i] /\ waiters[k + i] \in Requests
        BY <1>1, <1>3, <1>5
      <3>2. st[waiters[k + i]] = "queued"
        BY <3>1, <1>3 DEF LimiterInv, QueueOK
      <3>3. waiters[k + i] \notin G
        <4> SUFFICES ASSUME NEW j \in 1..k, waiters[j] = waiters[k + i] PROVE FALSE
          BY <1>2, <3>1
        <4>1. j \in DOMAIN waiters /\ k + i \in DOMAIN waiters
          BY <1>1, <1>3, <3>1
        <4>2. j = k + i
          BY <4>1 DEF LimiterInv, QueueOK
        <4> QED BY <4>2, <1>1
      <3> QED BY <3>1, <3>2, <3>3, <1>4
    <2>2. ASSUME NEW i \in 1..(N - k), NEW j \in 1..(N - k), waiters'[i] = waiters'[j] PROVE i = j
      <3>1. k + i \in DOMAIN waiters /\ k + j \in DOMAIN waiters /\ waiters[k + i] = waiters[k + j]
        BY <1>1, <1>3, <1>5, <2>2
      <3>2. k + i = k + j
        BY <3>1 DEF LimiterInv, QueueOK
      <3> QED BY <3>2, <1>1
    <2> QED BY <1>5, <2>1, <2>2 DEF QueueOK
  <1>9. SlotsConserved'
    <2>1. IsFiniteSet(G) /\ IsFiniteSet(H) /\ Cardinality(G) \in Nat /\ Cardinality(H) \in Nat
      BY <1>2, RequestsFinite
    <2>2. G \intersect H = {}
      BY <1>2 DEF Live, Owners
    <2>3. {r \in Requests : st'[r] \in Owners} = H \union G
      BY <1>2, <1>4 DEF Owners
    <2>4. Cardinality(H \union G) = taken + Cardinality(G)
      <3> HIDE DEF G, H
      <3>1. Cardinality(H \union G) = Cardinality(H) + Cardinality(G) - Cardinality(H \intersect G)
        BY <2>1, FS_Union
      <3>2. Cardinality(H \intersect G) = 0 /\ Cardinality(H) = taken
        BY <2>2, FS_EmptySet DEF H
      <3> QED BY <2>1, <3>1, <3>2
    <2> QED BY <1>4, <2>3, <2>4 DEF SlotsConserved, Holds, Owners
  <1>10. QueuedForAReason'
    <2> SUFFICES ASSUME NEW r \in Requests, Live(r)'
                 PROVE  active' >= limit' /\ \E i \in DOMAIN waiters' : waiters'[i] = r
      BY DEF QueuedForAReason
    <2>1. st[r] = "queued" /\ Live(r) /\ r \notin G
      BY <1>4 DEF Live
    <2>2. PICK i \in DOMAIN waiters : waiters[i] = r
      BY <2>1 DEF LimiterInv, QueuedForAReason
    <2>3. i \in 1..N /\ ~(i \in 1..k)
      BY <1>2, <1>3, <2>1, <2>2
    <2>4. k < N /\ i - k \in 1..(N - k) /\ k + (i - k) = i
      BY <1>1, <1>3, <2>3
    <2>5. active' >= l
      BY <1>1, <1>2, <1>4, <2>4
    <2> QED BY <1>5, <2>2, <2>4, <2>5
  <1>13. QueueMeansFull'
    <2> SUFFICES ASSUME waiters' # <<>> PROVE active' >= limit'
      BY DEF QueueMeansFull
    <2>1. k < N
      BY <1>1, <1>3, <1>5
    <2> QED BY <1>1, <1>2, <1>4, <2>1
  <1>11. active' > taken => active' <= l
    <2> SUFFICES ASSUME active' > taken PROVE active' <= l
      OBVIOUS
    <2> DEFINE A == {j \in 1..k : Live(waiters[j])}
               B == {j \in 1..(k - 1) : Live(waiters[j])}
    <2>1. k > 0
      <3> SUFFICES ASSUME k = 0 PROVE FALSE
        BY <1>1
      <3>1. G = {}
        BY <1>2
      <3> QED BY <3>1, <1>4, FS_EmptySet
    <2>2. IsFiniteSet(B) /\ Cardinality(B) \in Nat
      <3>1. IsFiniteSet(1..(k - 1))
        BY FS_Interval
      <3> QED BY <3>1, FS_Subset, FS_CardinalityType
    <2>3. A \subseteq B \union {k}
      BY <1>1
    <2>4. IsFiniteSet(B \union {k}) /\ Cardinality(B \union {k}) <= Cardinality(B) + 1
      <3> HIDE DEF B
      <3>1. /\ IsFiniteSet(B \union {k})
            /\ Cardinality(B \union {k}) = IF k \in B THEN Cardinality(B) ELSE Cardinality(B) + 1
        BY <2>2, FS_AddElement, Zenon
      <3> QED BY <2>2, <3>1
    <2>5. Cardinality(A) <= Cardinality(B \union {k}) /\ Cardinality(B \union {k}) \in Nat
      <3> HIDE DEF A, B
      <3> QED BY <2>3, <2>4, FS_Subset, FS_CardinalityType
    <2> QED BY <1>1, <1>2, <1>4, <2>1, <2>2, <2>4, <2>5
  <1>12. ASSUME NEW j \in DOMAIN waiters, NEW i \in 1..(j - 1),
                Live(waiters[j]), st'[waiters[j]] = "granted", Live(waiters[i])
         PROVE  st'[waiters[i]] = "granted"
    <2>1. j \in 1..N /\ waiters[j] \in Requests /\ states[waiters[j]] = "queued" /\ i \in 1..N /\ waiters[i] \in Requests
      BY <1>3, <1>12 DEF Live
    <2>2. waiters[j] \in G
      BY <1>4, <1>12, <2>1
    <2>3. PICK m \in 1..k : waiters[m] = waiters[j]
      BY <1>2, <2>1, <2>2
    <2>4. m \in DOMAIN waiters
      BY <1>1, <1>3
    <2>5. m = j
      BY <2>3, <2>4 DEF LimiterInv, QueueOK
    <2>6. i \in 1..k
      BY <1>1, <2>1, <2>5
    <2> QED BY <1>2, <1>4, <1>12, <2>1, <2>6
  <1> QED BY <1>5, <1>6, <1>7, <1>8, <1>9, <1>10, <1>11, <1>12, <1>13 DEF LimiterInv

\* A step that leaves the limiter alone, the owners of slots and the queued requests too.
LEMMA KeepLimiter ==
  ASSUME TypeOK, LimiterInv, UNCHANGED slots,
         \A r \in Requests : /\ st'[r] \in Owners <=> st[r] \in Owners
                             /\ st'[r] = "queued" <=> st[r] = "queued"
                             /\ st[r] = "queued" /\ ~cancel'[r] => ~cancel[r]
  PROVE  LimiterInv'
  <1>1. QueueOK' /\ QueueMeansFull'
    BY DEF LimiterInv, QueueOK, QueueMeansFull, TypeOK, slots
  <1>2. SlotsConserved'
    <2>1. {r \in Requests : st'[r] \in Owners} = {r \in Requests : st[r] \in Owners}
      OBVIOUS
    <2> QED BY <2>1 DEF LimiterInv, SlotsConserved, Holds, Owners, slots
  <1>3. QueuedForAReason'
    BY DEF LimiterInv, QueuedForAReason, Live, slots
  <1> QED BY <1>1, <1>2, <1>3 DEF LimiterInv

\* _acquire: a request that finds a slot takes it, and one that does not is queued last.
LEMMA AcquireLimiter ==
  ASSUME TypeOK, LimiterInv, NEW r \in Requests, st[r] = "new", Acquire(r),
         UNCHANGED <<limit, cancel>>
  PROVE  /\ LimiterInv'
         /\ waiters' \in Seq(Requests)
         /\ st' \in [Requests -> States]
         /\ \A q \in Requests : q # r => st'[q] = st[q]
         /\ st'[r] \in {"queued", "sending"}
         /\ active' > active => active' <= limit'
         /\ st'[r] = "sending" => \A q \in Requests : ~Live(q)
  <1> DEFINE H == {q \in Requests : st[q] \in Owners}
  <1>1. st \in [Requests -> States] /\ waiters \in Seq(Requests) /\ active \in Nat /\ limit \in Nat
    BY ClientAssumption, RequestsFinite DEF TypeOK, States
  <1>2. active = Cardinality(H) /\ IsFiniteSet(H) /\ r \notin H
    BY RequestsFinite DEF LimiterInv, SlotsConserved, Holds, Owners
  <1>3. CASE active < limit /\ waiters = <<>>
    <2>1. active' = active + 1 /\ st' = [st EXCEPT ![r] = "sending"] /\ UNCHANGED waiters
      BY <1>3 DEF Acquire
    <2>2. QueueOK' /\ QueueMeansFull'
      BY <1>3, <2>1 DEF QueueOK, QueueMeansFull
    <2>3. SlotsConserved'
      <3>1. {q \in Requests : st'[q] \in Owners} = H \union {r}
        BY <1>1, <2>1 DEF Owners
      <3>2. Cardinality(H \union {r}) = active + 1
        BY <1>2, FS_AddElement
      <3> QED BY <2>1, <3>1, <3>2 DEF SlotsConserved, Holds, Owners
    <2>4. \A q \in Requests : ~Live(q)
      BY <1>3 DEF LimiterInv, QueuedForAReason
    <2>5. QueuedForAReason'
      BY <1>1, <2>1, <2>4 DEF QueuedForAReason, Live
    <2> QED BY <1>1, <1>3, <2>1, <2>2, <2>3, <2>4, <2>5 DEF LimiterInv, States, InFlight
  <1>4. CASE ~(active < limit /\ waiters = <<>>)
    <2>1. waiters' = Append(waiters, r) /\ st' = [st EXCEPT ![r] = "queued"] /\ UNCHANGED active
      BY <1>4 DEF Acquire
    <2>2. active >= limit
      BY <1>1, <1>4 DEF LimiterInv, QueueMeansFull
    <2>3. QueueMeansFull'
      BY <2>1, <2>2 DEF QueueMeansFull
    <2> DEFINE N == Len(waiters)
    <2>4. /\ N \in Nat /\ DOMAIN waiters = 1..N /\ DOMAIN waiters' = 1..(N + 1)
          /\ \A i \in 1..N : waiters'[i] = waiters[i] /\ waiters[i] \in Requests
          /\ waiters'[N + 1] = r /\ waiters' \in Seq(Requests)
      BY <1>1, <2>1
    <2>5. \A i \in 1..N : st[waiters[i]] = "queued"
      BY <2>4 DEF LimiterInv, QueueOK
    <2>6. QueueOK'
      <3>1. \A i \in 1..(N + 1) : st'[waiters'[i]] = "queued"
        BY <1>1, <2>1, <2>4, <2>5
      <3>2. \A i, j \in 1..(N + 1) : waiters'[i] = waiters'[j] => i = j
        BY <2>4, <2>5 DEF LimiterInv, QueueOK
      <3> QED BY <2>4, <3>1, <3>2 DEF QueueOK
    <2>7. SlotsConserved'
      <3>1. {q \in Requests : st'[q] \in Owners} = H
        BY <1>1, <2>1 DEF Owners
      <3> QED BY <1>2, <2>1, <3>1 DEF SlotsConserved, Holds, Owners
    <2>8. QueuedForAReason'
      <3> SUFFICES ASSUME NEW q \in Requests, Live(q)' PROVE \E i \in 1..(N + 1) : waiters'[i] = q
        BY <2>1, <2>2, <2>4 DEF QueuedForAReason
      <3>1. CASE q = r
        BY <2>4, <3>1
      <3>2. CASE q # r
        <4>1. Live(q)
          BY <1>1, <2>1, <3>2 DEF Live
        <4>2. PICK i \in 1..N : waiters[i] = q
          BY <2>4, <4>1 DEF LimiterInv, QueuedForAReason
        <4> QED BY <2>4, <4>2
      <3> QED BY <3>1, <3>2
    <2> QED BY <1>1, <2>1, <2>3, <2>4, <2>6, <2>7, <2>8 DEF LimiterInv, States, InFlight
  <1> QED BY <1>3, <1>4

\* What is left of a sequence without its i-th element.
LEMMA WithoutParts ==
  ASSUME NEW S, NEW s \in Seq(S), NEW i \in 1..Len(s)
  PROVE  LET t == SubSeq(s, 1, i - 1) \o SubSeq(s, i + 1, Len(s))
         IN  /\ t \in Seq(S) /\ Len(t) = Len(s) - 1 /\ DOMAIN t = 1..(Len(s) - 1)
             /\ \A j \in 1..(Len(s) - 1) : t[j] = s[IF j < i THEN j ELSE j + 1]
  <1> DEFINE u == SubSeq(s, 1, i - 1)
             v == SubSeq(s, i + 1, Len(s))
  <1>1. u \in Seq(S) /\ Len(u) = i - 1 /\ \A j \in 1..(i - 1) : u[j] = s[j]
    OBVIOUS
  <1>2. v \in Seq(S) /\ Len(v) = Len(s) - i /\ \A j \in 1..(Len(s) - i) : v[j] = s[j + i]
    OBVIOUS
  <1>3. Len(s) \in Nat
    OBVIOUS
  <1> HIDE DEF u, v
  <1>4. u \o v \in Seq(S) /\ Len(u \o v) = Len(s) - 1 /\ DOMAIN (u \o v) = 1..(Len(s) - 1)
    <2>1. u \in Seq(S) /\ v \in Seq(S)
      BY <1>1, <1>2
    <2>3. u \o v \in Seq(S) /\ Len(u \o v) = Len(u) + Len(v)
      BY <2>1
    <2>2. Len(u \o v) = Len(s) - 1
      BY <1>1, <1>2, <1>3, <2>3
    <2> QED BY <2>3, <2>2
  <1>5. ASSUME NEW j \in 1..(Len(s) - 1) PROVE (u \o v)[j] = s[IF j < i THEN j ELSE j + 1]
    <2>1. CASE j < i
      BY <1>1, <1>2, <1>3, <2>1
    <2>2. CASE ~(j < i)
      <3>1. j - (i - 1) \in 1..(Len(s) - i) /\ (j - (i - 1)) + i = j + 1
        BY <1>3, <2>2
      <3>2. (u \o v)[j] = v[j - (i - 1)]
        BY <1>1, <1>2, <1>3, <2>2
      <3>3. v[j - (i - 1)] = s[j + 1]
        BY <1>2, <3>1
      <3> QED BY <2>2, <3>2, <3>3
    <2> QED BY <2>1, <2>2
  <1> QED BY <1>4, <1>5 DEF u, v

\* A cancelled waiter leaves the queue.
LEMMA RemoveLimiter ==
  ASSUME TypeOK, LimiterInv, NEW r \in Requests, cancel[r], st[r] = "queued", Remove(r),
         st' = [st EXCEPT ![r] = "done"], UNCHANGED <<limit, active>>,
         \A q \in Requests : q # r => cancel'[q] = cancel[q]
  PROVE  LimiterInv' /\ waiters' \in Seq(Requests) /\ st' \in [Requests -> States]
  <1> DEFINE N == Len(waiters)
             P == {i \in DOMAIN waiters : waiters[i] = r}
  <1>1. /\ st \in [Requests -> States] /\ waiters \in Seq(Requests) /\ N \in Nat /\ DOMAIN waiters = 1..N
        /\ \A i \in 1..N : waiters[i] \in Requests
    BY DEF TypeOK, States
  <1>2. \A i \in 1..N : st[waiters[i]] = "queued"
    BY <1>1 DEF LimiterInv, QueueOK
  <1>3. \A i, j \in 1..N : waiters[i] = waiters[j] => i = j
    BY <1>1 DEF LimiterInv, QueueOK
  <1>4. SlotsConserved'
    <2>1. {q \in Requests : st'[q] \in Owners} = {q \in Requests : st[q] \in Owners}
      BY <1>1 DEF Owners
    <2> QED BY <2>1 DEF LimiterInv, SlotsConserved, Holds, Owners
  <1>5. \A q \in Requests : Live(q)' => Live(q) /\ q # r
    BY <1>1 DEF Live
  <1>6. st' \in [Requests -> States]
    BY <1>1 DEF States
  <1>7. CASE P = {}
    <2>1. waiters' = waiters /\ \A i \in 1..N : waiters[i] # r
      BY <1>1, <1>7 DEF Remove
    <2>2. QueueOK' /\ QueueMeansFull' /\ QueuedForAReason'
      BY <1>1, <1>2, <1>3, <1>5, <2>1 DEF LimiterInv, QueueOK, QueueMeansFull, QueuedForAReason
    <2> QED BY <1>1, <1>4, <1>6, <2>1, <2>2 DEF LimiterInv
  <1>8. CASE P # {}
    <2>1. PICK i \in 1..N : waiters[i] = r
      BY <1>1, <1>8
    <2>2. P = {i}
      BY <1>1, <1>3, <2>1
    <2>3. Min(P) = i
      BY <2>2 DEF Min
    <2>4. waiters' = SubSeq(waiters, 1, i - 1) \o SubSeq(waiters, i + 1, N)
      BY <1>8, <2>3 DEF Remove
    <2>5. /\ waiters' \in Seq(Requests) /\ DOMAIN waiters' = 1..(N - 1)
          /\ \A j \in 1..(N - 1) : waiters'[j] = waiters[IF j < i THEN j ELSE j + 1]
      BY <1>1, <2>4, WithoutParts
    <2>6. QueueOK'
      <3>1. \A j \in 1..(N - 1) : waiters'[j] \in Requests /\ waiters'[j] # r /\ st[waiters'[j]] = "queued"
        BY <1>1, <1>2, <1>3, <2>1, <2>5
      <3>2. \A j, k \in 1..(N - 1) : waiters'[j] = waiters'[k] => j = k
        BY <1>1, <1>3, <2>1, <2>5
      <3> QED BY <1>1, <2>5, <3>1, <3>2 DEF QueueOK
    <2>7. QueueMeansFull'
      BY <1>1, <2>1, <2>5 DEF LimiterInv, QueueMeansFull
    <2>8. QueuedForAReason'
      <3> SUFFICES ASSUME NEW q \in Requests, Live(q)'
                   PROVE  active >= limit /\ \E j \in 1..(N - 1) : waiters'[j] = q
        BY <2>5 DEF QueuedForAReason
      <3>1. Live(q) /\ q # r
        BY <1>5
      <3>2. PICK j \in 1..N : waiters[j] = q /\ active >= limit
        BY <1>1, <3>1 DEF LimiterInv, QueuedForAReason
      <3>3. CASE j < i
        BY <1>1, <2>1, <2>5, <3>2, <3>3
      <3>4. CASE j > i
        <4>1. j - 1 \in 1..(N - 1) /\ ~(j - 1 < i) /\ (j - 1) + 1 = j
          BY <1>1, <2>1, <3>4
        <4> QED BY <2>5, <3>2, <4>1
      <3> QED BY <1>1, <2>1, <3>1, <3>2, <3>3, <3>4
    <2> QED BY <1>4, <1>6, <2>5, <2>6, <2>7, <2>8 DEF LimiterInv
  <1> QED BY <1>7, <1>8

-----------------------------------------------------------------------------
(***************************************************************************)
(* The inductive invariant.                                                *)
(***************************************************************************)

\* Where the login of an operation can be, and what of it is out.
LoginOK(r) ==
    LET o == r[1]
    IN  /\ op[o] \in {"idle", "connecting"} => st[r] = "new"
        /\ op[o] = "login" => st[r] \in InFlight
        /\ op[o] \in {"calling", "draining"} => st[r] = "done"
        /\ op[o] = "settling" => \/ st[r] \in {"new", "done", "broken", "failed", "abandoned"}
                                 \/ st[r] = "waiting" /\ primary[o] = "interrupted"
        /\ op[o] = "closing" => st[r] \in {"new", "done"}
        /\ cancel[r] => st[r] \in {"queued", "granted"}
        /\ server[r] = "running" => \/ op[o] = "login" /\ st[r] \in {"sending", "waiting"}
                                    \/ op[o] = "settling" /\ st[r] \in {"waiting", "broken", "abandoned"}
                                    \/ op[o] = "closing"

\* Where a call can be, and what of it is out.
CallOK(r) ==
    LET o == r[1]
    IN  /\ op[o] \in {"calling", "draining"} => st[r] \in InFlight \union {"new", "orphaned", "done"}
        /\ op[o] \in {"settling", "closing"} => st[r] \in {"new", "done"}
        /\ op[o] \in {"idle", "connecting", "login"} => st[r] = "new"
        /\ kind[o] = "single" /\ r[2] # 1 => st[r] = "new"
        /\ st[r] = "orphaned" => kind[o] # "single"
        /\ cancel[r] /\ kind[o] = "single" => op[o] = "draining"
        /\ server[r] # "none" => op[o] \in {"calling", "draining"}
        /\ server[r] = "running" => \/ st[r] \in {"sending", "waiting", "orphaned"}
                                    \/ st[r] = "done" /\ kind[o] = "single" /\ op[o] = "draining"

RequestOK(r) ==
    /\ r[2] = 0 => LoginOK(r)
    /\ r[2] # 0 => CallOK(r)
    /\ lost[r[1]] => server[r] # "running"

IndInv ==
    /\ TypeOK
    /\ LimiterInv
    /\ \A r \in Requests : RequestOK(r)

\* What the action properties say of one step.
Turn ==
    /\ active' > active => active' <= limit'
    /\ \A j \in DOMAIN waiters : \A i \in 1..(j - 1) :
          Live(waiters[j]) /\ st'[waiters[j]] = "granted" /\ Live(waiters[i]) => st'[waiters[i]] = "granted"
    /\ \A r \in Requests : st[r] = "new" /\ st'[r] = "sending" => \A q \in Requests : ~Live(q)

Sent == \A r \in Requests : st[r] \in {"new", "queued", "granted"} /\ st'[r] = "sending" => Open

Left == \A o \in Ops :
    op[o] = "settling" /\ op'[o] = "closing" /\ server'[Login(o)] = "running"
    => st[Login(o)] \in {"abandoned", "broken"}

StepOK == Turn /\ Sent /\ Left

-----------------------------------------------------------------------------

\* The first state: an empty queue, no slot taken, every request new.
LEMMA InitInv == Init => IndInv
  <1> SUFFICES ASSUME Init PROVE IndInv
    OBVIOUS
  <1>1. st = [r \in Requests |-> "new"] /\ waiters = <<>> /\ active = 0
    BY DEF Init
  <1>2. TypeOK
    BY RequestsFinite, ClientAssumption DEF Init, TypeOK, InFlight, Outcomes
  <1>3. QueueOK /\ QueueMeansFull /\ QueuedForAReason
    BY <1>1 DEF QueueOK, QueueMeansFull, QueuedForAReason, Live
  <1>4. SlotsConserved
    <2>1. {r \in Requests : Holds(r)} = {}
      BY <1>1 DEF Holds
    <2> QED BY <1>1, <2>1, FS_EmptySet DEF SlotsConserved
  <1>5. ASSUME NEW r \in Requests PROVE RequestOK(r)
    BY RequestParts DEF Init, RequestOK, LoginOK, CallOK
  <1> QED BY <1>2, <1>3, <1>4, <1>5 DEF IndInv, LimiterInv

\* note_busy: the cooldown is started or prolonged, within its limit.
LEMMA BusyTypes ==
  ASSUME TypeOK, NoteBusy
  PROVE  failures' \in 0..MaxFailures /\ cooldown' \in 0..MaxDelay
  <1>1. /\ failures \in 0..MaxFailures /\ cooldown \in 0..MaxDelay
        /\ MaxFailures \in Nat \ {0} /\ MaxDelay \in Nat /\ BaseDelay \in Nat
    BY ClientAssumption DEF TypeOK
  <1>2. failures' = Min({failures + 1, MaxFailures})
    BY DEF NoteBusy
  <1>3. failures' \in 0..MaxFailures /\ failures' - 1 \in Nat
    BY <1>1, <1>2, MinOfTwo
  <1> DEFINE power == 2^(failures' - 1)
             delay == Min({MaxDelay, BaseDelay * power})
  <1>4. power \in Nat
    BY <1>3, PowerOfTwo
  <1>5. PICK jittered \in ((delay + 1) \div 2)..delay : cooldown' = Max({cooldown, jittered})
    BY DEF NoteBusy
  <1> HIDE DEF power
  <1>6. delay \in 0..MaxDelay
    <2>1. BaseDelay * power \in Nat
      BY <1>1, <1>4
    <2> QED BY <1>1, <2>1, MinOfTwo
  <1> HIDE DEF delay
  <1>7. jittered \in 0..MaxDelay
    BY <1>1, <1>5, <1>6
  <1>8. cooldown' \in 0..MaxDelay
    BY <1>1, <1>5, <1>7, MaxOfTwo
  <1> QED BY <1>3, <1>8

\* The backoff keeps its types whichever outcome is noted.
LEMMA BackoffTypes ==
  ASSUME TypeOK, UNCHANGED backoff \/ NoteBusy \/ NoteSuccess
  PROVE  failures' \in 0..MaxFailures /\ cooldown' \in 0..MaxDelay
  BY BusyTypes, ClientAssumption DEF TypeOK, backoff, NoteSuccess

\* The counter of the limiter never exceeds the number of requests.
LEMMA ActiveType == ASSUME LimiterInv PROVE active \in 0..Cardinality(Requests)
  BY RequestsFinite DEF LimiterInv, SlotsConserved

\* A request that a step leaves alone, or that _admit gives a slot.
LEMMA Bystander ==
  ASSUME TypeOK, NEW q \in Requests, RequestOK(q),
         st'[q] = st[q] \/ (Live(q) /\ st'[q] = "granted"),
         cancel'[q] = cancel[q], server'[q] = server[q],
         op'[q[1]] = op[q[1]], kind'[q[1]] = kind[q[1]], lost'[q[1]] = lost[q[1]],
         primary'[q[1]] = primary[q[1]] \/ op[q[1]] = "calling"
  PROVE  RequestOK(q)'
  BY DEF RequestOK, LoginOK, CallOK, Live, InFlight

\* Steps that leave the limiter alone.
LEMMA KeepStep ==
  ASSUME TypeOK, LimiterInv, UNCHANGED slots,
         \A r \in Requests : /\ st'[r] \in Owners <=> st[r] \in Owners
                             /\ st'[r] = "queued" <=> st[r] = "queued"
                             /\ st[r] = "queued" /\ ~cancel'[r] => ~cancel[r]
  PROVE  LimiterInv' /\ Turn
  <1>1. LimiterInv'
    BY KeepLimiter
  <1>2. active' = active /\ active \in Int
    BY DEF slots, TypeOK
  <1>3. \A j \in DOMAIN waiters : waiters[j] \in Requests
    BY DEF TypeOK
  <1>4. \A j \in DOMAIN waiters : Live(waiters[j]) => st'[waiters[j]] # "granted"
    BY <1>3 DEF Live
  <1>5. \A r \in Requests : st[r] = "new" => st'[r] # "sending"
    BY DEF Owners
  <1> QED BY <1>1, <1>2, <1>4, <1>5 DEF Turn

\* _release of the slot of one request, whose task goes on without it.
LEMMA ReleaseStep ==
  ASSUME TypeOK, LimiterInv, NEW r \in Requests, st[r] \in Owners,
         Release(1, [st EXCEPT ![r] = "done"]),
         \A q \in Requests : st[q] = "queued" => cancel'[q] = cancel[q]
  PROVE  /\ LimiterInv' /\ Turn
         /\ limit' = limit /\ waiters' \in Seq(Requests) /\ st' \in [Requests -> States]
         /\ st'[r] = "done"
         /\ \A q \in Requests : q # r => st'[q] = st[q] \/ (Live(q) /\ st'[q] = "granted")
  <1> DEFINE states == [st EXCEPT ![r] = "done"]
             H == {q \in Requests : st[q] \in Owners}
  <1>1. st \in [Requests -> States] /\ limit \in Nat /\ active \in Nat
    BY ClientAssumption, RequestsFinite DEF TypeOK, States
  <1>2. /\ states \in [Requests -> States] /\ states[r] = "done"
        /\ \A q \in Requests : q # r => states[q] = st[q]
    BY <1>1 DEF States
  <1>3. /\ active = Cardinality(H) /\ IsFiniteSet(H) /\ r \in H
    BY RequestsFinite DEF LimiterInv, SlotsConserved, Holds, Owners
  <1>4. {q \in Requests : states[q] \in Owners} = H \ {r}
    BY <1>2 DEF Owners
  <1>5. active - 1 = Cardinality({q \in Requests : states[q] \in Owners})
    <2> HIDE DEF H
    <2> QED BY <1>1, <1>3, <1>4, FS_RemoveElement
  <1>6. active - 1 \in Nat
    BY <1>5, RequestsFinite
  <1>7. Admit(active - 1, limit, states) /\ limit' = limit
    BY DEF Release
  <1>8. \A q \in Requests : st[q] = "queued" <=> states[q] = "queued"
    BY <1>2 DEF Owners
  <1> HIDE DEF states
  <1>9. /\ LimiterInv'
        /\ st' \in [Requests -> States]
        /\ waiters' \in Seq(Requests)
        /\ \A q \in Requests : st'[q] = states[q] \/ (Live(q) /\ st'[q] = "granted")
        /\ active' > active - 1 => active' <= limit
        /\ \A j \in DOMAIN waiters : \A i \in 1..(j - 1) :
              Live(waiters[j]) /\ st'[waiters[j]] = "granted" /\ Live(waiters[i]) => st'[waiters[i]] = "granted"
    BY <1>1, <1>2, <1>5, <1>6, <1>7, <1>8, AdmitLimiter
  <1>10. active' \in Nat
    BY <1>9, RequestsFinite DEF LimiterInv, SlotsConserved
  <1>11. active' > active => active' <= limit'
    BY <1>1, <1>7, <1>9, <1>10
  <1>12. \A q \in Requests : st[q] = "new" => st'[q] # "sending"
    BY <1>2, <1>9
  <1>13. Turn
    BY <1>9, <1>11, <1>12 DEF Turn
  <1>14. st'[r] = "done"
    BY <1>2, <1>9 DEF Live, Owners
  <1> QED BY <1>2, <1>7, <1>9, <1>13, <1>14

\* Time passes.
LEMMA TickInv == ASSUME IndInv, Tick PROVE IndInv' /\ StepOK
  <1>1. /\ UNCHANGED <<slots, failures, limit, active, waiters, op, kind, width, primary, timedOut, lost, st, cancel, fut, server>>
        /\ cooldown' \in 0..MaxDelay
    BY ClientAssumption DEF Tick, slots, operation, request, IndInv, TypeOK
  <1>2. LimiterInv' /\ Turn
    BY <1>1, KeepStep DEF IndInv
  <1>3. TypeOK'
    BY <1>1 DEF IndInv, TypeOK
  <1>4. \A q \in Requests : RequestOK(q)'
    BY <1>1 DEF IndInv, RequestOK, LoginOK, CallOK
  <1>5. Sent /\ Left
    BY <1>1 DEF Sent, Left
  <1> QED BY <1>2, <1>3, <1>4, <1>5 DEF IndInv, StepOK

\* A new limit: waiters are admitted up to it, and slots above it are not taken away.
LEMMA SetLimitInv == ASSUME IndInv, SetLimit PROVE IndInv' /\ StepOK
  <1>1. /\ UNCHANGED <<failures, cooldown, op, kind, width, primary, timedOut, lost, cancel, fut, server>>
        /\ limit' \in Limits /\ limit' \in Nat /\ Admit(active, limit', st)
    BY ClientAssumption DEF SetLimit, backoff, operation
  <1>2. /\ TypeOK /\ LimiterInv /\ st \in [Requests -> States] /\ active \in Nat
        /\ active = Cardinality({r \in Requests : st[r] \in Owners})
    BY RequestsFinite DEF IndInv, TypeOK, States, LimiterInv, SlotsConserved, Holds, Owners
  <1>3. /\ LimiterInv'
        /\ st' \in [Requests -> States]
        /\ waiters' \in Seq(Requests)
        /\ \A q \in Requests : st'[q] = st[q] \/ (Live(q) /\ st'[q] = "granted")
        /\ active' > active => active' <= limit'
        /\ \A j \in DOMAIN waiters : \A i \in 1..(j - 1) :
              Live(waiters[j]) /\ st'[waiters[j]] = "granted" /\ Live(waiters[i]) => st'[waiters[i]] = "granted"
    <2> DEFINE l == limit'
    <2>1. l \in Nat /\ limit' = l /\ Admit(active, l, st)
      BY <1>1
    <2>2. \A r \in Requests : st[r] = "queued" => cancel'[r] = cancel[r]
      BY <1>1
    <2> HIDE DEF l
    <2> QED BY <1>2, <2>1, <2>2, AdmitLimiter
  <1>4. active' \in 0..Cardinality(Requests)
    BY <1>3, RequestsFinite DEF LimiterInv, SlotsConserved
  <1>5. TypeOK'
    BY <1>1, <1>2, <1>3, <1>4 DEF TypeOK, States, Live, InFlight
  <1>6. \A q \in Requests : RequestOK(q)'
    BY <1>1, <1>3, Bystander DEF IndInv
  <1>7. Turn /\ Sent /\ Left
    BY <1>1, <1>3 DEF Turn, Sent, Left
  <1> QED BY <1>3, <1>5, <1>6, <1>7 DEF IndInv, StepOK

\* Steps that neither touch the limiter nor move a request.
LEMMA QuietStep ==
  ASSUME IndInv, TypeOK', \A q \in Requests : RequestOK(q)', UNCHANGED <<slots, st>>,
         \A q \in Requests : cancel[q] => cancel'[q],
         \A o \in Ops : op[o] = "settling" => op'[o] # "closing"
  PROVE  IndInv' /\ StepOK
  <1>1. LimiterInv' /\ Turn
    BY KeepStep DEF IndInv
  <1>2. Sent /\ Left
    BY DEF Sent, Left
  <1> QED BY <1>1, <1>2 DEF IndInv, StepOK

\* An operation starts; nothing of it is out.
LEMMA BeginInv == ASSUME IndInv, NEW o \in Ops, Begin(o) PROVE IndInv' /\ StepOK
  <1>1. PICK k \in KindsOf[o] :
          /\ kind' = [kind EXCEPT ![o] = k]
          /\ width' = [width EXCEPT ![o] =
                IF k = "batch" THEN Min({MaxConcurrency, CallsPerOp, limit}) ELSE CallsPerOp]
    BY DEF Begin
  <1>2. /\ UNCHANGED <<slots, failures, cooldown, primary, timedOut, lost, st, cancel, fut, server>>
        /\ op[o] = "idle" /\ op' = [op EXCEPT ![o] = "connecting"]
    BY DEF Begin, backoff, request
  <1>3. width' \in [Ops -> 0..CallsPerOp]
    <2>1. /\ MaxConcurrency \in Nat /\ CallsPerOp \in Nat /\ limit \in Nat /\ width \in [Ops -> 0..CallsPerOp]
      BY ClientAssumption DEF IndInv, TypeOK
    <2>2. Min({MaxConcurrency, CallsPerOp, limit}) \in 0..CallsPerOp
      BY <2>1 DEF Min
    <2> QED BY <1>1, <2>1, <2>2
  <1>4. TypeOK'
    BY <1>1, <1>2, <1>3, ClientAssumption DEF IndInv, TypeOK, slots
  <1>5. ASSUME NEW q \in Requests PROVE RequestOK(q)'
    BY <1>1, <1>2, RequestParts DEF IndInv, TypeOK, RequestOK, LoginOK, CallOK, InFlight
  <1> QED BY <1>2, <1>4, <1>5, QuietStep DEF IndInv, TypeOK

\* Connecting fails before there is a login.
LEMMA ConnectFailsInv == ASSUME IndInv, NEW o \in Ops, ConnectFails(o) PROVE IndInv' /\ StepOK
  <1>1. /\ UNCHANGED <<slots, failures, cooldown, kind, width, lost, st, cancel, fut, server>>
        /\ op[o] = "connecting" /\ op' = [op EXCEPT ![o] = "closing"] /\ primary' = [primary EXCEPT ![o] = "error"]
    BY DEF ConnectFails, backoff, request
  <1>2. timedOut' \in [Ops -> BOOLEAN]
    BY DEF ConnectFails, IndInv, TypeOK
  <1>3. TypeOK'
    BY <1>1, <1>2 DEF IndInv, TypeOK, slots
  <1>4. ASSUME NEW q \in Requests PROVE RequestOK(q)'
    BY <1>1, RequestParts DEF IndInv, TypeOK, RequestOK, LoginOK, CallOK, InFlight
  <1> QED BY <1>1, <1>3, <1>4, QuietStep DEF IndInv, TypeOK

\* A timeout that only changes what the caller will be told.
LEMMA LateTimeoutInv == ASSUME IndInv, NEW o \in Ops, LateTimeout(o) PROVE IndInv' /\ StepOK
  <1>1. /\ UNCHANGED <<slots, failures, cooldown, op, kind, width, primary, lost, st, cancel, fut, server>>
        /\ timedOut' = [timedOut EXCEPT ![o] = TRUE]
    BY DEF LateTimeout, backoff, request
  <1>2. TypeOK'
    BY <1>1 DEF IndInv, TypeOK, slots
  <1>3. ASSUME NEW q \in Requests PROVE RequestOK(q)'
    BY <1>1 DEF IndInv, RequestOK, LoginOK, CallOK
  <1> QED BY <1>1, <1>2, <1>3, QuietStep

\* All calls have returned; the orphans wait for the close.
LEMMA CallsReturnedInv == ASSUME IndInv, NEW o \in Ops, CallsReturned(o) PROVE IndInv' /\ StepOK
  <1>1. /\ UNCHANGED <<slots, failures, cooldown, kind, width, primary, timedOut, lost, st, cancel, fut, server>>
        /\ op[o] = "calling" /\ op' = [op EXCEPT ![o] = "draining"]
    BY DEF CallsReturned, backoff, request
  <1>2. TypeOK'
    BY <1>1 DEF IndInv, TypeOK, slots
  <1>3. ASSUME NEW q \in Requests PROVE RequestOK(q)'
    BY <1>1, RequestParts DEF IndInv, TypeOK, RequestOK, LoginOK, CallOK
  <1> QED BY <1>1, <1>2, <1>3, QuietStep DEF IndInv, TypeOK

\* A lost connection takes everything it carried with it; no slot is touched.
LEMMA ConnectionLostInv == ASSUME IndInv, NEW o \in Ops, ConnectionLost(o) PROVE IndInv' /\ StepOK
  <1>1. /\ UNCHANGED <<slots, failures, cooldown, op, kind, width, primary, timedOut, st, cancel>>
        /\ lost' = [lost EXCEPT ![o] = TRUE]
        /\ fut' = [r \in Requests |-> IF r \in CallsOf(o) /\ Pending(r) THEN "error" ELSE fut[r]]
        /\ server' = [r \in Requests |-> IF r[1] = o THEN "none" ELSE server[r]]
    BY DEF ConnectionLost, backoff
  <1>2. TypeOK'
    BY <1>1 DEF IndInv, TypeOK, slots, Outcomes
  <1>3. ASSUME NEW q \in Requests PROVE RequestOK(q)'
    BY <1>1, RequestParts DEF IndInv, TypeOK, RequestOK, LoginOK, CallOK
  <1> QED BY <1>1, <1>2, <1>3, QuietStep

\* A request arrives at the appliance; it has a slot.
LEMMA DeliverInv == ASSUME IndInv, NEW r \in Requests, Deliver(r) PROVE IndInv' /\ StepOK
  <1>1. /\ UNCHANGED <<slots, failures, cooldown, op, kind, width, primary, timedOut, lost, st, cancel, fut>>
        /\ op[r[1]] \in {"login", "calling", "draining", "settling"} /\ ~lost[r[1]]
        /\ st[r] \in {"sending", "waiting", "broken", "orphaned"}
        /\ server' = [server EXCEPT ![r] = "running"]
    BY DEF Deliver, backoff, operation
  <1>2. TypeOK'
    BY <1>1 DEF IndInv, TypeOK, slots
  <1>3. ASSUME NEW q \in Requests PROVE RequestOK(q)'
    <2>1. CASE q # r
      BY <1>1, <2>1, Bystander DEF IndInv, TypeOK
    <2>2. CASE q = r
      BY <1>1, <2>2, RequestParts DEF IndInv, TypeOK, RequestOK, LoginOK, CallOK, InFlight
    <2> QED BY <2>1, <2>2
  <1> QED BY <1>1, <1>2, <1>3, QuietStep

\* Cancelling tasks: only calls in flight are marked.
LEMMA CancelTypes ==
  ASSUME TypeOK, NEW rs, CancelRequests(rs)
  PROVE  /\ cancel' \in [Requests -> BOOLEAN] /\ fut' \in [Requests -> Outcomes \union {"none"}]
         /\ \A q \in Requests : cancel'[q] => cancel[q] \/ (q \in rs /\ st[q] \in InFlight)
         /\ \A q \in Requests : cancel[q] => cancel'[q]
  BY DEF TypeOK, CancelRequests

\* A call's deadline only marks its task.
LEMMA CallTimeoutInv == ASSUME IndInv, NEW r \in Requests, CallTimeout(r) PROVE IndInv' /\ StepOK
  <1>1. /\ UNCHANGED <<slots, failures, cooldown, op, kind, width, primary, timedOut, lost, st, server>>
        /\ r[2] # 0 /\ kind[r[1]] = "batch" /\ CancelRequests({r})
    BY DEF CallTimeout, backoff, operation
  <1>2. /\ cancel' \in [Requests -> BOOLEAN] /\ fut' \in [Requests -> Outcomes \union {"none"}]
        /\ \A q \in Requests : cancel'[q] => cancel[q] \/ (q = r /\ st[q] \in InFlight)
        /\ \A q \in Requests : cancel[q] => cancel'[q]
    BY <1>1, CancelTypes DEF IndInv
  <1>3. TypeOK'
    BY <1>1, <1>2 DEF IndInv, TypeOK, slots
  <1>4. ASSUME NEW q \in Requests PROVE RequestOK(q)'
    BY <1>1, <1>2 DEF IndInv, RequestOK, LoginOK, CallOK
  <1> QED BY <1>1, <1>2, <1>3, <1>4, QuietStep

\* The calls of an operation are cancelled, and it drains them.
LEMMA DrainInv ==
  ASSUME IndInv, NEW o \in Ops, NEW why \in {"error", "interrupted"}, op[o] = "calling", Drain(o, why),
         UNCHANGED <<slots, failures, cooldown, kind, width, lost, st, server>>,
         timedOut' \in [Ops -> BOOLEAN]
  PROVE  IndInv' /\ StepOK
  <1>1. /\ op' = [op EXCEPT ![o] = "draining"] /\ primary' = [primary EXCEPT ![o] = why]
        /\ CancelRequests(CallsOf(o))
    BY DEF Drain
  <1>2. /\ cancel' \in [Requests -> BOOLEAN] /\ fut' \in [Requests -> Outcomes \union {"none"}]
        /\ \A q \in Requests : cancel'[q] => cancel[q] \/ (q \in CallsOf(o) /\ st[q] \in InFlight)
        /\ \A q \in Requests : cancel[q] => cancel'[q]
    BY <1>1, CancelTypes DEF IndInv
  <1>3. TypeOK'
    BY <1>1, <1>2 DEF IndInv, TypeOK, slots
  <1>4. ASSUME NEW q \in Requests PROVE RequestOK(q)'
    <2>1. q \in CallsOf(o) => q[1] = o /\ q[2] # 0
      BY CallsOfParts
    <2> QED BY <1>1, <1>2, <2>1, RequestParts DEF IndInv, TypeOK, RequestOK, LoginOK, CallOK
  <1> QED BY <1>1, <1>2, <1>3, <1>4, QuietStep DEF IndInv, TypeOK

\* The operation fails and drains its calls.
LEMMA CallsFailedInv == ASSUME IndInv, NEW o \in Ops, CallsFailed(o) PROVE IndInv' /\ StepOK
  <1>1. /\ op[o] = "calling" /\ Drain(o, "error")
        /\ UNCHANGED <<slots, failures, cooldown, kind, width, lost, st, server>>
        /\ timedOut' \in [Ops -> BOOLEAN]
    BY DEF CallsFailed, backoff, IndInv, TypeOK
  <1> QED BY <1>1, DrainInv

\* What the end of a call's task leaves.
LEMMA CallEndsParts ==
  ASSUME TypeOK, NEW r \in Requests, NEW ok \in BOOLEAN, CallEnds(r, ok)
  PROVE  /\ cancel' = [cancel EXCEPT ![r] = FALSE]
         /\ fut' \in [Requests -> Outcomes \union {"none"}]
         /\ primary' \in [Ops -> {"none", "error", "interrupted"}]
         /\ \A p \in Ops : primary'[p] = primary[p] \/ op[p] = "calling"
  <1>1. cancel' = [cancel EXCEPT ![r] = FALSE] /\ fut' = [fut EXCEPT ![r] = "none"]
    BY DEF CallEnds
  <1>2. \/ primary' = primary
        \/ op[r[1]] = "calling" /\ primary' = [primary EXCEPT ![r[1]] = "error"]
    BY DEF CallEnds
  <1>3. fut' \in [Requests -> Outcomes \union {"none"}]
    BY <1>1 DEF TypeOK
  <1>4. primary' \in [Ops -> {"none", "error", "interrupted"}]
    BY <1>2 DEF TypeOK
  <1>5. \A p \in Ops : primary'[p] = primary[p] \/ op[p] = "calling"
    BY <1>2 DEF TypeOK
  <1> QED BY <1>1, <1>3, <1>4, <1>5

\* A call ends and gives its slot back.
LEMMA CallReleases ==
  ASSUME IndInv, NEW r \in Requests, r[2] # 0, st[r] \in Owners,
         Release(1, [st EXCEPT ![r] = "done"]),
         cancel' = [cancel EXCEPT ![r] = FALSE],
         fut' \in [Requests -> Outcomes \union {"none"}],
         primary' \in [Ops -> {"none", "error", "interrupted"}],
         \A p \in Ops : primary'[p] = primary[p] \/ op[p] = "calling",
         UNCHANGED <<op, kind, width, timedOut, lost>>,
         UNCHANGED backoff \/ NoteBusy \/ NoteSuccess,
         \A q \in Requests : q # r => server'[q] = server[q],
         server' \in [Requests -> {"none", "running", "answered"}], server'[r] = "none" \/ server'[r] = server[r],
         server'[r] = "running" => kind[r[1]] = "single" /\ op[r[1]] = "draining"
  PROVE  IndInv' /\ StepOK
  <1>1. ~cancel'[r]
    BY DEF IndInv, TypeOK
  <1>2. \A q \in Requests : q # r => cancel'[q] = cancel[q]
    BY DEF IndInv, TypeOK
  <1>3. /\ LimiterInv' /\ Turn
        /\ limit' = limit /\ waiters' \in Seq(Requests) /\ st' \in [Requests -> States]
        /\ st'[r] = "done"
        /\ \A q \in Requests : q # r => st'[q] = st[q] \/ (Live(q) /\ st'[q] = "granted")
    <2>1. \A q \in Requests : st[q] = "queued" => cancel'[q] = cancel[q]
      BY <1>2 DEF Owners
    <2> QED BY <2>1, ReleaseStep DEF IndInv
  <1>4. failures' \in 0..MaxFailures /\ cooldown' \in 0..MaxDelay
    BY BackoffTypes DEF IndInv
  <1>5. active' \in 0..Cardinality(Requests)
    BY <1>3, RequestsFinite DEF LimiterInv, SlotsConserved
  <1>6. TypeOK'
    <2>1. cancel' \in [Requests -> BOOLEAN]
      BY DEF IndInv, TypeOK
    <2>2. \A q \in Requests : cancel'[q] => st'[q] \in InFlight
      BY <1>1, <1>2, <1>3 DEF IndInv, TypeOK, InFlight
    <2> QED BY <1>3, <1>4, <1>5, <2>1, <2>2 DEF IndInv, TypeOK, States
  <1>7. ASSUME NEW q \in Requests PROVE RequestOK(q)'
    <2>1. CASE q # r
      BY <1>2, <1>3, <2>1, RequestParts, Bystander DEF IndInv
    <2>2. CASE q = r
      <3>1. RequestOK(r)
        BY DEF IndInv
      <3>2. CallOK(r)'
        BY <1>1, <1>3, <3>1 DEF RequestOK, CallOK, Owners
      <3> QED BY <2>2, <3>1, <3>2 DEF RequestOK
    <2> QED BY <2>1, <2>2
  <1>8. Sent /\ Left
    BY <1>3 DEF Sent, Left
  <1> QED BY <1>3, <1>6, <1>7, <1>8 DEF IndInv, StepOK

\* A call returns: outcome noted, slot released.
LEMMA FinishInv == ASSUME IndInv, NEW r \in Requests, Finish(r) PROVE IndInv' /\ StepOK
  <1>1. PICK outcome \in Outcomes :
          /\ \/ st[r] = "waiting" /\ outcome = fut[r]
             \/ st[r] = "sending" /\ lost[r[1]] /\ outcome = "error"
          /\ NoteOutcome(outcome)
          /\ CallEnds(r, outcome = "ok")
    BY DEF Finish
  <1>2. /\ r[2] # 0 /\ Release(1, [st EXCEPT ![r] = "done"]) /\ UNCHANGED <<op, kind, width, timedOut, lost>>
        /\ server' = [server EXCEPT ![r] = "none"]
    BY DEF Finish
  <1>3. UNCHANGED backoff \/ NoteBusy \/ NoteSuccess
    BY <1>1 DEF NoteOutcome, Outcomes
  <1>4. st[r] \in Owners
    BY <1>1 DEF Owners
  <1>5. /\ \A q \in Requests : q # r => server'[q] = server[q]
        /\ server' \in [Requests -> {"none", "running", "answered"}] /\ server'[r] = "none"
    BY <1>2 DEF IndInv, TypeOK
  <1>6. /\ cancel' = [cancel EXCEPT ![r] = FALSE]
        /\ fut' \in [Requests -> Outcomes \union {"none"}]
        /\ primary' \in [Ops -> {"none", "error", "interrupted"}]
        /\ \A p \in Ops : primary'[p] = primary[p] \/ op[p] = "calling"
    BY <1>1, CallEndsParts DEF IndInv
  <1> QED BY <1>2, <1>3, <1>4, <1>5, <1>6, CallReleases

\* A call cancelled just as it got its slot passes it on.
LEMMA UnwindGrantedInv == ASSUME IndInv, NEW r \in Requests, UnwindGranted(r) PROVE IndInv' /\ StepOK
  <1>1. /\ r[2] # 0 /\ st[r] = "granted" /\ Release(1, [st EXCEPT ![r] = "done"]) /\ CallEnds(r, FALSE)
        /\ UNCHANGED <<backoff, op, kind, width, timedOut, lost, server>>
    BY DEF UnwindGranted
  <1>2. server'[r] # "running" /\ server' \in [Requests -> {"none", "running", "answered"}]
    BY <1>1 DEF IndInv, TypeOK, RequestOK, CallOK
  <1>3. st[r] \in Owners
    BY <1>1 DEF Owners
  <1>4. /\ cancel' = [cancel EXCEPT ![r] = FALSE]
        /\ fut' \in [Requests -> Outcomes \union {"none"}]
        /\ primary' \in [Ops -> {"none", "error", "interrupted"}]
        /\ \A p \in Ops : primary'[p] = primary[p] \/ op[p] = "calling"
    BY <1>1, CallEndsParts DEF IndInv
  <1> QED BY <1>1, <1>2, <1>3, <1>4, CallReleases

\* A call cancelled after it was sent keeps its slot as an orphan, unless it was a single one.
LEMMA UnwindSentInv == ASSUME IndInv, NEW r \in Requests, UnwindSent(r) PROVE IndInv' /\ StepOK
  <1>1. /\ r[2] # 0 /\ cancel[r] /\ st[r] \in {"sending", "waiting"} /\ CallEnds(r, FALSE)
        /\ UNCHANGED <<backoff, op, kind, width, timedOut, lost, server>>
    BY DEF UnwindSent
  <1>4. /\ cancel' = [cancel EXCEPT ![r] = FALSE]
        /\ fut' \in [Requests -> Outcomes \union {"none"}]
        /\ primary' \in [Ops -> {"none", "error", "interrupted"}]
        /\ \A p \in Ops : primary'[p] = primary[p] \/ op[p] = "calling"
    BY <1>1, CallEndsParts DEF IndInv
  <1>2. CASE kind[r[1]] = "single"
    <2>1. Release(1, [st EXCEPT ![r] = "done"]) /\ st[r] \in Owners
      BY <1>1, <1>2 DEF UnwindSent, Owners
    <2>2. op[r[1]] = "draining" /\ server' \in [Requests -> {"none", "running", "answered"}]
      BY <1>1, <1>2 DEF IndInv, TypeOK, RequestOK, CallOK
    <2> QED BY <1>1, <1>2, <1>4, <2>1, <2>2, CallReleases
  <1>3. CASE kind[r[1]] # "single"
    <2>1. st' = [st EXCEPT ![r] = "orphaned"] /\ UNCHANGED slots
      BY <1>3 DEF UnwindSent, Keep
    <2>3. /\ st'[r] = "orphaned" /\ cancel'[r] = FALSE
          /\ \A q \in Requests : q # r => st'[q] = st[q] /\ cancel'[q] = cancel[q]
      BY <2>1, <1>4 DEF IndInv, TypeOK
    <2>4. LimiterInv' /\ Turn
      BY <1>1, <2>1, <2>3, KeepStep DEF IndInv, Owners
    <2>5. TypeOK'
      <3>1. \A q \in Requests : cancel'[q] => st'[q] \in InFlight
        BY <2>3 DEF IndInv, TypeOK
      <3> QED BY <1>1, <2>1, <1>4, <3>1 DEF IndInv, TypeOK, slots, backoff
    <2>6. ASSUME NEW q \in Requests PROVE RequestOK(q)'
      <3>1. CASE q # r
        BY <1>1, <1>4, <2>3, <3>1, RequestParts, Bystander DEF IndInv
      <3>2. CASE q = r
        BY <1>1, <1>3, <2>3, <3>2, RequestParts DEF IndInv, TypeOK, RequestOK, CallOK
      <3> QED BY <3>1, <3>2
    <2>7. Sent /\ Left
      BY <1>1, <2>3 DEF Sent, Left
    <2> QED BY <2>4, <2>5, <2>6, <2>7 DEF IndInv, StepOK
  <1> QED BY <1>2, <1>3

\* A call cancelled in the queue leaves it.
LEMMA UnwindQueuedInv == ASSUME IndInv, NEW r \in Requests, UnwindQueued(r) PROVE IndInv' /\ StepOK
  <1>1. /\ r[2] # 0 /\ cancel[r] /\ st[r] = "queued" /\ CallEnds(r, FALSE) /\ Remove(r)
        /\ st' = [st EXCEPT ![r] = "done"]
        /\ UNCHANGED <<limit, active, failures, cooldown, op, kind, width, timedOut, lost, server>>
    BY DEF UnwindQueued, backoff
  <1>2. /\ cancel' = [cancel EXCEPT ![r] = FALSE]
        /\ fut' \in [Requests -> Outcomes \union {"none"}]
        /\ primary' \in [Ops -> {"none", "error", "interrupted"}]
        /\ \A p \in Ops : primary'[p] = primary[p] \/ op[p] = "calling"
    BY <1>1, CallEndsParts DEF IndInv
  <1>3. /\ st'[r] = "done" /\ cancel'[r] = FALSE
        /\ \A q \in Requests : q # r => st'[q] = st[q] /\ cancel'[q] = cancel[q]
    BY <1>1, <1>2 DEF IndInv, TypeOK
  <1>4. LimiterInv' /\ waiters' \in Seq(Requests) /\ st' \in [Requests -> States]
    BY <1>1, <1>3, RemoveLimiter DEF IndInv
  <1>5. TypeOK'
    <2>1. \A q \in Requests : cancel'[q] => st'[q] \in InFlight
      BY <1>3 DEF IndInv, TypeOK
    <2> QED BY <1>1, <1>2, <1>4, <2>1 DEF IndInv, TypeOK, States
  <1>6. ASSUME NEW q \in Requests PROVE RequestOK(q)'
    <2>1. CASE q # r
      BY <1>1, <1>2, <1>3, <2>1, RequestParts, Bystander DEF IndInv
    <2>2. CASE q = r
      BY <1>1, <1>3, <2>2, RequestParts DEF IndInv, TypeOK, RequestOK, CallOK
    <2> QED BY <2>1, <2>2
  <1>7. Turn /\ Sent /\ Left
    <2>1. active' = active /\ active \in Int /\ \A j \in DOMAIN waiters : waiters[j] \in Requests
      BY <1>1 DEF IndInv, TypeOK
    <2>2. \A j \in DOMAIN waiters : Live(waiters[j]) => st'[waiters[j]] # "granted"
      BY <1>3, <2>1 DEF Live
    <2> QED BY <1>1, <1>3, <2>1, <2>2 DEF Turn, Sent, Left
  <1> QED BY <1>4, <1>5, <1>6, <1>7 DEF IndInv, StepOK

\* A call is admitted or queued, or refused by the cooldown.
LEMMA StartCallInv == ASSUME IndInv, NEW r \in Requests, StartCall(r) PROVE IndInv' /\ StepOK
  <1>1. /\ r[2] # 0 /\ op[r[1]] = "calling" /\ r \in CallsOf(r[1]) /\ st[r] = "new"
        /\ UNCHANGED <<failures, cooldown, op, kind, width, timedOut, lost, server>>
    BY DEF StartCall, backoff
  <1>2. kind[r[1]] = "single" => r[2] = 1
    BY <1>1, CallsOfParts, RequestParts
  <1>3. ~cancel[r] /\ server[r] # "running" /\ r[1] \in Ops
    BY <1>1, RequestParts DEF IndInv, TypeOK, RequestOK, CallOK, InFlight
  <1>4. CASE Open
    <2>1. Acquire(r) /\ UNCHANGED <<limit, primary, cancel, fut>>
      BY <1>4 DEF StartCall
    <2>2. /\ LimiterInv'
          /\ waiters' \in Seq(Requests)
          /\ st' \in [Requests -> States]
          /\ \A q \in Requests : q # r => st'[q] = st[q]
          /\ st'[r] \in {"queued", "sending"}
          /\ active' > active => active' <= limit'
          /\ st'[r] = "sending" => \A q \in Requests : ~Live(q)
      BY <1>1, <2>1, AcquireLimiter DEF IndInv
    <2>3. active' \in 0..Cardinality(Requests)
      BY <2>2, RequestsFinite DEF LimiterInv, SlotsConserved
    <2>4. TypeOK'
      BY <1>1, <2>1, <2>2, <2>3 DEF IndInv, TypeOK, States, InFlight
    <2>5. ASSUME NEW q \in Requests PROVE RequestOK(q)'
      <3>1. CASE q # r
        BY <1>1, <2>1, <2>2, <3>1, Bystander DEF IndInv
      <3>2. CASE q = r
        <4>1. RequestOK(r)
          BY DEF IndInv
        <4>2. CallOK(r)'
          BY <1>1, <1>2, <1>3, <2>1, <2>2, <4>1 DEF RequestOK, CallOK, InFlight
        <4> QED BY <1>1, <3>2, <4>1, <4>2 DEF RequestOK
      <3> QED BY <3>1, <3>2
    <2>6. Turn
      <3>1. \A j \in DOMAIN waiters : waiters[j] \in Requests
        BY DEF IndInv, TypeOK
      <3>2. \A j \in DOMAIN waiters : Live(waiters[j]) => st'[waiters[j]] # "granted"
        BY <1>1, <2>2, <3>1 DEF Live
      <3> QED BY <2>2, <3>2 DEF Turn
    <2>7. Sent /\ Left
      BY <1>1, <1>4, <2>2 DEF Sent, Left
    <2> QED BY <2>2, <2>4, <2>5, <2>6, <2>7 DEF IndInv, StepOK
  <1>5. CASE ~Open
    <2>1. st' = [st EXCEPT ![r] = "done"] /\ UNCHANGED slots /\ CallEnds(r, FALSE)
      BY <1>5 DEF StartCall, Keep
    <2>2. /\ cancel' = [cancel EXCEPT ![r] = FALSE]
          /\ fut' \in [Requests -> Outcomes \union {"none"}]
          /\ primary' \in [Ops -> {"none", "error", "interrupted"}]
          /\ \A p \in Ops : primary'[p] = primary[p] \/ op[p] = "calling"
      BY <2>1, CallEndsParts DEF IndInv
    <2>3. /\ st'[r] = "done" /\ cancel'[r] = FALSE
          /\ \A q \in Requests : q # r => st'[q] = st[q] /\ cancel'[q] = cancel[q]
      BY <2>1, <2>2 DEF IndInv, TypeOK
    <2>4. LimiterInv' /\ Turn
      BY <1>1, <2>1, <2>3, KeepStep DEF IndInv, Owners
    <2>5. TypeOK'
      <3>1. \A q \in Requests : cancel'[q] => st'[q] \in InFlight
        BY <2>3 DEF IndInv, TypeOK
      <3> QED BY <1>1, <2>1, <2>2, <3>1 DEF IndInv, TypeOK, slots
    <2>6. ASSUME NEW q \in Requests PROVE RequestOK(q)'
      <3>1. CASE q # r
        BY <1>1, <2>2, <2>3, <3>1, RequestParts, Bystander DEF IndInv
      <3>2. CASE q = r
        BY <1>1, <1>2, <1>3, <2>3, <3>2 DEF IndInv, RequestOK, CallOK
      <3> QED BY <3>1, <3>2
    <2>7. Sent /\ Left
      BY <1>1, <2>3 DEF Sent, Left
    <2> QED BY <2>4, <2>5, <2>6, <2>7 DEF IndInv, StepOK
  <1> QED BY <1>4, <1>5

\* A login is admitted or queued, or refused by the cooldown.
LEMMA StartLoginInv == ASSUME IndInv, NEW o \in Ops, StartLogin(o) PROVE IndInv' /\ StepOK
  <1> DEFINE r == Login(o)
  <1>1. /\ op[o] = "connecting" /\ UNCHANGED <<failures, cooldown, kind, width, timedOut, lost, cancel, fut, server>>
    BY DEF StartLogin, backoff
  <1>2. r \in Requests /\ r[1] = o /\ r[2] = 0 /\ st[r] = "new" /\ ~cancel[r] /\ server[r] # "running"
    BY <1>1, RequestParts DEF IndInv, RequestOK, LoginOK
  <1> HIDE DEF r
  <1>3. CASE Open
    <2>1. Acquire(r) /\ op' = [op EXCEPT ![o] = "login"] /\ UNCHANGED <<limit, primary>>
      BY <1>3 DEF StartLogin, r
    <2>2. /\ LimiterInv'
          /\ waiters' \in Seq(Requests)
          /\ st' \in [Requests -> States]
          /\ \A q \in Requests : q # r => st'[q] = st[q]
          /\ st'[r] \in {"queued", "sending"}
          /\ active' > active => active' <= limit'
          /\ st'[r] = "sending" => \A q \in Requests : ~Live(q)
      BY <1>1, <1>2, <2>1, AcquireLimiter DEF IndInv
    <2>3. active' \in 0..Cardinality(Requests)
      BY <2>2, RequestsFinite DEF LimiterInv, SlotsConserved
    <2>4. TypeOK'
      BY <1>1, <1>2, <2>1, <2>2, <2>3 DEF IndInv, TypeOK, States, InFlight
    <2>5. ASSUME NEW q \in Requests PROVE RequestOK(q)'
      <3>1. CASE q[1] # o
        BY <1>1, <1>2, <2>1, <2>2, <3>1, RequestParts, Bystander DEF IndInv, TypeOK
      <3>2. CASE q = r
        BY <1>1, <1>2, <2>1, <2>2, <3>2 DEF IndInv, TypeOK, RequestOK, LoginOK, InFlight
      <3>3. CASE q[1] = o /\ q # r
        <4>1. q[2] # 0
          BY <3>3, RequestParts DEF r
        <4>2. RequestOK(q) /\ st'[q] = st[q]
          BY <2>2, <3>3 DEF IndInv
        <4> QED BY <1>1, <2>1, <3>3, <4>1, <4>2 DEF IndInv, TypeOK, RequestOK, CallOK, InFlight
      <3> QED BY <3>1, <3>2, <3>3
    <2>6. Turn
      <3>1. \A j \in DOMAIN waiters : waiters[j] \in Requests
        BY DEF IndInv, TypeOK
      <3>2. \A j \in DOMAIN waiters : Live(waiters[j]) => st'[waiters[j]] # "granted"
        BY <1>2, <2>2, <3>1 DEF Live
      <3> QED BY <2>2, <3>2 DEF Turn
    <2>7. Sent /\ Left
      BY <1>2, <1>3, <2>1, <2>2 DEF Sent, Left, IndInv, TypeOK
    <2> QED BY <2>2, <2>4, <2>5, <2>6, <2>7 DEF IndInv, StepOK
  <1>4. CASE ~Open
    <2>1. /\ op' = [op EXCEPT ![o] = "settling"] /\ primary' = [primary EXCEPT ![o] = "error"]
          /\ UNCHANGED <<slots, st>>
      BY <1>4 DEF StartLogin, LoginEnds
    <2>2. TypeOK'
      BY <1>1, <2>1 DEF IndInv, TypeOK, slots
    <2>3. ASSUME NEW q \in Requests PROVE RequestOK(q)'
      BY <1>1, <2>1, RequestParts DEF IndInv, TypeOK, RequestOK, LoginOK, CallOK, InFlight
    <2> QED BY <1>1, <2>1, <2>2, <2>3, QuietStep DEF IndInv, TypeOK
  <1> QED BY <1>3, <1>4

\* Steps of one request that keeps its slot: it moves among the states of an owner.
LEMMA MoveStep ==
  ASSUME IndInv, NEW r \in Requests, NEW s \in Owners, st[r] \in Owners, st' = [st EXCEPT ![r] = s],
         s = "sending" /\ st[r] = "granted" => Open, cancel[r] => s \in InFlight,
         UNCHANGED <<slots, kind, width, lost, cancel, fut>>,
         \A q \in Requests : q # r => server'[q] = server[q],
         server' \in [Requests -> {"none", "running", "answered"}],
         \A p \in Ops : p # r[1] => op'[p] = op[p] /\ primary'[p] = primary[p],
         \A q \in Requests : q # r /\ q[1] = r[1] => RequestOK(q)', RequestOK(r)',
         op' \in [Ops -> {"idle", "connecting", "login", "calling", "draining", "settling", "closing"}],
         primary' \in [Ops -> {"none", "error", "interrupted"}], timedOut' \in [Ops -> BOOLEAN],
         op[r[1]] = "settling" => op'[r[1]] # "closing",
         UNCHANGED backoff \/ NoteBusy
  PROVE  IndInv' /\ StepOK
  <1>1. st'[r] = s /\ \A q \in Requests : q # r => st'[q] = st[q]
    BY DEF IndInv, TypeOK
  <1>2. LimiterInv' /\ Turn
    BY <1>1, KeepStep DEF IndInv, Owners
  <1>3. failures' \in 0..MaxFailures /\ cooldown' \in 0..MaxDelay
    BY BackoffTypes DEF IndInv
  <1>4. TypeOK'
    <2>1. \A q \in Requests : cancel'[q] => st'[q] \in InFlight
      BY <1>1 DEF IndInv, TypeOK
    <2> QED BY <1>3, <2>1 DEF IndInv, TypeOK, slots, Owners, InFlight
  <1>5. ASSUME NEW q \in Requests, q[1] # r[1] PROVE RequestOK(q)'
    BY <1>1, <1>5, RequestParts, Bystander DEF IndInv
  <1>6. Sent /\ Left
    BY <1>1, RequestParts DEF Sent, Left, Owners
  <1> QED BY <1>2, <1>4, <1>5, <1>6 DEF IndInv, StepOK

\* A frame is out.
LEMMA SendDoneInv == ASSUME IndInv, NEW r \in Requests, SendDone(r) PROVE IndInv' /\ StepOK
  <1>1. /\ st[r] = "sending" /\ ~cancel[r] /\ st' = [st EXCEPT ![r] = "waiting"]
        /\ UNCHANGED <<slots, backoff, op, kind, width, primary, timedOut, lost, cancel, fut, server>>
    BY DEF SendDone, Keep, operation
  <1>2. st'[r] = "waiting" /\ \A q \in Requests : q # r => st'[q] = st[q]
    BY <1>1 DEF IndInv, TypeOK
  <1>3. \A q \in Requests : q # r => RequestOK(q)'
    BY <1>1, <1>2, Bystander DEF IndInv
  <1>4. RequestOK(r)'
    BY <1>1, <1>2 DEF IndInv, RequestOK, LoginOK, CallOK, InFlight
  <1> QED BY <1>1, <1>3, <1>4, RequestParts, MoveStep DEF IndInv, TypeOK, Owners

\* A heartbeat is answered during the login.
LEMMA PingInv == ASSUME IndInv, NEW o \in Ops, Ping(o) PROVE IndInv' /\ StepOK
  <1> DEFINE r == Login(o)
  <1>1. /\ op[o] = "login" /\ st[r] = "waiting" /\ st' = [st EXCEPT ![r] = "sending"]
        /\ UNCHANGED <<slots, backoff, op, kind, width, primary, timedOut, lost, cancel, fut, server>>
    BY DEF Ping, Keep, operation
  <1>2. r \in Requests /\ r[1] = o /\ r[2] = 0
    BY RequestParts
  <1> HIDE DEF r
  <1>3. st'[r] = "sending" /\ \A q \in Requests : q # r => st'[q] = st[q]
    BY <1>1, <1>2 DEF IndInv, TypeOK
  <1>4. \A q \in Requests : q # r => RequestOK(q)'
    BY <1>1, <1>3, Bystander DEF IndInv
  <1>5. RequestOK(r)'
    BY <1>1, <1>2, <1>3 DEF IndInv, RequestOK, LoginOK, InFlight
  <1> QED BY <1>1, <1>2, <1>4, <1>5, MoveStep DEF IndInv, TypeOK, Owners, InFlight

\* The login is given up; its slot stays with it until the close.
LEMMA GraceOverInv == ASSUME IndInv, NEW o \in Ops, GraceOver(o) PROVE IndInv' /\ StepOK
  <1> DEFINE r == Login(o)
  <1>1. /\ op[o] = "settling" /\ st[r] = "waiting" /\ st' = [st EXCEPT ![r] = "abandoned"]
        /\ UNCHANGED <<slots, backoff, op, kind, width, primary, timedOut, lost, cancel, fut, server>>
    BY DEF GraceOver, Settles, Keep, operation
  <1>2. r \in Requests /\ r[1] = o /\ r[2] = 0
    BY RequestParts
  <1> HIDE DEF r
  <1>3. st'[r] = "abandoned" /\ \A q \in Requests : q # r => st'[q] = st[q]
    BY <1>1, <1>2 DEF IndInv, TypeOK
  <1>4. ~cancel[r]
    BY <1>1, <1>2 DEF IndInv, RequestOK, LoginOK
  <1>5. \A q \in Requests : q # r => RequestOK(q)'
    BY <1>1, <1>3, Bystander DEF IndInv
  <1>6. RequestOK(r)'
    BY <1>1, <1>2, <1>3, <1>4 DEF IndInv, RequestOK, LoginOK
  <1> QED BY <1>1, <1>2, <1>4, <1>5, <1>6, MoveStep DEF IndInv, TypeOK, Owners

\* The calls of an operation whose login has just ended: none has started.
LEMMA SiblingCall ==
  ASSUME IndInv, NEW q \in Requests, NEW o \in Ops, q[1] = o, q # Login(o), op[o] = "login",
         op'[o] \in {"login", "settling", "calling"}, st'[q] = st[q] \/ (Live(q) /\ st'[q] = "granted"),
         cancel'[q] = cancel[q], server'[q] = server[q], kind'[o] = kind[o], lost'[o] = lost[o]
  PROVE  RequestOK(q)'
  <1>1. q[2] # 0
    BY RequestParts
  <1>2. /\ CallOK(q) /\ (lost[o] => server[q] # "running")
        /\ kind[o] \in {"inventory", "batch", "single"} /\ (cancel[q] => st[q] \in InFlight)
    BY <1>1 DEF IndInv, RequestOK, TypeOK
  <1>3. st'[q] = "new" /\ ~cancel'[q] /\ server'[q] = "none"
    BY <1>2 DEF CallOK, Live, InFlight
  <1> QED BY <1>1, <1>2, <1>3 DEF RequestOK, CallOK

\* The login ends and gives its slot back.
LEMMA LoginReleases ==
  ASSUME IndInv, NEW o \in Ops, op[o] = "login", st[Login(o)] \in Owners,
         Release(1, [st EXCEPT ![Login(o)] = "done"]),
         NEW s \in {"settling", "calling"}, op' = [op EXCEPT ![o] = s],
         primary' \in [Ops -> {"none", "error", "interrupted"}],
         \A p \in Ops : p # o => primary'[p] = primary[p],
         cancel' = [cancel EXCEPT ![Login(o)] = FALSE],
         \A q \in Requests : q # Login(o) => server'[q] = server[q],
         server' \in [Requests -> {"none", "running", "answered"}], server'[Login(o)] # "running",
         UNCHANGED <<backoff, kind, width, timedOut, lost, fut>>
  PROVE  IndInv' /\ StepOK
  <1> DEFINE r == Login(o)
  <1>1. r \in Requests /\ r[1] = o /\ r[2] = 0
    BY RequestParts
  <1>2. ~cancel'[r]
    BY <1>1 DEF IndInv, TypeOK
  <1>3. \A q \in Requests : q # r => cancel'[q] = cancel[q]
    BY <1>1 DEF IndInv, TypeOK
  <1>4. /\ LimiterInv' /\ Turn
        /\ limit' = limit /\ waiters' \in Seq(Requests) /\ st' \in [Requests -> States]
        /\ st'[r] = "done"
        /\ \A q \in Requests : q # r => st'[q] = st[q] \/ (Live(q) /\ st'[q] = "granted")
    <2>1. \A q \in Requests : st[q] = "queued" => cancel'[q] = cancel[q]
      BY <1>3 DEF Owners
    <2> HIDE DEF r
    <2>2. st[r] \in Owners /\ Release(1, [st EXCEPT ![r] = "done"])
      BY DEF r
    <2> QED BY <1>1, <2>1, <2>2, ReleaseStep DEF IndInv
  <1>5. active' \in 0..Cardinality(Requests)
    BY <1>4, RequestsFinite DEF LimiterInv, SlotsConserved
  <1>6. op'[o] = s /\ \A p \in Ops : p # o => op'[p] = op[p]
    BY DEF IndInv, TypeOK
  <1>7. TypeOK'
    <2>1. cancel' \in [Requests -> BOOLEAN]
      BY DEF IndInv, TypeOK
    <2>2. \A q \in Requests : cancel'[q] => st'[q] \in InFlight
      BY <1>2, <1>3, <1>4 DEF IndInv, TypeOK, InFlight
    <2>3. op' \in [Ops -> {"idle", "connecting", "login", "calling", "draining", "settling", "closing"}]
      BY DEF IndInv, TypeOK
    <2> QED BY <1>4, <1>5, <2>1, <2>2, <2>3 DEF IndInv, TypeOK, States, backoff
  <1>8. ASSUME NEW q \in Requests PROVE RequestOK(q)'
    <2>1. CASE q[1] # o
      BY <1>1, <1>3, <1>4, <1>6, <2>1, RequestParts, Bystander DEF IndInv
    <2>2. CASE q = r
      BY <1>1, <1>2, <1>4, <1>6, <2>2 DEF RequestOK, LoginOK
    <2>3. CASE q[1] = o /\ q # r
      <3>1. /\ q # Login(o) /\ cancel'[q] = cancel[q] /\ (st'[q] = st[q] \/ (Live(q) /\ st'[q] = "granted"))
            /\ op'[o] \in {"login", "settling", "calling"}
        BY <1>3, <1>4, <1>6, <2>3
      <3> QED BY <2>3, <3>1, SiblingCall
    <2> QED BY <2>1, <2>2, <2>3
  <1>9. Sent /\ Left
    BY <1>1, <1>4, <1>6 DEF Sent, Left
  <1> QED BY <1>4, <1>7, <1>8, <1>9 DEF IndInv, StepOK

\* A queued request runs: it is sent, or gives its slot back while backing off.
LEMMA ResumeInv == ASSUME IndInv, NEW r \in Requests, Resume(r) PROVE IndInv' /\ StepOK
  <1>1. /\ st[r] = "granted" /\ ~cancel[r] /\ UNCHANGED <<backoff, kind, width, timedOut, lost, server>>
    BY DEF Resume
  <1>2. st[r] \in Owners /\ r[1] \in Ops
    BY <1>1, RequestParts DEF Owners
  <1>3. CASE Open /\ Keep([st EXCEPT ![r] = "sending"]) /\ UNCHANGED <<op, primary, cancel, fut>>
    <2>1. st' = [st EXCEPT ![r] = "sending"] /\ UNCHANGED slots
      BY <1>3 DEF Keep
    <2>2. st'[r] = "sending" /\ \A q \in Requests : q # r => st'[q] = st[q]
      BY <2>1 DEF IndInv, TypeOK
    <2>3. \A q \in Requests : q # r => RequestOK(q)'
      BY <1>1, <1>3, <2>2, Bystander DEF IndInv
    <2>4. RequestOK(r)'
      BY <1>1, <1>3, <2>2 DEF IndInv, RequestOK, LoginOK, CallOK, InFlight
    <2> QED BY <1>1, <1>2, <1>3, <2>1, <2>3, <2>4, RequestParts, MoveStep DEF IndInv, TypeOK, Owners
  <1>4. CASE /\ ~Open /\ Release(1, [st EXCEPT ![r] = "done"])
             /\ r[2] = 0 /\ LoginEnds(r[1], "error") /\ UNCHANGED <<cancel, fut>>
    <2>1. r = Login(r[1])
      BY <1>4, RequestParts
    <2>6. op[r[1]] = "login" /\ server[r] # "running"
      <3>1. LoginOK(r) /\ op[r[1]] \in {"idle", "connecting", "login", "calling", "draining", "settling", "closing"}
        BY <1>2, <1>4 DEF IndInv, TypeOK, RequestOK
      <3> QED BY <1>1, <3>1 DEF LoginOK
    <2>2. op' = [op EXCEPT ![r[1]] = "settling"] /\ primary' = [primary EXCEPT ![r[1]] = "error"]
      BY <1>4 DEF LoginEnds
    <2>3. cancel' = [cancel EXCEPT ![r] = FALSE]
      <3>1. cancel \in [Requests -> BOOLEAN] /\ cancel[r] = FALSE
        BY <1>1 DEF IndInv, TypeOK
      <3> QED BY <1>4, <3>1
    <2>4. /\ primary' \in [Ops -> {"none", "error", "interrupted"}]
          /\ \A p \in Ops : p # r[1] => primary'[p] = primary[p]
          /\ server' \in [Requests -> {"none", "running", "answered"}] /\ server'[r] # "running"
          /\ \A q \in Requests : q # r => server'[q] = server[q]
      BY <1>1, <2>6, <2>2 DEF IndInv, TypeOK
    <2> DEFINE o == r[1]
    <2> HIDE DEF o
    <2>5. /\ o \in Ops /\ op[o] = "login" /\ st[Login(o)] \in Owners
          /\ Release(1, [st EXCEPT ![Login(o)] = "done"]) /\ op' = [op EXCEPT ![o] = "settling"]
          /\ primary' \in [Ops -> {"none", "error", "interrupted"}]
          /\ \A p \in Ops : p # o => primary'[p] = primary[p]
          /\ cancel' = [cancel EXCEPT ![Login(o)] = FALSE] /\ server'[Login(o)] # "running"
          /\ \A q \in Requests : q # Login(o) => server'[q] = server[q]
          /\ server' \in [Requests -> {"none", "running", "answered"}]
          /\ UNCHANGED <<backoff, kind, width, timedOut, lost, fut>>
      BY <1>1, <1>2, <1>4, <2>1, <2>2, <2>3, <2>4, <2>6 DEF o
    <2> QED BY <2>5, LoginReleases
  <1>5. CASE /\ ~Open /\ Release(1, [st EXCEPT ![r] = "done"])
             /\ r[2] # 0 /\ CallEnds(r, FALSE) /\ UNCHANGED op
    <2>1. server'[r] # "running" /\ server' \in [Requests -> {"none", "running", "answered"}]
      BY <1>1, <1>5 DEF IndInv, TypeOK, RequestOK, CallOK
    <2>2. /\ cancel' = [cancel EXCEPT ![r] = FALSE]
          /\ fut' \in [Requests -> Outcomes \union {"none"}]
          /\ primary' \in [Ops -> {"none", "error", "interrupted"}]
          /\ \A p \in Ops : primary'[p] = primary[p] \/ op[p] = "calling"
      BY <1>5, CallEndsParts DEF IndInv
    <2> QED BY <1>1, <1>2, <1>5, <2>1, <2>2, CallReleases
  <1> QED BY <1>3, <1>4, <1>5 DEF Resume

\* A reply: an orphan's slot is released.
LEMMA ReceiveInv == ASSUME IndInv, NEW r \in Requests, Receive(r) PROVE IndInv' /\ StepOK
  <1>1. /\ r[2] # 0 /\ op[r[1]] \in {"calling", "draining"} /\ server[r] = "running"
        /\ server' = [server EXCEPT ![r] = IF st[r] \in {"sending", "waiting"} THEN "answered" ELSE "none"]
        /\ UNCHANGED <<failures, cooldown, backoff, op, kind, width, primary, timedOut, lost, cancel>>
    BY DEF Receive, backoff, operation
  <1>2. fut' \in [Requests -> Outcomes \union {"none"}]
    <2>1. fut \in [Requests -> Outcomes \union {"none"}]
      BY DEF IndInv, TypeOK
    <2>2. UNCHANGED fut \/ \E a \in Outcomes : fut' = [fut EXCEPT ![r] = a]
      BY DEF Receive
    <2> QED BY <2>1, <2>2
  <1>3. /\ server' \in [Requests -> {"none", "running", "answered"}] /\ server'[r] # "running"
        /\ \A q \in Requests : q # r => server'[q] = server[q]
        /\ st[r] \notin {"sending", "waiting"} => server'[r] = "none"
    BY <1>1 DEF IndInv, TypeOK
  <1>4. CASE st[r] = "orphaned"
    <2>1. Release(1, [st EXCEPT ![r] = "done"]) /\ st[r] \in Owners
      BY <1>4 DEF Receive, Owners
    <2>2. cancel' = [cancel EXCEPT ![r] = FALSE]
      <3>1. cancel \in [Requests -> BOOLEAN] /\ ~cancel[r]
        BY <1>4 DEF IndInv, TypeOK, InFlight
      <3> QED BY <1>1, <3>1
    <2>3. primary' \in [Ops -> {"none", "error", "interrupted"}]
      BY <1>1 DEF IndInv, TypeOK
    <2> QED BY <1>1, <1>2, <1>3, <1>4, <2>1, <2>2, <2>3, CallReleases
  <1>5. CASE st[r] # "orphaned"
    <2>1. UNCHANGED <<slots, st>>
      BY <1>5 DEF Receive, Keep
    <2>2. TypeOK'
      BY <1>1, <1>2, <1>3, <2>1 DEF IndInv, TypeOK, slots
    <2>3. ASSUME NEW q \in Requests PROVE RequestOK(q)'
      <3>1. CASE q # r
        BY <1>1, <1>3, <2>1, <3>1, Bystander DEF IndInv
      <3>2. CASE q = r
        BY <1>1, <1>3, <2>1, <3>2 DEF IndInv, RequestOK, CallOK
      <3> QED BY <3>1, <3>2
    <2> QED BY <1>1, <2>1, <2>2, <2>3, QuietStep
  <1> QED BY <1>4, <1>5

\* The login ends with its slot: its connection is lost, or it was refused, or the
\* operation was interrupted while it was out.
LEMMA LoginKeeps ==
  ASSUME IndInv, NEW o \in Ops, op[o] = "login", st[Login(o)] \in {"sending", "waiting"},
         NEW s \in {"waiting", "broken", "failed"}, st' = [st EXCEPT ![Login(o)] = s],
         NEW why \in {"error", "interrupted"}, LoginEnds(o, why),
         s = "waiting" => why = "interrupted", s = "failed" => server'[Login(o)] # "running",
         server' = server \/ server' = [server EXCEPT ![Login(o)] = "none"],
         timedOut' \in [Ops -> BOOLEAN], UNCHANGED backoff \/ NoteBusy,
         UNCHANGED <<slots, kind, width, lost, cancel, fut>>
  PROVE  IndInv' /\ StepOK
  <1> DEFINE r == Login(o)
  <1>1. r \in Requests /\ r[1] = o /\ r[2] = 0
    BY RequestParts
  <1>2. op' = [op EXCEPT ![o] = "settling"] /\ primary' = [primary EXCEPT ![o] = why]
    BY DEF LoginEnds
  <1>3. /\ op'[o] = "settling" /\ primary'[o] = why
        /\ \A p \in Ops : p # o => op'[p] = op[p] /\ primary'[p] = primary[p]
        /\ op' \in [Ops -> {"idle", "connecting", "login", "calling", "draining", "settling", "closing"}]
        /\ primary' \in [Ops -> {"none", "error", "interrupted"}]
    BY <1>2 DEF IndInv, TypeOK
  <1>4. /\ st'[r] = s /\ \A q \in Requests : q # r => st'[q] = st[q]
    BY <1>1 DEF IndInv, TypeOK
  <1>5. server' \in [Requests -> {"none", "running", "answered"}] /\ \A q \in Requests : q # r => server'[q] = server[q]
    BY <1>1 DEF IndInv, TypeOK
  <1>6. server'[r] = "running" => server[r] = "running"
    BY <1>1 DEF IndInv, TypeOK
  <1>7. RequestOK(r) /\ ~cancel[r]
    BY <1>1 DEF IndInv, RequestOK, LoginOK
  <1>8. RequestOK(r)'
    BY <1>1, <1>3, <1>4, <1>6, <1>7 DEF RequestOK, LoginOK
  <1>9. ASSUME NEW q \in Requests, q # r, q[1] = o PROVE RequestOK(q)'
    <2>1. q # Login(o) /\ cancel'[q] = cancel[q] /\ st'[q] = st[q] /\ server'[q] = server[q] /\ op'[o] = "settling"
      BY <1>3, <1>4, <1>5, <1>9
    <2> QED BY <1>9, <2>1, SiblingCall
  <1>10. s \in Owners /\ st[r] \in Owners /\ st' = [st EXCEPT ![r] = s] /\ s # "sending"
    BY DEF Owners
  <1> HIDE DEF r
  <1>11. /\ \A p \in Ops : p # r[1] => op'[p] = op[p] /\ primary'[p] = primary[p]
         /\ \A q \in Requests : q # r /\ q[1] = r[1] => RequestOK(q)'
         /\ op[r[1]] = "settling" => op'[r[1]] # "closing"
         /\ s = "sending" /\ st[r] = "granted" => Open
         /\ cancel[r] => s \in InFlight
    BY <1>1, <1>3, <1>7, <1>9, <1>10
  <1> QED BY <1>1, <1>3, <1>5, <1>8, <1>10, <1>11, MoveStep, Zenon

\* The connection is lost during the login.
LEMMA LoginLostInv == ASSUME IndInv, NEW o \in Ops, LoginLost(o) PROVE IndInv' /\ StepOK
  <1>1. /\ op[o] = "login" /\ lost[o] /\ st[Login(o)] \in {"sending", "waiting"} /\ LoginEnds(o, "error")
        /\ st' = [st EXCEPT ![Login(o)] = "failed"]
        /\ UNCHANGED <<slots, backoff, kind, width, timedOut, lost, cancel, fut, server>>
    BY DEF LoginLost, Keep
  <1>2. server[Login(o)] # "running" /\ timedOut' \in [Ops -> BOOLEAN]
    BY <1>1, RequestParts DEF IndInv, TypeOK, RequestOK
  <1> QED BY <1>1, <1>2, LoginKeeps

\* The login is answered.
LEMMA LoginReplyInv == ASSUME IndInv, NEW o \in Ops, LoginReply(o) PROVE IndInv' /\ StepOK
  <1> DEFINE r == Login(o)
  <1>1. /\ op[o] = "login" /\ st[r] = "waiting" /\ server' = [server EXCEPT ![r] = "none"]
        /\ UNCHANGED <<kind, width, timedOut, lost, cancel, fut>>
    BY DEF LoginReply
  <1>2. r \in Requests /\ r[1] = o /\ r[2] = 0
    BY RequestParts
  <1>3. /\ server' \in [Requests -> {"none", "running", "answered"}] /\ server'[r] # "running"
        /\ \A q \in Requests : q # r => server'[q] = server[q]
        /\ timedOut' \in [Ops -> BOOLEAN]
    BY <1>1, <1>2 DEF IndInv, TypeOK
  <1>4. CASE /\ Release(1, [st EXCEPT ![r] = "done"]) /\ UNCHANGED backoff
             /\ \/ op' = [op EXCEPT ![o] = "calling"] /\ UNCHANGED primary
                \/ LoginEnds(o, "error")
    <2>1. cancel' = [cancel EXCEPT ![r] = FALSE]
      <3>1. cancel \in [Requests -> BOOLEAN] /\ ~cancel[r]
        BY <1>1, <1>2 DEF IndInv, TypeOK, RequestOK, LoginOK
      <3> QED BY <1>1, <3>1
    <2>2. st[r] \in Owners
      BY <1>1 DEF Owners
    <2>3. CASE op' = [op EXCEPT ![o] = "calling"] /\ UNCHANGED primary
      <3>1. /\ primary' \in [Ops -> {"none", "error", "interrupted"}]
            /\ \A p \in Ops : p # o => primary'[p] = primary[p]
        BY <2>3 DEF IndInv, TypeOK
      <3> QED BY <1>1, <1>3, <1>4, <2>1, <2>2, <2>3, <3>1, LoginReleases
    <2>4. CASE LoginEnds(o, "error")
      <3>1. op' = [op EXCEPT ![o] = "settling"] /\ primary' = [primary EXCEPT ![o] = "error"]
        BY <2>4 DEF LoginEnds
      <3>2. /\ primary' \in [Ops -> {"none", "error", "interrupted"}]
            /\ \A p \in Ops : p # o => primary'[p] = primary[p]
        BY <3>1 DEF IndInv, TypeOK
      <3> QED BY <1>1, <1>3, <1>4, <2>1, <2>2, <3>1, <3>2, LoginReleases
    <2> QED BY <1>4, <2>3, <2>4
  <1>5. CASE Keep([st EXCEPT ![r] = "failed"]) /\ (NoteBusy \/ UNCHANGED backoff) /\ LoginEnds(o, "error")
    <2>1. st' = [st EXCEPT ![r] = "failed"] /\ UNCHANGED slots
      BY <1>5 DEF Keep
    <2> QED BY <1>1, <1>3, <1>5, <2>1, LoginKeeps
  <1> QED BY <1>4, <1>5 DEF LoginReply

\* The operation's task is cancelled, wherever it is.
LEMMA InterruptInv ==
  ASSUME IndInv, NEW o \in Ops, Interrupt(o), timedOut' \in [Ops -> BOOLEAN] PROVE IndInv' /\ StepOK
  <1> DEFINE r == Login(o)
  <1>1. UNCHANGED <<slots, failures, cooldown, backoff, kind, width, lost, server>>
    BY DEF Interrupt, backoff
  <1>2. r \in Requests /\ r[1] = o /\ r[2] = 0
    BY RequestParts
  <1>3. CASE /\ op[o] = "login" /\ st[r] \in {"queued", "granted"} /\ ~cancel[r]
             /\ cancel' = [cancel EXCEPT ![r] = TRUE]
             /\ UNCHANGED <<op, primary, st, fut>>
    <2>1. /\ cancel' \in [Requests -> BOOLEAN] /\ \A q \in Requests : q # r => cancel'[q] = cancel[q]
      BY <1>3 DEF IndInv, TypeOK
    <2>2. cancel'[r]
      BY <1>2, <1>3 DEF IndInv, TypeOK
    <2>3. TypeOK'
      BY <1>1, <1>3, <2>1 DEF IndInv, TypeOK, slots, InFlight
    <2>4. ASSUME NEW q \in Requests PROVE RequestOK(q)'
      <3>1. CASE q # r
        BY <1>1, <1>3, <2>1, <3>1, Bystander DEF IndInv
      <3>2. CASE q = r
        BY <1>1, <1>2, <1>3, <3>2 DEF IndInv, RequestOK, LoginOK
      <3> QED BY <3>1, <3>2
    <2> QED BY <1>1, <1>3, <2>1, <2>2, <2>3, <2>4, QuietStep
  <1>4. CASE /\ op[o] = "login" /\ st[r] \in {"sending", "waiting"}
             /\ LoginEnds(o, "interrupted")
             /\ st' = [st EXCEPT ![r] = IF @ = "waiting" THEN "waiting" ELSE "broken"]
             /\ UNCHANGED <<cancel, fut>>
    <2> DEFINE s == IF st[r] = "waiting" THEN "waiting" ELSE "broken"
    <2>1. s \in {"waiting", "broken", "failed"} /\ s # "failed" /\ st' = [st EXCEPT ![r] = s]
      BY <1>2, <1>4 DEF IndInv, TypeOK
    <2> HIDE DEF s
    <2> QED BY <1>1, <1>4, <2>1, LoginKeeps
  <1>5. CASE op[o] = "calling" /\ Drain(o, "interrupted") /\ UNCHANGED st
    BY <1>1, <1>5, DrainInv
  <1> QED BY <1>3, <1>4, <1>5 DEF Interrupt

\* By its budget.
LEMMA OpTimeoutInv == ASSUME IndInv, NEW o \in Ops, OpTimeout(o) PROVE IndInv' /\ StepOK
  <1>1. Interrupt(o) /\ timedOut' \in [Ops -> BOOLEAN]
    BY DEF OpTimeout, IndInv, TypeOK
  <1> QED BY <1>1, InterruptInv

\* By its caller.
LEMMA OpCancelledInv == ASSUME IndInv, NEW o \in Ops, OpCancelled(o) PROVE IndInv' /\ StepOK
  <1>1. Interrupt(o) /\ timedOut' \in [Ops -> BOOLEAN]
    BY DEF OpCancelled, IndInv, TypeOK
  <1> QED BY <1>1, InterruptInv

\* A login cancelled in the queue or just as it got its slot.
LEMMA UnwindLoginInv == ASSUME IndInv, NEW o \in Ops, UnwindLogin(o) PROVE IndInv' /\ StepOK
  <1> DEFINE r == Login(o)
  <1>1. /\ cancel[r] /\ cancel' = [cancel EXCEPT ![r] = FALSE]
        /\ op' = [op EXCEPT ![o] = "settling"] /\ primary' = [primary EXCEPT ![o] = "interrupted"]
        /\ UNCHANGED <<failures, cooldown, backoff, kind, width, timedOut, lost, fut, server>>
    BY DEF UnwindLogin, LoginEnds, backoff
  <1>2. r \in Requests /\ r[1] = o /\ r[2] = 0
    BY RequestParts
  <1>3. st[r] \in {"queued", "granted"} /\ op[o] = "login" /\ server[r] # "running"
    <2>1. LoginOK(r) /\ op[o] \in {"idle", "connecting", "login", "calling", "draining", "settling", "closing"}
      BY <1>2 DEF IndInv, TypeOK, RequestOK
    <2> QED BY <1>1, <1>2, <2>1 DEF LoginOK
  <1>4. /\ primary' \in [Ops -> {"none", "error", "interrupted"}]
        /\ \A p \in Ops : p # o => primary'[p] = primary[p] /\ op'[p] = op[p]
        /\ op'[o] = "settling"
        /\ op' \in [Ops -> {"idle", "connecting", "login", "calling", "draining", "settling", "closing"}]
        /\ server' \in [Requests -> {"none", "running", "answered"}]
    BY <1>1 DEF IndInv, TypeOK
  <1>5. CASE st[r] = "granted"
    <2>1. Release(1, [st EXCEPT ![r] = "done"]) /\ st[r] \in Owners
      BY <1>5 DEF UnwindLogin, Owners
    <2> QED BY <1>1, <1>3, <1>4, <2>1, LoginReleases
  <1>6. CASE st[r] = "queued"
    <2>1. Remove(r) /\ st' = [st EXCEPT ![r] = "done"] /\ UNCHANGED <<limit, active>>
      BY <1>6 DEF UnwindLogin
    <2>2. ~cancel'[r]
      BY <1>1, <1>2 DEF IndInv, TypeOK
    <2>3. st'[r] = "done" /\ \A q \in Requests : q # r => st'[q] = st[q] /\ cancel'[q] = cancel[q]
      BY <1>1, <1>2, <2>1 DEF IndInv, TypeOK
    <2>4. LimiterInv' /\ waiters' \in Seq(Requests) /\ st' \in [Requests -> States]
      <3> HIDE DEF r
      <3> QED BY <1>1, <1>2, <1>6, <2>1, <2>3, RemoveLimiter DEF IndInv
    <2>5. TypeOK'
      <3>1. \A q \in Requests : cancel'[q] => st'[q] \in InFlight
        BY <2>2, <2>3 DEF IndInv, TypeOK
      <3>2. cancel' \in [Requests -> BOOLEAN]
        BY <1>1 DEF IndInv, TypeOK
      <3> QED BY <1>1, <1>4, <2>1, <2>4, <3>1, <3>2 DEF IndInv, TypeOK, States
    <2>6. ASSUME NEW q \in Requests PROVE RequestOK(q)'
      <3>1. CASE q[1] # o
        BY <1>1, <1>2, <1>4, <2>3, <3>1, RequestParts, Bystander DEF IndInv
      <3>2. CASE q = r
        BY <1>1, <1>2, <1>3, <1>4, <2>2, <2>3, <3>2 DEF RequestOK, LoginOK
      <3>3. CASE q[1] = o /\ q # r
        <4>1. q # Login(o) /\ cancel'[q] = cancel[q] /\ st'[q] = st[q] /\ server'[q] = server[q] /\ op'[o] = "settling"
          BY <1>1, <1>4, <2>3, <3>3
        <4>2. kind'[o] = kind[o] /\ lost'[o] = lost[o]
          BY <1>1
        <4> QED BY <1>3, <3>3, <4>1, <4>2, SiblingCall
      <3> QED BY <3>1, <3>2, <3>3
    <2>7. Turn /\ Sent /\ Left
      <3>1. active' = active /\ active \in Int /\ \A j \in DOMAIN waiters : waiters[j] \in Requests
        BY <2>1 DEF IndInv, TypeOK
      <3>2. \A j \in DOMAIN waiters : Live(waiters[j]) => st'[waiters[j]] # "granted"
        BY <2>3, <3>1 DEF Live
      <3>3. \A q \in Requests : st'[q] = st[q] \/ st'[q] = "done"
        BY <2>3
      <3> QED BY <1>4, <3>1, <3>2, <3>3 DEF Turn, Sent, Left
    <2> QED BY <2>4, <2>5, <2>6, <2>7 DEF IndInv, StepOK
  <1> QED BY <1>3, <1>5, <1>6

\* The close of a dispatcher gives the slots of all its orphans back at once.
LEMMA CloseDispatcherInv == ASSUME IndInv, NEW o \in Ops, CloseDispatcher(o) PROVE IndInv' /\ StepOK
  <1> DEFINE orphans == {r \in CallsOf(o) : st[r] = "orphaned"}
             states == [r \in Requests |-> IF r \in CallsOf(o) THEN "done" ELSE st[r]]
             H == {r \in Requests : st[r] \in Owners}
             taken == active - Cardinality(orphans)
  <1>1. /\ op[o] = "draining" /\ \A r \in CallsOf(o) : st[r] \notin InFlight
        /\ op' = [op EXCEPT ![o] = "settling"]
        /\ Admit(taken, limit, states) /\ limit' = limit
        /\ server' = [r \in Requests |-> IF r[1] = o THEN "none" ELSE server[r]]
        /\ UNCHANGED <<failures, cooldown, kind, width, primary, timedOut, lost, cancel, fut>>
    BY DEF CloseDispatcher, Release, backoff
  <1>2. /\ CallsOf(o) \in SUBSET Requests
        /\ \A r \in Requests : r \in CallsOf(o) <=> r[1] = o /\ r[2] # 0 /\ (kind[o] = "single" => r[2] = 1)
    BY CallsOfParts
  <1>3. \A r \in CallsOf(o) : st[r] \in {"new", "orphaned", "done"} /\ ~cancel[r]
    <2> SUFFICES ASSUME NEW r \in CallsOf(o) PROVE st[r] \in {"new", "orphaned", "done"} /\ ~cancel[r]
      OBVIOUS
    <2>1. r \in Requests /\ r[1] = o /\ r[2] # 0
      BY <1>2
    <2>2. CallOK(r) /\ (cancel[r] => st[r] \in InFlight)
      BY <2>1 DEF IndInv, TypeOK, RequestOK
    <2> QED BY <1>1, <2>1, <2>2 DEF CallOK
  <1>4. st \in [Requests -> States] /\ limit \in Nat /\ active \in Nat
    BY ClientAssumption, RequestsFinite DEF IndInv, TypeOK, States
  <1>5. /\ states \in [Requests -> States]
        /\ \A r \in Requests : states[r] = IF r \in CallsOf(o) THEN "done" ELSE st[r]
    BY <1>4 DEF States
  <1>6. \A r \in Requests : st[r] = "queued" <=> states[r] = "queued"
    BY <1>3, <1>5
  <1>7. {r \in Requests : states[r] \in Owners} = H \ orphans
    BY <1>2, <1>3, <1>5 DEF Owners
  <1>8. orphans \subseteq H /\ H \subseteq Requests
    BY <1>2 DEF Owners
  <1>9. active = Cardinality(H)
    BY DEF IndInv, LimiterInv, SlotsConserved, Holds, Owners
  <1>10. taken = Cardinality(H \ orphans) /\ taken \in Nat
    <2> HIDE DEF H, orphans
    <2>1. IsFiniteSet(H) /\ H \intersect orphans = orphans
      BY <1>8, RequestsFinite
    <2>2. Cardinality(H \ orphans) = Cardinality(H) - Cardinality(orphans)
      BY <2>1, FS_Difference
    <2>3. H \ orphans \in SUBSET Requests
      BY <1>8
    <2> QED BY <1>9, <2>2, <2>3, RequestsFinite
  <1> HIDE DEF states, H, orphans, taken
  <1>11. /\ LimiterInv'
         /\ st' \in [Requests -> States]
         /\ waiters' \in Seq(Requests)
         /\ \A q \in Requests : st'[q] = states[q] \/ (Live(q) /\ st'[q] = "granted")
         /\ active' > taken => active' <= limit
         /\ \A j \in DOMAIN waiters : \A i \in 1..(j - 1) :
               Live(waiters[j]) /\ st'[waiters[j]] = "granted" /\ Live(waiters[i]) => st'[waiters[i]] = "granted"
    <2>1. taken = Cardinality({r \in Requests : states[r] \in Owners})
      BY <1>7, <1>10
    <2>2. \A r \in Requests : st[r] = "queued" => cancel'[r] = cancel[r]
      BY <1>1
    <2>3. TypeOK /\ LimiterInv
      BY DEF IndInv
    <2> QED BY <1>1, <1>4, <1>5, <1>6, <1>10, <2>1, <2>2, <2>3, AdmitLimiter
  <1>12. active' \in 0..Cardinality(Requests)
    BY <1>11, RequestsFinite DEF LimiterInv, SlotsConserved
  <1>13. \A q \in Requests : /\ q \in CallsOf(o) => st'[q] = "done"
                             /\ q \notin CallsOf(o) => st'[q] = st[q] \/ (Live(q) /\ st'[q] = "granted")
    BY <1>3, <1>5, <1>11 DEF Live
  <1>14. /\ op'[o] = "settling" /\ \A p \in Ops : p # o => op'[p] = op[p]
         /\ op' \in [Ops -> {"idle", "connecting", "login", "calling", "draining", "settling", "closing"}]
    BY <1>1 DEF IndInv, TypeOK
  <1>15. TypeOK'
    <2>1. server' \in [Requests -> {"none", "running", "answered"}]
      BY <1>1 DEF IndInv, TypeOK
    <2>2. \A q \in Requests : cancel'[q] => st'[q] \in InFlight
      BY <1>1, <1>3, <1>13 DEF IndInv, TypeOK, InFlight
    <2> QED BY <1>1, <1>11, <1>12, <1>14, <2>1, <2>2 DEF IndInv, TypeOK, States
  <1>16. ASSUME NEW q \in Requests PROVE RequestOK(q)'
    <2>1. CASE q[1] # o
      <3>1. q \notin CallsOf(o) /\ server'[q] = server[q] /\ op'[q[1]] = op[q[1]]
        BY <1>1, <1>2, <1>14, <2>1, RequestParts
      <3> QED BY <1>1, <1>13, <3>1, Bystander DEF IndInv
    <2>2. CASE q[1] = o /\ q[2] = 0
      <3>1. LoginOK(q) /\ q \notin CallsOf(o)
        BY <1>2, <2>2 DEF IndInv, RequestOK
      <3>2. st[q] = "done" /\ ~cancel[q]
        BY <1>1, <2>2, <3>1 DEF LoginOK
      <3>3. st'[q] = "done" /\ server'[q] = "none" /\ ~cancel'[q]
        BY <1>1, <1>13, <2>2, <3>1, <3>2 DEF Live
      <3> QED BY <1>14, <2>2, <3>3 DEF RequestOK, LoginOK
    <2>3. CASE q[1] = o /\ q[2] # 0
      <3>1. CallOK(q) /\ (cancel[q] => st[q] \in InFlight)
        BY <2>3 DEF IndInv, RequestOK, TypeOK
      <3>2. q \notin CallsOf(o) => st[q] = "new"
        BY <1>2, <2>3, <3>1 DEF CallOK
      <3>3. st'[q] \in {"new", "done"} /\ server'[q] = "none" /\ ~cancel'[q]
        BY <1>1, <1>3, <1>13, <2>3, <3>1, <3>2 DEF Live, InFlight
      <3>4. kind[o] = "single" /\ q[2] # 1 => st'[q] = "new"
        BY <1>2, <1>13, <2>3, <3>2 DEF Live
      <3> QED BY <1>1, <1>14, <2>3, <3>3, <3>4 DEF RequestOK, CallOK
    <2> QED BY <2>1, <2>2, <2>3
  <1>17. Turn /\ Sent /\ Left
    <2>1. Cardinality(orphans) \in Nat /\ active' \in Nat /\ taken <= active
      <3>1. Cardinality(orphans) \in Nat
        BY <1>8, RequestsFinite
      <3> QED BY <1>4, <1>12, <3>1, RequestsFinite DEF taken
    <2>2. active' > active => active' <= limit'
      BY <1>1, <1>4, <1>10, <1>11, <2>1
    <2>3. \A q \in Requests : st'[q] = "sending" => st[q] = "sending"
      BY <1>13
    <2> QED BY <1>11, <1>14, <2>2, <2>3 DEF Turn, Sent, Left
  <1> QED BY <1>11, <1>15, <1>16, <1>17 DEF IndInv, StepOK

\* Only an abandoned login, or one cut in the middle of a frame, can still run on the
\* appliance when the close begins.
LEMMA SettleLoginInv == ASSUME IndInv, NEW o \in Ops, SettleLogin(o) PROVE IndInv' /\ StepOK
  <1> DEFINE r == Login(o)
  <1>1. /\ op[o] = "settling" /\ op' = [op EXCEPT ![o] = "closing"]
        /\ UNCHANGED <<failures, cooldown, kind, width, primary, timedOut, lost, cancel, fut>>
    BY DEF SettleLogin, backoff
  <1>2. r \in Requests /\ r[1] = o /\ r[2] = 0
    BY RequestParts
  <1>3. /\ op'[o] = "closing" /\ \A p \in Ops : p # o => op'[p] = op[p]
        /\ op' \in [Ops -> {"idle", "connecting", "login", "calling", "draining", "settling", "closing"}]
    BY <1>1 DEF IndInv, TypeOK
  <1>4. LoginOK(r) /\ (lost[o] => server[r] # "running") /\ st[r] \in States
    BY <1>2 DEF IndInv, TypeOK, RequestOK, States
  <1>5. ~cancel[r] /\ st[r] \notin {"queued", "granted"}
    BY <1>1, <1>2, <1>4 DEF LoginOK
  <1>6. \/ Settles(o) /\ ~lost[o] /\ server' = [server EXCEPT ![r] = "none"]
        \/ ~(Settles(o) /\ ~lost[o]) /\ server' = server
    BY DEF SettleLogin
  <1>7. /\ server' \in [Requests -> {"none", "running", "answered"}]
        /\ \A q \in Requests : q # r => server'[q] = server[q]
    BY <1>2, <1>6 DEF IndInv, TypeOK
  <1>8. server'[r] = "running" => server[r] = "running" /\ ~(Settles(o) /\ ~lost[o])
    BY <1>2, <1>6 DEF IndInv, TypeOK
  <1>9. server'[r] = "running" => st[r] \in {"abandoned", "broken"}
    BY <1>1, <1>2, <1>4, <1>8 DEF LoginOK, Settles
  <1>10. /\ LimiterInv' /\ Turn
         /\ limit' = limit /\ waiters' \in Seq(Requests) /\ st' \in [Requests -> States]
         /\ st'[r] \in {"new", "done"}
         /\ \A q \in Requests : q # r => st'[q] = st[q] \/ (Live(q) /\ st'[q] = "granted")
    <2>1. Holds(r) <=> st[r] \in Owners
      BY DEF Holds, Owners
    <2>2. TypeOK /\ LimiterInv
      BY DEF IndInv
    <2>3. CASE Holds(r)
      <3>1. Release(1, [st EXCEPT ![r] = "done"])
        BY <2>3 DEF SettleLogin
      <3> HIDE DEF r
      <3> QED BY <1>1, <1>2, <2>1, <2>2, <2>3, <3>1, ReleaseStep
    <2>4. CASE ~Holds(r)
      <3>1. UNCHANGED slots /\ st' = st
        BY <2>4 DEF SettleLogin, Keep
      <3>2. LimiterInv' /\ Turn
        BY <1>1, <2>2, <3>1, KeepStep
      <3>3. st[r] \in {"new", "done"}
        BY <1>1, <1>2, <1>4, <2>1, <2>4 DEF LoginOK, Owners
      <3> QED BY <2>2, <3>1, <3>2, <3>3 DEF TypeOK, slots, States
    <2> QED BY <2>3, <2>4
  <1>11. active' \in 0..Cardinality(Requests)
    BY <1>10, RequestsFinite DEF LimiterInv, SlotsConserved
  <1>12. TypeOK'
    <2>1. \A q \in Requests : cancel'[q] => st'[q] \in InFlight
      BY <1>1, <1>5, <1>10 DEF IndInv, TypeOK, InFlight
    <2> QED BY <1>1, <1>3, <1>7, <1>10, <1>11, <2>1 DEF IndInv, TypeOK, States
  <1>13. ASSUME NEW q \in Requests PROVE RequestOK(q)'
    <2>1. CASE q[1] # o
      BY <1>1, <1>2, <1>3, <1>7, <1>10, <2>1, RequestParts, Bystander DEF IndInv
    <2>2. CASE q = r
      BY <1>1, <1>2, <1>3, <1>4, <1>5, <1>8, <1>10, <2>2 DEF RequestOK, LoginOK
    <2>3. CASE q[1] = o /\ q # r
      <3>1. q[2] # 0 /\ server'[q] = server[q]
        BY <1>7, <2>3, RequestParts
      <3>2. CallOK(q) /\ (cancel[q] => st[q] \in InFlight)
        BY <2>3, <3>1 DEF IndInv, TypeOK, RequestOK
      <3>3. st[q] \in {"new", "done"} /\ server[q] = "none"
        BY <1>1, <2>3, <3>2 DEF CallOK
      <3>4. st'[q] = st[q] /\ ~cancel'[q]
        BY <1>1, <1>10, <2>3, <3>2, <3>3 DEF Live, InFlight
      <3> QED BY <1>1, <1>3, <2>3, <3>1, <3>2, <3>3, <3>4 DEF RequestOK, CallOK
    <2> QED BY <2>1, <2>2, <2>3
  <1>14. Sent
    BY <1>10 DEF Sent
  <1>15. Left
    BY <1>3, <1>9 DEF Left
  <1> QED BY <1>10, <1>12, <1>13, <1>14, <1>15 DEF IndInv, StepOK

\* The operation is over; it holds nothing.
LEMMA ClosedInv == ASSUME IndInv, NEW o \in Ops, Closed(o) PROVE IndInv' /\ StepOK
  <1> DEFINE r == Login(o)
  <1>1. /\ op[o] = "closing" /\ op' = [op EXCEPT ![o] = "idle"]
        /\ kind' = [kind EXCEPT ![o] = "single"] /\ width' = [width EXCEPT ![o] = 0]
        /\ primary' = [primary EXCEPT ![o] = "none"]
        /\ timedOut' = [timedOut EXCEPT ![o] = FALSE] /\ lost' = [lost EXCEPT ![o] = FALSE]
        /\ st' = [q \in Requests |-> IF q[1] = o THEN "new" ELSE st[q]]
        /\ server' = [server EXCEPT ![r] = "none"]
        /\ UNCHANGED <<slots, cancel, fut>> /\ (UNCHANGED backoff \/ NoteBusy)
    BY DEF Closed
  <1>2. r \in Requests /\ r[1] = o /\ r[2] = 0
    BY RequestParts
  <1>3. ASSUME NEW q \in Requests, q[1] = o
        PROVE  st[q] \in {"new", "done"} /\ ~cancel[q] /\ st'[q] = "new" /\ server'[q] = "none"
    <2>1. st[q] \in {"new", "done"}
      BY <1>1, <1>3 DEF IndInv, RequestOK, LoginOK, CallOK
    <2>2. ~cancel[q]
      BY <2>1 DEF IndInv, TypeOK, InFlight
    <2>3. q[2] = 0 => q = r
      BY <1>3, RequestParts
    <2>4. q[2] # 0 => server[q] = "none"
      BY <1>1, <1>3 DEF IndInv, RequestOK, CallOK
    <2>5. server'[q] = "none"
      BY <1>1, <1>2, <2>3, <2>4 DEF IndInv, TypeOK
    <2> QED BY <1>1, <1>3, <2>1, <2>2, <2>5
  <1>4. ASSUME NEW q \in Requests, q[1] # o
        PROVE  st'[q] = st[q] /\ server'[q] = server[q]
    BY <1>1, <1>2, <1>4 DEF IndInv, TypeOK
  <1>5. LimiterInv' /\ Turn
    <2>1. \A q \in Requests : /\ st'[q] \in Owners <=> st[q] \in Owners
                              /\ st'[q] = "queued" <=> st[q] = "queued"
      BY <1>3, <1>4 DEF Owners
    <2> QED BY <1>1, <2>1, KeepStep DEF IndInv
  <1>6. failures' \in 0..MaxFailures /\ cooldown' \in 0..MaxDelay
    BY <1>1, BackoffTypes DEF IndInv
  <1>7. TypeOK'
    <2>1. /\ kind' \in [Ops -> {"inventory", "batch", "single"}] /\ width' \in [Ops -> 0..CallsPerOp]
          /\ primary' \in [Ops -> {"none", "error", "interrupted"}]
          /\ timedOut' \in [Ops -> BOOLEAN] /\ lost' \in [Ops -> BOOLEAN]
      BY <1>1, ClientAssumption DEF IndInv, TypeOK
    <2>2. /\ op' \in [Ops -> {"idle", "connecting", "login", "calling", "draining", "settling", "closing"}]
          /\ server' \in [Requests -> {"none", "running", "answered"}]
      BY <1>1 DEF IndInv, TypeOK
    <2>3. st' \in [Requests -> States]
      BY <1>1 DEF IndInv, TypeOK, States
    <2>4. \A q \in Requests : cancel'[q] => st'[q] \in InFlight
      BY <1>1, <1>3, <1>4 DEF IndInv, TypeOK
    <2> QED BY <1>1, <1>6, <2>1, <2>2, <2>3, <2>4 DEF IndInv, TypeOK, slots, States
  <1>8. ASSUME NEW q \in Requests PROVE RequestOK(q)'
    <2>1. CASE q[1] # o
      <3>1. /\ op'[q[1]] = op[q[1]] /\ kind'[q[1]] = kind[q[1]] /\ primary'[q[1]] = primary[q[1]]
            /\ lost'[q[1]] = lost[q[1]]
        BY <1>1, <2>1, RequestParts DEF IndInv, TypeOK
      <3> QED BY <1>1, <1>4, <2>1, <3>1, Bystander DEF IndInv
    <2>2. CASE q[1] = o
      <3>1. st'[q] = "new" /\ server'[q] = "none" /\ ~cancel'[q] /\ op'[q[1]] = "idle"
        BY <1>1, <1>3, <2>2 DEF IndInv, TypeOK
      <3> QED BY <3>1 DEF RequestOK, LoginOK, CallOK
    <2> QED BY <2>1, <2>2
  <1>9. Sent /\ Left
    <2>1. \A p \in Ops : op[p] = "settling" => op'[p] # "closing"
      BY <1>1 DEF IndInv, TypeOK
    <2>2. \A q \in Requests : st'[q] = "sending" => st[q] = "sending"
      BY <1>3, <1>4
    <2> QED BY <2>1, <2>2 DEF Sent, Left
  <1> QED BY <1>5, <1>7, <1>8, <1>9 DEF IndInv, StepOK

-----------------------------------------------------------------------------
(***************************************************************************)
(* The theorems.                                                           *)
(***************************************************************************)

\* Every step preserves the invariant and does what the action properties ask.
LEMMA NextInv == IndInv /\ Next => IndInv' /\ StepOK
  <1> SUFFICES ASSUME IndInv, Next PROVE IndInv' /\ StepOK
    OBVIOUS
  <1>1. CASE SetLimit \/ Tick
    BY <1>1, SetLimitInv, TickInv
  <1>2. ASSUME NEW o \in Ops,
          \/ Begin(o) \/ ConnectFails(o) \/ StartLogin(o) \/ Ping(o) \/ LoginReply(o) \/ LoginLost(o)
          \/ OpTimeout(o) \/ LateTimeout(o) \/ OpCancelled(o) \/ UnwindLogin(o)
        PROVE IndInv' /\ StepOK
    BY <1>2, BeginInv, ConnectFailsInv, StartLoginInv, PingInv, LoginReplyInv, LoginLostInv, OpTimeoutInv,
       LateTimeoutInv, OpCancelledInv, UnwindLoginInv
  <1>3. ASSUME NEW o \in Ops,
          \/ ConnectionLost(o) \/ CallsFailed(o) \/ CallsReturned(o) \/ CloseDispatcher(o)
          \/ GraceOver(o) \/ SettleLogin(o) \/ Closed(o)
        PROVE IndInv' /\ StepOK
    BY <1>3, ConnectionLostInv, CallsFailedInv, CallsReturnedInv, CloseDispatcherInv, GraceOverInv,
       SettleLoginInv, ClosedInv
  <1>4. ASSUME NEW r \in Requests,
          \/ StartCall(r) \/ Resume(r) \/ SendDone(r) \/ Finish(r) \/ CallTimeout(r)
          \/ UnwindQueued(r) \/ UnwindGranted(r) \/ UnwindSent(r) \/ Receive(r) \/ Deliver(r)
        PROVE IndInv' /\ StepOK
    BY <1>4, StartCallInv, ResumeInv, SendDoneInv, FinishInv, CallTimeoutInv, UnwindQueuedInv, UnwindGrantedInv,
       UnwindSentInv, ReceiveInv, DeliverInv
  <1> QED BY <1>1, <1>2, <1>3, <1>4 DEF Next

\* A stuttering step preserves the invariant.
LEMMA StutterInv == IndInv /\ UNCHANGED vars => IndInv'
  <1> SUFFICES ASSUME IndInv, UNCHANGED vars PROVE IndInv'
    OBVIOUS
  <1>1. UNCHANGED <<slots, failures, cooldown, op, kind, width, primary, timedOut, lost, st, cancel, fut, server>>
    BY DEF vars, backoff, operation, request
  <1>2. LimiterInv'
    BY <1>1, KeepLimiter DEF IndInv
  <1>3. TypeOK' /\ \A q \in Requests : RequestOK(q)'
    BY <1>1 DEF IndInv, TypeOK, slots, RequestOK, LoginOK, CallOK
  <1> QED BY <1>2, <1>3 DEF IndInv

\* The invariant holds in every reachable state.
LEMMA Invariance == Spec => []IndInv
  BY InitInv, NextInv, StutterInv, PTL DEF Spec

\* The limiter, its backoff, the operations and the requests keep their types: the
\* cooldown never exceeds max_delay_seconds and only requests in flight are cancelled.
THEOREM TypeCorrect == Spec => []TypeOK
  <1>1. IndInv => TypeOK
    BY DEF IndInv
  <1> QED BY <1>1, Invariance, PTL

\* No slot is leaked or released twice, whatever is cancelled, times out or fails.
THEOREM SlotSafety == Spec => []SlotsConserved
  <1>1. IndInv => SlotsConserved
    BY DEF IndInv, LimiterInv
  <1> QED BY <1>1, Invariance, PTL

\* No wakeup is lost: a request waits only while every slot is taken, and the limiter
\* has not forgotten it.
THEOREM QueueSafety == Spec => []QueuedForAReason
  <1>1. IndInv => QueuedForAReason
    BY DEF IndInv, LimiterInv
  <1> QED BY <1>1, Invariance, PTL

\* Whatever the appliance runs of a connection in use holds a slot.
THEOREM BudgetSafety == Spec => []RunningHoldsSlot
  <1>1. IndInv => RunningHoldsSlot
    <2> SUFFICES ASSUME IndInv, NEW r \in Requests, server[r] = "running",
                        op[r[1]] \in {"login", "calling"} \union (IF kind[r[1]] = "single" THEN {} ELSE {"draining"})
                 PROVE  Holds(r)
      BY DEF RunningHoldsSlot
    <2>1. RequestOK(r)
      BY DEF IndInv
    <2>2. CASE r[2] = 0
      BY <2>1, <2>2 DEF RequestOK, LoginOK, Holds
    <2>3. CASE r[2] # 0
      BY <2>1, <2>3 DEF RequestOK, CallOK, Holds
    <2> QED BY <2>2, <2>3
  <1> QED BY <1>1, Invariance, PTL

\* While backing off nothing new is sent, also by requests that were queued before.
THEOREM CooldownSafety == Spec => NothingSentWhileCooling
  <1>1. IndInv /\ [Next]_vars =>
          [\A r \in Requests : st[r] \in {"new", "queued", "granted"} /\ st'[r] = "sending" => Open]_vars
    BY NextInv DEF StepOK, Sent
  <1> QED BY <1>1, Invariance, PTL DEF Spec, NothingSentWhileCooling

\* Slots are given up to the limit in force, and in the order of the queue.
THEOREM TurnSafety == Spec => AdmissionInTurn
  <1>1. IndInv /\ [Next]_vars =>
          [/\ active' > active => active' <= limit'
           /\ \A j \in DOMAIN waiters : \A i \in 1..(j - 1) :
                 Live(waiters[j]) /\ st'[waiters[j]] = "granted" /\ Live(waiters[i]) => st'[waiters[i]] = "granted"
           /\ \A r \in Requests : st[r] = "new" /\ st'[r] = "sending" => \A q \in Requests : ~Live(q)]_vars
    BY NextInv DEF StepOK, Turn
  <1> QED BY <1>1, Invariance, PTL DEF Spec, AdmissionInTurn

\* A connection does not start to close while its login runs on the appliance, unless
\* the grace is over, the connection failed, or it was in the middle of a frame.
THEOREM SessionSafety == Spec => NoSessionLeftBehind
  <1>1. IndInv /\ [Next]_vars =>
          [\A o \in Ops :
              op[o] = "settling" /\ op'[o] = "closing" /\ server'[Login(o)] = "running"
              => st[Login(o)] \in {"abandoned", "broken"}]_vars
    BY NextInv DEF StepOK, Left
  <1> QED BY <1>1, Invariance, PTL DEF Spec, NoSessionLeftBehind

-----------------------------------------------------------------------------
(***************************************************************************)
(* No operation waits for ever (HasStep).                                  *)
(***************************************************************************)

\* Calls in flight of an operation that drains have been cancelled.
Drained == \A r \in Requests : r[2] # 0 /\ op[r[1]] = "draining" /\ st[r] \in InFlight => cancel[r]

\* An operation makes at least one call at once.
Wide == \A o \in Ops : op[o] # "idle" => width[o] > 0

\* _admit gives slots only to live waiters.
LEMMA AdmitOthers ==
  ASSUME TypeOK, NEW taken, NEW l, NEW states, Admit(taken, l, states), NEW q \in Requests
  PROVE  st'[q] = states[q] \/ Live(q)
  BY DEF Admit, Granted, Popped

\* Begin gives an operation its width, and Closed, after which it is idle, takes it.
LEMMA WideKept == ASSUME IndInv, Wide, [Next]_vars PROVE Wide'
  <1>1. /\ op \in [Ops -> {"idle", "connecting", "login", "calling", "draining", "settling", "closing"}]
        /\ width \in [Ops -> 0..CallsPerOp]
        /\ MaxConcurrency \in Nat \ {0} /\ CallsPerOp \in Nat \ {0} /\ limit \in Nat \ {0}
    BY ClientAssumption DEF IndInv, TypeOK
  <1>2. Min({MaxConcurrency, CallsPerOp, limit}) > 0
    BY <1>1 DEF Min
  <1>3. ASSUME NEW o \in Ops, Begin(o) PROVE Wide'
    BY <1>1, <1>2, <1>3 DEF Begin, Wide
  <1>4. ASSUME NEW o \in Ops, Closed(o) PROVE Wide'
    BY <1>1, <1>4 DEF Closed, Wide
  <1>5. ASSUME UNCHANGED width, \A o \in Ops : op[o] = "idle" => op'[o] = "idle" PROVE Wide'
    BY <1>5 DEF Wide
  <1>6. CASE SetLimit \/ Tick \/ UNCHANGED vars
    BY <1>5, <1>6 DEF SetLimit, Tick, vars, operation
  <1>7. ASSUME NEW o \in Ops,
          \/ ConnectFails(o) \/ StartLogin(o) \/ Ping(o) \/ LoginReply(o) \/ LoginLost(o)
          \/ OpTimeout(o) \/ LateTimeout(o) \/ OpCancelled(o) \/ UnwindLogin(o)
          \/ ConnectionLost(o) \/ CallsFailed(o) \/ CallsReturned(o) \/ CloseDispatcher(o)
          \/ GraceOver(o) \/ SettleLogin(o)
        PROVE Wide'
    <2>1. UNCHANGED width
      BY <1>7 DEF ConnectFails, StartLogin, Ping, LoginReply, LoginLost, OpTimeout, LateTimeout, OpCancelled,
         Interrupt, UnwindLogin, ConnectionLost, CallsFailed, CallsReturned, CloseDispatcher, GraceOver,
         SettleLogin, operation
    <2>2. \A p \in Ops : op[p] = "idle" => op'[p] = "idle"
      BY <1>1, <1>7, RequestParts DEF ConnectFails, StartLogin, Ping, LoginReply, LoginLost, OpTimeout, LateTimeout,
         OpCancelled, Interrupt, Drain, LoginEnds, UnwindLogin, ConnectionLost, CallsFailed, CallsReturned,
         CloseDispatcher, GraceOver, SettleLogin, operation, IndInv, RequestOK, LoginOK
    <2> QED BY <1>5, <2>1, <2>2
  <1>8. ASSUME NEW r \in Requests,
          \/ StartCall(r) \/ Resume(r) \/ SendDone(r) \/ Finish(r) \/ CallTimeout(r)
          \/ UnwindQueued(r) \/ UnwindGranted(r) \/ UnwindSent(r) \/ Receive(r) \/ Deliver(r)
        PROVE Wide'
    <2>1. UNCHANGED width
      BY <1>8 DEF StartCall, Resume, SendDone, Finish, CallTimeout, UnwindQueued, UnwindGranted, UnwindSent, Receive,
         Deliver, operation
    <2>2. \A p \in Ops : op[p] = "idle" => op'[p] = "idle"
      BY <1>1, <1>8, RequestParts DEF StartCall, Resume, SendDone, Finish, CallTimeout, UnwindQueued, UnwindGranted,
         UnwindSent, Receive, Deliver, operation, LoginEnds, IndInv, RequestOK, LoginOK
    <2> QED BY <1>5, <2>1, <2>2
  <1> QED BY <1>3, <1>4, <1>6, <1>7, <1>8 DEF Next

\* Draining starts by cancelling what is in flight, or when nothing is; a cancelled call
\* gets no slot, is not sent and does not become uncancelled before it has unwound.
LEMMA DrainedKept == ASSUME IndInv, Drained, [Next]_vars PROVE Drained'
  <1>1. /\ op \in [Ops -> {"idle", "connecting", "login", "calling", "draining", "settling", "closing"}]
        /\ st \in [Requests -> States] /\ cancel \in [Requests -> BOOLEAN]
        /\ TypeOK
    BY DEF IndInv, TypeOK, States
  <1> SUFFICES ASSUME NEW q \in Requests, q[2] # 0, op'[q[1]] = "draining", st'[q] \in InFlight
               PROVE  cancel'[q]
    BY DEF Drained
  <1>2. q[1] \in Ops
    BY RequestParts
  <1>3. ASSUME op[q[1]] = "draining", ~cancel[q] PROVE ~Live(q) /\ st[q] \notin InFlight
    BY <1>3 DEF Drained, Live, InFlight
  <1> DEFINE Ends(r) == Release(1, [st EXCEPT ![r] = "done"])
  <1>0. ASSUME NEW r \in Requests, Ends(r)
        PROVE  st'[q] = st[q] \/ (q = r /\ st'[q] = "done") \/ Live(q)
    <2>1. st'[q] = [st EXCEPT ![r] = "done"][q] \/ Live(q)
      BY <1>0, <1>1, AdmitOthers DEF Release
    <2> QED BY <1>1, <2>1
  <1>4. CASE SetLimit
    BY <1>1, <1>3, <1>4, AdmitOthers DEF SetLimit, operation, Live
  <1>5. CASE Tick \/ UNCHANGED vars
    BY <1>3, <1>5 DEF Tick, vars, operation, request
  <1>6. ASSUME NEW o \in Ops, ConnectFails(o) \/ LateTimeout(o) \/ ConnectionLost(o) \/ Begin(o)
        PROVE cancel'[q]
    BY <1>1, <1>2, <1>3, <1>6 DEF ConnectFails, LateTimeout, ConnectionLost, Begin, request, slots
  <1>7. ASSUME NEW o \in Ops, StartLogin(o) \/ Ping(o) \/ LoginLost(o) \/ GraceOver(o)
        PROVE cancel'[q]
    BY <1>1, <1>2, <1>3, <1>7, RequestParts
       DEF StartLogin, Acquire, Ping, LoginLost, GraceOver, LoginEnds, Keep, operation
  <1>8. ASSUME NEW o \in Ops, LoginReply(o) PROVE cancel'[q]
    <2>1. /\ Ends(Login(o)) \/ st' = [st EXCEPT ![Login(o)] = "failed"]
          /\ op' = [op EXCEPT ![o] = "calling"] \/ op' = [op EXCEPT ![o] = "settling"]
          /\ UNCHANGED cancel
      BY <1>8 DEF LoginReply, LoginEnds, Keep
    <2>2. op[q[1]] = "draining"
      BY <1>1, <1>2, <2>1
    <2>3. Login(o) \in Requests /\ q # Login(o)
      BY RequestParts
    <2>4. st'[q] = st[q] \/ Live(q)
      BY <1>0, <1>1, <2>1, <2>3
    <2> QED BY <1>3, <2>1, <2>2, <2>4
  <1>9. ASSUME NEW o \in Ops, UnwindLogin(o) PROVE cancel'[q]
    <2>1. /\ Ends(Login(o)) \/ st' = [st EXCEPT ![Login(o)] = "done"]
          /\ op' = [op EXCEPT ![o] = "settling"] /\ cancel' = [cancel EXCEPT ![Login(o)] = FALSE]
      BY <1>9 DEF UnwindLogin, LoginEnds
    <2>2. op[q[1]] = "draining" /\ (st'[q] = st[q] \/ Live(q)) /\ cancel'[q] = cancel[q]
      BY <1>0, <1>1, <1>2, <2>1, RequestParts
    <2> QED BY <1>3, <2>2
  <1>10. ASSUME NEW o \in Ops, Drain(o, "error") \/ Drain(o, "interrupted"), UNCHANGED st PROVE cancel'[q]
    <2>1. op[q[1]] = "draining" \/ q[1] = o
      BY <1>1, <1>2, <1>10 DEF Drain
    <2>2. CASE q[1] = o
      <3>1. q \in CallsOf(o) \/ st[q] = "new"
        BY <2>2, RequestParts, CallsOfParts DEF IndInv, RequestOK, CallOK
      <3> QED BY <1>10, <3>1 DEF Drain, CancelRequests, InFlight
    <2>3. CASE op[q[1]] = "draining"
      BY <1>3, <1>10, <2>3 DEF Drain, CancelRequests
    <2> QED BY <2>1, <2>2, <2>3
  <1>11. ASSUME NEW o \in Ops, OpTimeout(o) \/ OpCancelled(o) \/ CallsFailed(o) PROVE cancel'[q]
    <2>1. CASE CallsFailed(o)
      BY <1>10, <2>1 DEF CallsFailed
    <2>2. CASE Interrupt(o)
      <3>1. CASE op[o] = "calling"
        BY <1>10, <2>2, <3>1 DEF Interrupt
      <3>2. CASE op[o] = "login"
        BY <1>1, <1>2, <1>3, <2>2, <3>2, RequestParts DEF Interrupt, LoginEnds
      <3> QED BY <2>2, <3>1, <3>2 DEF Interrupt
    <2> QED BY <1>11, <2>1, <2>2 DEF OpTimeout, OpCancelled
  <1>12. ASSUME NEW o \in Ops, CallsReturned(o) PROVE cancel'[q]
    <2>1. q[1] = o => st[q] \in {"new", "done", "orphaned"}
      BY <1>12, RequestParts, CallsOfParts DEF CallsReturned, IndInv, RequestOK, CallOK
    <2> QED BY <1>1, <1>2, <1>3, <1>12, <2>1 DEF CallsReturned, request, InFlight
  <1>13. ASSUME NEW o \in Ops, CloseDispatcher(o) PROVE cancel'[q]
    BY <1>1, <1>2, <1>3, <1>13, AdmitOthers DEF CloseDispatcher, Release, InFlight
  <1>14. ASSUME NEW o \in Ops, SettleLogin(o) PROVE cancel'[q]
    <2>1. /\ Ends(Login(o)) \/ st' = st
          /\ op' = [op EXCEPT ![o] = "closing"] /\ UNCHANGED cancel
      BY <1>14 DEF SettleLogin, Keep
    <2>2. op[q[1]] = "draining" /\ (st'[q] = st[q] \/ Live(q))
      BY <1>0, <1>1, <1>2, <2>1, RequestParts
    <2> QED BY <1>3, <2>1, <2>2
  <1>15. ASSUME NEW o \in Ops, Closed(o) PROVE cancel'[q]
    BY <1>1, <1>2, <1>3, <1>15 DEF Closed
  <1>16. ASSUME NEW r \in Requests, SendDone(r) \/ Deliver(r) \/ CallTimeout(r) \/ StartCall(r) PROVE cancel'[q]
    BY <1>1, <1>2, <1>3, <1>16, RequestParts
       DEF SendDone, Deliver, CallTimeout, CancelRequests, StartCall, Acquire, CallEnds, Keep, operation, InFlight
  <1>17. ASSUME NEW r \in Requests, Resume(r) \/ Receive(r) PROVE cancel'[q]
    <2>1. r[1] \in Ops
      BY RequestParts
    <2>2. /\ Ends(r) \/ (st' = [st EXCEPT ![r] = "sending"] /\ st[r] = "granted" /\ ~cancel[r]) \/ st' = st
          /\ op' = op \/ op' = [op EXCEPT ![r[1]] = "settling"]
          /\ cancel' = cancel \/ (cancel' = [cancel EXCEPT ![r] = FALSE] /\ ~cancel[r])
      BY <1>17 DEF Resume, Receive, LoginEnds, CallEnds, Keep, operation
    <2>3. op[q[1]] = "draining" /\ cancel'[q] = cancel[q]
      BY <1>1, <1>2, <2>1, <2>2
    <2>4. st'[q] = st[q] \/ Live(q) \/ (st[q] = "granted" /\ ~cancel[q])
      BY <1>0, <1>1, <2>2 DEF InFlight
    <2> QED BY <1>3, <2>3, <2>4 DEF InFlight
  <1>18. ASSUME NEW r \in Requests, Finish(r) \/ UnwindQueued(r) \/ UnwindGranted(r) \/ UnwindSent(r)
         PROVE cancel'[q]
    <2>1. /\ \/ Ends(r) \/ st' = [st EXCEPT ![r] = "done"] \/ st' = [st EXCEPT ![r] = "orphaned"]
          /\ op' = op /\ cancel' = [cancel EXCEPT ![r] = FALSE]
      BY <1>18 DEF Finish, UnwindQueued, UnwindGranted, UnwindSent, CallEnds, Keep
    <2>2. Live(q) \/ (q # r /\ st'[q] = st[q])
      <3>1. CASE Ends(r)
        <4>1. st'[q] = [st EXCEPT ![r] = "done"][q] \/ Live(q)
          BY <1>1, <3>1, AdmitOthers DEF Release
        <4> QED BY <1>1, <4>1 DEF InFlight
      <3>2. CASE st' = [st EXCEPT ![r] = "done"] \/ st' = [st EXCEPT ![r] = "orphaned"]
        BY <1>1, <3>2 DEF InFlight
      <3> QED BY <2>1, <3>1, <3>2
    <2>3. cancel[q] => ~Live(q)
      BY DEF Live
    <2> QED BY <1>1, <1>3, <2>1, <2>2, <2>3
  <1> QED BY <1>4, <1>5, <1>6, <1>7, <1>8, <1>9, <1>11, <1>12, <1>13, <1>14, <1>15, <1>16, <1>17, <1>18 DEF Next

\* An operation that is not idle has a step of its own, or one of its calls has.
LEMMA ReadyStep == ASSUME IndInv, Wide, Drained PROVE HasStep
  <1> SUFFICES ASSUME NEW o \in Ops, op[o] # "idle"
               PROVE  OperationReady(o) \/ \E r \in CallsOf(o) : CallReady(r)
    BY DEF HasStep
  <1>1. op[o] \in {"connecting", "login", "calling", "draining", "settling", "closing"}
    BY DEF IndInv, TypeOK
  <1>2. CASE op[o] = "login"
    BY <1>2, RequestParts DEF IndInv, RequestOK, LoginOK, OperationReady
  <1>3. CASE op[o] = "draining"
    <2>1. ASSUME NEW r \in CallsOf(o), st[r] \in InFlight PROVE CallReady(r)
      BY <1>3, <2>1, CallsOfParts DEF Drained, CallReady
    <2> QED BY <1>3, <2>1 DEF OperationReady
  <1>4. CASE op[o] = "calling"
    <2>1. CASE kind[o] # "batch" \/ \A r \in CallsOf(o) : st[r] \in {"done", "orphaned"}
      BY <1>4, <2>1 DEF OperationReady
    <2>2. CASE kind[o] = "batch" /\ \E r \in CallsOf(o) : st[r] \in InFlight
      BY <1>4, <2>2, CallsOfParts DEF CallReady
    <2>3. ASSUME NEW r \in CallsOf(o), st[r] \notin {"done", "orphaned"},
                 \A q \in CallsOf(o) : st[q] \notin InFlight
          PROVE  CallReady(r)
      <3>1. r \in Requests /\ r[1] = o /\ r[2] # 0
        BY CallsOfParts
      <3>2. st[r] = "new"
        BY <1>4, <2>3, <3>1 DEF IndInv, RequestOK, CallOK
      <3>3. {q \in CallsOf(o) : st[q] \in InFlight} = {}
        BY <2>3
      <3>4. width[o] > 0
        BY DEF Wide
      <3> QED BY <1>4, <3>1, <3>2, <3>3, <3>4, FS_EmptySet DEF CallReady
    <2> QED BY <2>1, <2>2, <2>3
  <1> QED BY <1>1, <1>2, <1>3, <1>4 DEF OperationReady

\* An operation that runs always has a step of its own to take, of the event loop or of
\* a timer, whatever the appliance and the other operations do (HasStep of NeverStuck; that
\* the guards it is made of enable these steps is left to TLC).
THEOREM AlwaysAStep == Spec => []HasStep
  <1> DEFINE Inv == IndInv /\ Wide /\ Drained
  <1>1. Init => Inv
    <2>1. ASSUME Init PROVE Wide /\ Drained
      BY <2>1, RequestParts DEF Init, Wide, Drained
    <2> QED BY <2>1, InitInv
  <1>2. Inv /\ [Next]_vars => Inv'
    BY NextInv, StutterInv, WideKept, DrainedKept
  <1>3. Inv => HasStep
    BY ReadyStep
  <1> QED BY <1>1, <1>2, <1>3, PTL DEF Spec
=============================================================================
