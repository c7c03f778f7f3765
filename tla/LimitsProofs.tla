---------------------------- MODULE LimitsProofs ----------------------------
(***************************************************************************)
(* Proofs about what limits a request: the throttle of failed logins, for  *)
(* any keys, limits, window and number of requests; the limits on bodies   *)
(* and uploads, for any sizes; and the pages of a list, for lists of any   *)
(* length and pages of any size.                                           *)
(***************************************************************************)
EXTENDS AuthThrottle, SequenceTheorems, FiniteSetTheorems, TLAPS

-----------------------------------------------------------------------------
(* The failures of one key *)

Counts == [0 .. Window - 1 -> Nat]

\* s holds the ages of the failures that c counts, oldest first: those of age
\* a or less are the last c[a].
Fits(s, c) ==
  \A a \in 0 .. Window - 1 :
    c[a] <= Len(s) /\ \A n \in 1 .. Len(s) : s[n] <= a <=> n > Len(s) - c[a]

\* Those of age a are among those of a greater age b.
LEMMA Older ==
  ASSUME Parameters, NEW s \in Seq(Ages), NEW c \in Counts, Fits(s, c),
         NEW a \in 0 .. Window - 1, NEW b \in 0 .. Window - 1, a <= b
  PROVE  c[a] <= c[b]
<1> DEFINE L == Len(s)
<1>1. L \in Nat /\ \A n \in 1 .. L : s[n] \in Ages
  BY LenProperties, ElementOfSeq
<1>2. c[a] \in Nat /\ c[a] <= L /\ c[b] \in Nat /\ c[b] <= L
  BY DEF Counts, Fits
<1>3. \A n \in 1 .. L : (s[n] <= a <=> n > L - c[a]) /\ (s[n] <= b <=> n > L - c[b])
  BY DEF Fits
<1> HIDE DEF L
<1>4. SUFFICES ASSUME c[a] > c[b]
               PROVE  FALSE
  BY <1>2
<1>5. L - c[b] \in 1 .. L /\ L - c[b] > L - c[a]
  BY <1>1, <1>2, <1>4
<1>6. s[L - c[b]] <= a /\ ~ s[L - c[b]] <= b /\ s[L - c[b]] \in Ages
  BY <1>1, <1>2, <1>3, <1>5
<1>7. QED
  BY <1>6 DEF Ages, Parameters

\* What _prune leaves are the failures within the window.
LEMMA Pruned ==
  ASSUME Parameters, NEW s \in Seq(Ages), NEW c \in Counts, Fits(s, c)
  PROVE  LET p == SubSeq(s, FirstLive(s), Len(s))
         IN p \in Seq(Ages) /\ Len(p) = c[Window - 1] /\ Fits(p, c)
<1> DEFINE w == Window - 1
           L == Len(s)
           m == L - c[w]
           p == SubSeq(s, FirstLive(s), Len(s))
<1>1. Window \in Nat /\ Window >= 1 /\ w \in 0 .. w /\ L \in Nat /\ DOMAIN s = 1 .. L
  BY LenProperties DEF Parameters
<1>2. c[w] \in Nat /\ c[w] <= L /\ m \in 0 .. L
  BY <1>1 DEF Counts, Fits
<1>a. L = Len(s) /\ w = Window - 1 /\ m = L - c[w]
  OBVIOUS
<1> HIDE DEF L, w, m
<1>3. \A n \in 1 .. L : s[n] \in Ages /\ (s[n] < Window <=> n > m)
  <2> SUFFICES ASSUME NEW n \in 1 .. L
               PROVE  s[n] \in Ages /\ (s[n] < Window <=> n > m)
    OBVIOUS
  <2>1. s[n] \in Ages
    BY <1>1, ElementOfSeq
  <2>2. s[n] <= w <=> n > m
    BY <1>1, <1>a DEF Fits
  <2>3. QED
    BY <1>1, <1>a, <2>1, <2>2 DEF Ages
<1>4. FirstLive(s) = m + 1
  <2> DEFINE Good(n) == /\ \A i \in 1 .. n - 1 : s[i] >= Window
                        /\ n <= L => s[n] < Window
  <2>1. Good(m + 1)
    BY <1>1, <1>2, <1>3 DEF Ages
  <2>2. \A n \in 1 .. L + 1 : Good(n) => n = m + 1
    <3> SUFFICES ASSUME NEW n \in 1 .. L + 1, Good(n), n # m + 1
                 PROVE  FALSE
      OBVIOUS
    <3>1. CASE n <= m
      BY <1>1, <1>2, <1>3, <3>1
    <3>2. CASE n > m + 1
      <4>1. m + 1 \in 1 .. n - 1 /\ m + 1 \in 1 .. L
        BY <1>1, <1>2, <3>2
      <4>a. s[m + 1] >= Window
        BY <4>1
      <4>b. s[m + 1] < Window /\ s[m + 1] \in Ages
        BY <1>2, <1>3, <4>1
      <4>2. s[m + 1] >= Window /\ s[m + 1] < Window /\ s[m + 1] \in Ages
        BY <4>a, <4>b
      <4>3. QED
        BY <1>1, <4>2 DEF Ages
    <3>3. QED
      BY <1>1, <1>2, <3>1, <3>2
  <2>3. m + 1 \in 1 .. L + 1
    BY <1>1, <1>2
  <2>4. FirstLive(s) = CHOOSE n \in 1 .. L + 1 : Good(n)
    BY <1>a DEF FirstLive
  <2> HIDE DEF Good
  <2>5. QED
    BY <2>1, <2>2, <2>3, <2>4
<1>5. p = SubSeq(s, m + 1, L) /\ m + 1 \in 1 .. L + 1
  BY <1>1, <1>2, <1>4, <1>a
<1> HIDE DEF p
<1>6. p \in Seq(Ages) /\ Len(p) = c[w] /\ \A i \in 1 .. c[w] : p[i] = s[m + i]
  <2>a. m + 1 \in Int /\ L \in Int /\ \A i \in m + 1 .. L : s[i] \in Ages
    BY <1>1, <1>2, <1>3
  <2>1. /\ p \in Seq(Ages)
        /\ Len(p) = IF m + 1 <= L THEN L - (m + 1) + 1 ELSE 0
        /\ \A i \in 1 .. L - (m + 1) + 1 : p[i] = s[m + 1 + i - 1]
    BY <1>5, <2>a, SubSeqProperties
  <2>2. QED
    <3>1. L - (m + 1) + 1 = c[w] /\ Len(p) = c[w]
      BY <1>1, <1>2, <1>a, <2>1
    <3>2. \A i \in 1 .. c[w] : m + 1 + i - 1 = m + i
      BY <1>2
    <3>3. QED
      BY <2>1, <3>1, <3>2
<1>7. Fits(p, c)
  <2> SUFFICES ASSUME NEW a \in 0 .. w
               PROVE  c[a] <= c[w] /\ \A i \in 1 .. c[w] : p[i] <= a <=> i > c[w] - c[a]
    BY <1>6, <1>a DEF Fits
  <2>1. c[a] \in Nat /\ c[a] <= L
    BY <1>1, <1>a DEF Counts, Fits
  <2>2. c[a] <= c[w]
    BY <1>1, <1>a, Older
  <2>3. ASSUME NEW i \in 1 .. c[w]
        PROVE  p[i] <= a <=> i > c[w] - c[a]
    <3>1. m + i \in 1 .. L /\ p[i] = s[m + i]
      <4>1. m + i \in 1 .. L
        BY <1>1, <1>2, <1>a
      <4>2. QED
        BY <1>6, <4>1
    <3>2. s[m + i] <= a <=> m + i > L - c[a]
      BY <1>1, <1>a, <3>1 DEF Fits
    <3>3. m + i > L - c[a] <=> i > c[w] - c[a]
      BY <1>1, <1>2, <1>a, <2>1
    <3>4. QED
      BY <3>1, <3>2, <3>3, Zenon
  <2>4. QED
    BY <2>2, <2>3
<1>8. QED
  BY <1>6, <1>7, <1>a DEF p

\* One failure more.
LEMMA Appended ==
  ASSUME Parameters, NEW s \in Seq(Ages), NEW c \in Counts, Fits(s, c)
  PROVE  /\ Append(s, 0) \in Seq(Ages)
         /\ Fits(Append(s, 0), [a \in 0 .. Window - 1 |-> c[a] + 1])
<1> DEFINE L == Len(s)
           t == Append(s, 0)
<1>1. Window \in Nat /\ Window >= 1 /\ L \in Nat /\ 0 \in Ages
  BY LenProperties DEF Parameters, Ages
<1>2. t \in Seq(Ages) /\ Len(t) = L + 1 /\ t[L + 1] = 0 /\ \A n \in 1 .. L : t[n] = s[n]
  BY <1>1, AppendProperties
<1>a. L = Len(s)
  OBVIOUS
<1> HIDE DEF t, L
<1>3. ASSUME NEW a \in 0 .. Window - 1
      PROVE  c[a] + 1 <= L + 1 /\ \A n \in 1 .. L + 1 : t[n] <= a <=> n > L + 1 - (c[a] + 1)
  <2>1. c[a] \in Nat /\ c[a] <= L /\ \A n \in 1 .. L : s[n] <= a <=> n > L - c[a]
    BY <1>a DEF Counts, Fits
  <2>2. ASSUME NEW n \in 1 .. L + 1
        PROVE  t[n] <= a <=> n > L + 1 - (c[a] + 1)
    <3>1. CASE n = L + 1
      BY <1>1, <1>2, <2>1, <3>1
    <3>2. CASE n \in 1 .. L
      <4>1. t[n] <= a <=> n > L - c[a]
        BY <1>2, <2>1, <3>2
      <4>2. L + 1 - (c[a] + 1) = L - c[a]
        BY <1>1, <2>1
      <4>3. QED
        BY <4>1, <4>2
    <3>3. QED
      BY <1>1, <3>1, <3>2
  <2>3. QED
    BY <1>1, <2>1, <2>2
<1>4. Fits(t, [a \in 0 .. Window - 1 |-> c[a] + 1])
  <2> DEFINE d == [a \in 0 .. Window - 1 |-> c[a] + 1]
  <2>1. \A a \in 0 .. Window - 1 : d[a] = c[a] + 1
    OBVIOUS
  <2> HIDE DEF d
  <2>2. Fits(t, d)
    <3> SUFFICES ASSUME NEW a \in 0 .. Window - 1
                 PROVE  d[a] <= Len(t) /\ \A n \in 1 .. Len(t) : t[n] <= a <=> n > Len(t) - d[a]
      BY DEF Fits
    <3>1. d[a] = c[a] + 1
      BY <2>1
    <3>2. c[a] + 1 <= L + 1 /\ \A n \in 1 .. L + 1 : t[n] <= a <=> n > L + 1 - (c[a] + 1)
      BY <1>3
    <3>3. Len(t) = L + 1
      BY <1>2
    <3>4. d[a] <= Len(t)
      BY <3>1, <3>2, <3>3
    <3>5. ASSUME NEW n \in 1 .. Len(t)
          PROVE  t[n] <= a <=> n > Len(t) - d[a]
      <4>1. n \in 1 .. L + 1
        BY <3>3
      <4>2. t[n] <= a <=> n > L + 1 - (c[a] + 1)
        BY <3>2, <4>1
      <4>3. Len(t) - d[a] = L + 1 - (c[a] + 1)
        <5>1. c[a] \in Nat /\ L \in Nat
          BY <1>1 DEF Counts
        <5>2. QED
          BY <3>1, <3>3, <5>1
      <4>4. QED
        BY <4>2, <4>3, Zenon
    <3>6. QED
      BY <3>4, <3>5
  <2>3. QED
    BY <2>2 DEF d
<1>5. QED
  BY <1>2, <1>4 DEF t

\* Time passes for all failures alike.
LEMMA Aged ==
  ASSUME Parameters, NEW s \in Seq(Ages), NEW c \in Counts, Fits(s, c)
  PROVE  LET t == [n \in DOMAIN s |-> IF s[n] < Window THEN s[n] + 1 ELSE Window]
             d == [a \in 0 .. Window - 1 |-> IF a = 0 THEN 0 ELSE c[a - 1]]
         IN t \in Seq(Ages) /\ d \in Counts /\ Fits(t, d)
<1> DEFINE L == Len(s)
           t == [n \in DOMAIN s |-> IF s[n] < Window THEN s[n] + 1 ELSE Window]
           d == [a \in 0 .. Window - 1 |-> IF a = 0 THEN 0 ELSE c[a - 1]]
<1>1. /\ Window \in Nat /\ Window >= 1 /\ L \in Nat /\ DOMAIN s = 1 .. L
      /\ \A n \in 1 .. L : s[n] \in Ages
  BY LenProperties, ElementOfSeq DEF Parameters
<1>2. t \in [1 .. L -> Ages] /\ \A n \in 1 .. L : t[n] = IF s[n] < Window THEN s[n] + 1 ELSE Window
  BY <1>1 DEF Ages
<1>3. t \in Seq(Ages) /\ Len(t) = L
  BY <1>1, <1>2, IsASeq, LenProperties
<1>4. d \in Counts
  BY <1>1 DEF Counts
<1> HIDE DEF t
<1>5. ASSUME NEW a \in 0 .. Window - 1
      PROVE  d[a] <= L /\ \A n \in 1 .. L : t[n] <= a <=> n > L - d[a]
  <2>1. CASE a = 0
    <3>1. d[a] = 0
      BY <2>1
    <3>2. \A n \in 1 .. L : t[n] > 0
      BY <1>1, <1>2 DEF Ages
    <3>3. \A n \in 1 .. L : t[n] \in Ages
      BY <1>2
    <3>4. QED
      BY <1>1, <2>1, <3>1, <3>2, <3>3 DEF Ages
  <2>2. CASE a # 0
    <3>1. a - 1 \in 0 .. Window - 1 /\ d[a] = c[a - 1]
      BY <1>1, <2>2
    <3>2. c[a - 1] \in Nat /\ c[a - 1] <= L
          /\ \A n \in 1 .. L : s[n] <= a - 1 <=> n > L - c[a - 1]
      BY <3>1 DEF Counts, Fits
    <3>3. \A n \in 1 .. L : t[n] <= a <=> s[n] <= a - 1
      BY <1>1, <1>2 DEF Ages
    <3>4. QED
      BY <3>1, <3>2, <3>3
  <2>3. QED
    BY <2>1, <2>2
<1> HIDE DEF d
<1>6. Fits(t, d)
  BY <1>3, <1>5 DEF Fits
<1>7. QED
  BY <1>3, <1>4, <1>6 DEF t, d

\* No failures.
LEMMA Forgot ==
  ASSUME Parameters
  PROVE  LET zero == [a \in 0 .. Window - 1 |-> 0]
         IN << >> \in Seq(Ages) /\ zero \in Counts /\ Fits(<< >>, zero)
BY EmptySeq DEF Parameters, Counts, Fits

-----------------------------------------------------------------------------
(* The throttle *)

\* The table holds the failures that are counted.
Kept == \A k \in Keys : Fits(attempts[k], failures[k])

\* A request waits with both of its keys or with none.
Asked ==
  \A r \in Requests :
    waiting[r] # Idle => waiting[r].target \in Targets /\ waiting[r].address \in Addresses

TableInv ==
  /\ attempts \in [Keys -> Seq(Ages)]
  /\ waiting \in [Requests -> Tx]
  /\ failures \in [Keys -> Counts]
  /\ Kept /\ Asked

LEMMA TableInit == ASSUME Parameters, Init PROVE TableInv
<1> DEFINE zero == [a \in 0 .. Window - 1 |-> 0]
<1>1. << >> \in Seq(Ages) /\ zero \in Counts /\ Fits(<< >>, zero)
  BY Forgot
<1>2. Idle \in Tx
  BY DEF Idle, Tx
<1>3. /\ attempts = [k \in Keys |-> << >>]
      /\ waiting = [r \in Requests |-> Idle]
      /\ failures = [k \in Keys |-> zero]
  BY DEF Init
<1> HIDE DEF zero
<1>4. QED
  BY <1>1, <1>2, <1>3 DEF TableInv, Kept, Asked

LEMMA TableRestart == ASSUME Parameters, Restart PROVE TableInv'
<1> DEFINE zero == [a \in 0 .. Window - 1 |-> 0]
<1>1. << >> \in Seq(Ages) /\ zero \in Counts /\ Fits(<< >>, zero)
  BY Forgot
<1>2. Idle \in Tx
  BY DEF Idle, Tx
<1>3. /\ attempts' = [k \in Keys |-> << >>]
      /\ waiting' = [r \in Requests |-> Idle]
      /\ failures' = [k \in Keys |-> zero]
  BY DEF Restart
<1> HIDE DEF zero
<1>4. QED
  BY <1>1, <1>2, <1>3 DEF TableInv, Kept, Asked

LEMMA TableTick == ASSUME Parameters, TableInv, Tick PROVE TableInv'
<1> DEFINE T(s) == [n \in DOMAIN s |-> IF s[n] < Window THEN s[n] + 1 ELSE Window]
           D(c) == [a \in 0 .. Window - 1 |-> IF a = 0 THEN 0 ELSE c[a - 1]]
<1>1. \A k \in Keys :
        attempts[k] \in Seq(Ages) /\ failures[k] \in Counts /\ Fits(attempts[k], failures[k])
  BY DEF TableInv, Kept
<1>2. \A k \in Keys :
        /\ T(attempts[k]) \in Seq(Ages) /\ D(failures[k]) \in Counts
        /\ Fits(T(attempts[k]), D(failures[k]))
  BY <1>1, Aged
<1>3. /\ attempts' = [k \in Keys |-> T(attempts[k])]
      /\ failures' = [k \in Keys |-> D(failures[k])]
      /\ UNCHANGED waiting
  BY DEF Tick
<1> HIDE DEF T, D
<1>4. Kept'
  BY <1>2, <1>3 DEF Kept
<1>5. QED
  BY <1>2, <1>3, <1>4 DEF TableInv, Asked

LEMMA TableCheck == ASSUME Parameters, TableInv, NEW r \in Requests, Check(r) PROVE TableInv'
<1>1. \A k \in Keys :
        attempts[k] \in Seq(Ages) /\ failures[k] \in Counts /\ Fits(attempts[k], failures[k])
  BY DEF TableInv, Kept
<1>2. \A k \in Keys : Prune(k) \in Seq(Ages) /\ Fits(Prune(k), failures[k])
  BY <1>1, Pruned DEF Prune
<1>3. PICK k \in Targets, a \in Addresses :
        /\ attempts' = [x \in Keys |-> IF x \in Seen(k, a) THEN Prune(x) ELSE attempts[x]]
        /\ \/ waiting' = waiting
           \/ waiting' = [waiting EXCEPT ![r] = [target |-> k, address |-> a]]
        /\ UNCHANGED failures
  BY DEF Check
<1>4. Kept' /\ attempts' \in [Keys -> Seq(Ages)]
  BY <1>1, <1>2, <1>3 DEF Kept
<1>5. waiting' \in [Requests -> Tx] /\ Asked'
  <2>1. [target |-> k, address |-> a] \in Tx
    BY DEF Tx
  <2>2. CASE waiting' = waiting
    BY <2>2 DEF TableInv, Asked
  <2>3. CASE waiting' = [waiting EXCEPT ![r] = [target |-> k, address |-> a]]
    BY <2>1, <2>3 DEF TableInv, Asked
  <2>4. QED
    BY <1>3, <2>2, <2>3
<1>6. QED
  BY <1>3, <1>4, <1>5 DEF TableInv

LEMMA AnsweredIdle ==
  ASSUME TableInv, NEW r \in Requests, Answered(r)
  PROVE  waiting' \in [Requests -> Tx] /\ Asked'
<1>1. Idle \in Tx
  BY DEF Idle, Tx
<1>2. QED
  BY <1>1 DEF TableInv, Asked, Answered

LEMMA TableFailure == ASSUME Parameters, TableInv, NEW r \in Requests, Failure(r) PROVE TableInv'
<1> DEFINE keys == {waiting[r].target, waiting[r].address}
           More(c) == [a \in 0 .. Window - 1 |-> c[a] + 1]
<1>1. \A k \in Keys :
        attempts[k] \in Seq(Ages) /\ failures[k] \in Counts /\ Fits(attempts[k], failures[k])
  BY DEF TableInv, Kept
<1>2. \A k \in Keys : Prune(k) \in Seq(Ages) /\ Fits(Prune(k), failures[k])
  BY <1>1, Pruned DEF Prune
<1>3. \A k \in Keys : Recorded(k) \in Seq(Ages) /\ Fits(Recorded(k), More(failures[k]))
  BY <1>1, <1>2, Appended DEF Recorded
<1>4. \A c \in Counts : More(c) \in Counts
  BY DEF Counts
<1>5. /\ attempts' = [k \in Keys |-> IF k \in keys THEN Recorded(k) ELSE attempts[k]]
      /\ failures' = [k \in Keys |-> IF k \in keys THEN More(failures[k]) ELSE failures[k]]
  BY DEF Failure
<1>6. waiting' \in [Requests -> Tx] /\ Asked'
  BY AnsweredIdle DEF Failure
<1> HIDE DEF keys, More
<1>7. Kept'
  BY <1>1, <1>3, <1>5 DEF Kept
<1>8. QED
  BY <1>1, <1>3, <1>4, <1>5, <1>6, <1>7 DEF TableInv

LEMMA TableSuccess == ASSUME Parameters, TableInv, NEW r \in Requests, Success(r) PROVE TableInv'
<1> DEFINE zero == [a \in 0 .. Window - 1 |-> 0]
           t == waiting[r].target
<1>1. << >> \in Seq(Ages) /\ zero \in Counts /\ Fits(<< >>, zero)
  BY Forgot
<1>2. attempts' = [attempts EXCEPT ![t] = << >>] /\ failures' = [failures EXCEPT ![t] = zero]
  BY DEF Success, Forgotten
<1>3. waiting' \in [Requests -> Tx] /\ Asked'
  BY AnsweredIdle DEF Success
<1> HIDE DEF zero, t
<1>4. QED
  BY <1>1, <1>2, <1>3 DEF TableInv, Kept

LEMMA TableNext == ASSUME Parameters, TableInv, [Next]_vars PROVE TableInv'
<1>1. CASE Tick
  BY <1>1, TableTick
<1>2. ASSUME NEW r \in Requests, Check(r) PROVE TableInv'
  BY <1>2, TableCheck
<1>3. ASSUME NEW r \in Requests, Failure(r) PROVE TableInv'
  BY <1>3, TableFailure
<1>4. ASSUME NEW r \in Requests, Success(r) PROVE TableInv'
  BY <1>4, TableSuccess
<1>5. ASSUME NEW r \in Requests, Error(r) PROVE TableInv'
  BY <1>5, AnsweredIdle DEF Error, TableInv, Kept
<1>6. CASE Restart
  BY <1>6, TableRestart
<1>7. CASE UNCHANGED vars
  BY <1>7 DEF vars, TableInv, Kept, Asked
<1>8. QED
  BY <1>1, <1>2, <1>3, <1>4, <1>5, <1>6, <1>7 DEF Next, Serve

-----------------------------------------------------------------------------
(* The overshoot *)

\* The requests that await an answer about key k.
About(k) == {r \in Requests : k \in {waiting[r].target, waiting[r].address}}

LEMMA AboutFinite ==
  ASSUME Parameters, NEW k
  PROVE  IsFiniteSet(About(k)) /\ Awaited(k) \in Nat /\ Awaited(k) <= Cardinality(Requests)
<1>1. IsFiniteSet(Requests) /\ About(k) \subseteq Requests
  BY DEF Parameters, About
<1>2. QED
  BY <1>1, FS_Subset, FS_CardinalityType DEF Awaited, About

\* A set of requests that loses r or nothing.
LEMMA OneLess ==
  ASSUME NEW A, IsFiniteSet(A), NEW r, NEW B, B = A \ {r}
  PROVE  /\ Cardinality(B) <= Cardinality(A)
         /\ r \in A => Cardinality(B) + 1 = Cardinality(A)
         /\ Cardinality(A) \in Nat /\ Cardinality(B) \in Nat
<1>1. IsFiniteSet(B) /\ Cardinality(A) \in Nat /\ Cardinality(B) \in Nat
  BY FS_Subset, FS_CardinalityType
<1>2. CASE r \in A
  BY <1>1, <1>2, FS_RemoveElement
<1>3. CASE r \notin A
  <2>1. B = A
    BY <1>3
  <2>2. QED
    BY <1>1, <1>3, <2>1
<1>4. QED
  BY <1>2, <1>3

\* An answer takes a request away from both of its keys.
LEMMA AboutAnswered ==
  ASSUME Parameters, TableInv, NEW r \in Requests, Answered(r), NEW k \in Keys
  PROVE  /\ Awaited(k)' \in Nat /\ Awaited(k)' <= Awaited(k)
         /\ k \in {waiting[r].target, waiting[r].address} => Awaited(k)' + 1 = Awaited(k)
<1>1. k # None /\ waiting' = [waiting EXCEPT ![r] = Idle] /\ waiting \in [Requests -> Tx]
  BY DEF Parameters, Answered, TableInv
<1>2. About(k)' = About(k) \ {r}
  BY <1>1 DEF About, Idle
<1>3. Awaited(k) = Cardinality(About(k)) /\ Awaited(k)' = Cardinality(About(k)')
  BY DEF Awaited, About
<1>4. k \in {waiting[r].target, waiting[r].address} => r \in About(k)
  BY DEF About
<1>5. QED
  BY <1>2, <1>3, <1>4, AboutFinite, OneLess

LEMMA OvershootInit == ASSUME Parameters, Init PROVE OvershootBounded
<1>1. ASSUME NEW k \in Keys
      PROVE  Recent(k) + Awaited(k) < Limit[k] + Cardinality(Requests)
  <2>1. Recent(k) = 0
    BY DEF Parameters, Init, Recent
  <2>2. Limit[k] \in Nat /\ Limit[k] > 0 /\ Cardinality(Requests) \in Nat
    BY FS_CardinalityType DEF Parameters
  <2>3. QED
    BY <2>1, <2>2, AboutFinite
<1>2. QED
  BY <1>1 DEF OvershootBounded

\* What a check sees of a key are its failures within the window.
LEMMA InWindow ==
  ASSUME Parameters, TableInv, NEW k \in Keys
  PROVE  Len(Prune(k)) = Recent(k) /\ Recent(k) \in Nat /\ Limit[k] \in Nat
<1>1. attempts[k] \in Seq(Ages) /\ failures[k] \in Counts /\ Fits(attempts[k], failures[k])
  BY DEF TableInv, Kept
<1>2. Len(Prune(k)) = failures[k][Window - 1]
  BY <1>1, Pruned DEF Prune
<1>3. QED
  BY <1>1, <1>2 DEF Parameters, Recent, Counts

LEMMA Windowed == ASSUME Parameters, TableInv PROVE CountsTheWindow
BY InWindow DEF CountsTheWindow, Blocked

LEMMA OvershootNext ==
  ASSUME Parameters, TableInv, OvershootBounded, [Next]_vars
  PROVE  OvershootBounded'
<1> SUFFICES ASSUME NEW k \in Keys
             PROVE  Recent(k)' + Awaited(k)' < Limit[k] + Cardinality(Requests)
  BY DEF OvershootBounded
<1> DEFINE N == Cardinality(Requests)
<1>1. /\ Recent(k) \in Nat /\ Awaited(k) \in Nat /\ N \in Nat
      /\ Limit[k] \in Nat /\ Limit[k] > 0
      /\ Recent(k) + Awaited(k) < Limit[k] + N
      /\ failures[k] \in Counts /\ Fits(attempts[k], failures[k]) /\ attempts[k] \in Seq(Ages)
      /\ Window \in Nat /\ Window > 0
  BY InWindow, AboutFinite, FS_CardinalityType DEF OvershootBounded, Parameters, TableInv, Kept
<1>2. TableInv'
  BY TableNext
<1>3. Recent(k)' \in Nat /\ Awaited(k)' \in Nat /\ Awaited(k)' <= N
  <2>1. failures'[k] \in Counts
    BY <1>2 DEF TableInv
  <2>2. About(k)' \subseteq Requests /\ IsFiniteSet(Requests)
    BY DEF About, Parameters
  <2>3. Awaited(k)' = Cardinality(About(k)')
    BY DEF About, Awaited
  <2>4. QED
    BY <1>1, <2>1, <2>2, <2>3, FS_Subset, FS_CardinalityType DEF Recent, Counts
<1> HIDE DEF N
<1>4. ASSUME UNCHANGED waiting
      PROVE  Awaited(k)' = Awaited(k)
  BY <1>4 DEF Awaited
<1>5. CASE Tick
  <2>1. failures'[k] = [a \in 0 .. Window - 1 |-> IF a = 0 THEN 0 ELSE failures[k][a - 1]]
    BY <1>5 DEF Tick
  <2>2. Recent(k)' <= Recent(k)
    <3>1. CASE Window = 1
      BY <1>1, <2>1, <3>1 DEF Recent
    <3>2. CASE Window # 1
      <4>1. Recent(k)' = failures[k][Window - 2]
        BY <1>1, <2>1, <3>2 DEF Recent
      <4>2. failures[k][Window - 2] <= failures[k][Window - 1]
        BY <1>1, <3>2, Older
      <4>3. QED
        BY <4>1, <4>2 DEF Recent
    <3>3. QED
      BY <3>1, <3>2
  <2>3. Awaited(k)' = Awaited(k)
    BY <1>4, <1>5 DEF Tick
  <2>4. QED
    BY <1>1, <1>3, <2>2, <2>3 DEF N
<1>6. ASSUME NEW r \in Requests, Check(r) PROVE Recent(k)' + Awaited(k)' < Limit[k] + N
  <2>1. Recent(k)' = Recent(k)
    BY <1>6 DEF Check, Recent
  <2>2. CASE Recent(k) < Limit[k]
    BY <1>1, <1>3, <2>1, <2>2
  <2>3. CASE Recent(k) >= Limit[k]
    <3>1. Blocked(k)
      BY <2>3, InWindow DEF Blocked
    <3>2. Awaited(k)' = Awaited(k)
      <4>1. PICK t \in Targets, a \in Addresses :
              waiting' = IF \E x \in Seen(t, a) : Blocked(x)
                         THEN waiting
                         ELSE [waiting EXCEPT ![r] = [target |-> t, address |-> a]]
        BY <1>6 DEF Check
      <4>2. CASE \E x \in Seen(t, a) : Blocked(x)
        BY <1>4, <4>1, <4>2
      <4>3. CASE ~ \E x \in Seen(t, a) : Blocked(x)
        <5>1. k # t /\ k # a
          BY <3>1, <4>3 DEF Seen
        <5>2. k # None /\ waiting[r] = Idle /\ waiting \in [Requests -> Tx]
          BY <1>6 DEF Parameters, Check, TableInv
        <5>3. waiting' = [waiting EXCEPT ![r] = [target |-> t, address |-> a]]
          BY <4>1, <4>3
        <5>4. About(k)' = About(k)
          BY <5>1, <5>2, <5>3 DEF About, Idle
        <5>5. QED
          BY <5>4 DEF About, Awaited
      <4>4. QED
        BY <4>2, <4>3
    <3>3. QED
      BY <1>1, <2>1, <3>2
  <2>4. QED
    BY <1>1, <2>2, <2>3
<1>7. ASSUME NEW r \in Requests, Failure(r) PROVE Recent(k)' + Awaited(k)' < Limit[k] + N
  <2> DEFINE keys == {waiting[r].target, waiting[r].address}
  <2>1. /\ Awaited(k)' <= Awaited(k)
        /\ k \in keys => Awaited(k)' + 1 = Awaited(k)
    BY <1>7, AboutAnswered DEF Failure
  <2>2. failures'[k] = IF k \in keys THEN [a \in 0 .. Window - 1 |-> failures[k][a] + 1]
                                     ELSE failures[k]
    BY <1>7 DEF Failure
  <2>3. Recent(k)' = IF k \in keys THEN Recent(k) + 1 ELSE Recent(k)
    BY <1>1, <2>2 DEF Recent
  <2> HIDE DEF keys
  <2>4. QED
    BY <1>1, <1>3, <2>1, <2>3
<1>8. ASSUME NEW r \in Requests, Success(r) PROVE Recent(k)' + Awaited(k)' < Limit[k] + N
  <2>1. Awaited(k)' <= Awaited(k)
    BY <1>8, AboutAnswered DEF Success
  <2>2. \/ failures'[k] = failures[k]
        \/ failures'[k] = [a \in 0 .. Window - 1 |-> 0]
    BY <1>8 DEF Success, Forgotten, TableInv
  <2>3. Recent(k)' <= Recent(k)
    BY <1>1, <2>2 DEF Recent
  <2>4. QED
    BY <1>1, <1>3, <2>1, <2>3
<1>9. ASSUME NEW r \in Requests, Error(r) PROVE Recent(k)' + Awaited(k)' < Limit[k] + N
  <2>1. Awaited(k)' <= Awaited(k)
    BY <1>9, AboutAnswered DEF Error
  <2>2. Recent(k)' = Recent(k)
    BY <1>9 DEF Error, Recent
  <2>3. QED
    BY <1>1, <1>3, <2>1, <2>2
<1>10. CASE Restart
  <2>1. failures'[k] = [a \in 0 .. Window - 1 |-> 0]
    BY <1>10 DEF Restart
  <2>2. Recent(k)' = 0
    BY <1>1, <2>1 DEF Recent
  <2>3. QED
    BY <1>1, <1>3, <2>2 DEF N
<1>11. CASE UNCHANGED vars
  <2>1. Recent(k)' = Recent(k) /\ Awaited(k)' = Awaited(k)
    BY <1>4, <1>11 DEF vars, Recent
  <2>2. QED
    BY <1>1, <2>1 DEF N
<1>12. QED
  BY <1>5, <1>6, <1>7, <1>8, <1>9, <1>10, <1>11 DEF Next, Serve, N

\* Every value the throttle keeps has the shape AuthThrottle gives it, for any
\* keys, limits, window and requests.
THEOREM ThrottleTypeCorrect == ASSUME Parameters PROVE Spec => []TypeOK
<1>1. Init => TableInv
  BY TableInit
<1>2. TableInv /\ [Next]_vars => TableInv'
  BY TableNext
<1>3. TableInv => TypeOK
  BY DEF TableInv, TypeOK, Counts
<1>4. QED
  BY <1>1, <1>2, <1>3, PTL DEF Spec

\* AuthThrottle.check turns a request away exactly if its key has failed Limit
\* times within the window, whatever requests overlap.
THEOREM WindowCounted == ASSUME Parameters PROVE Spec => []CountsTheWindow
<1>1. Init => TableInv
  BY TableInit
<1>2. TableInv /\ [Next]_vars => TableInv'
  BY TableNext
<1>3. TableInv => CountsTheWindow
  BY Windowed
<1>4. QED
  BY <1>1, <1>2, <1>3, PTL DEF Spec

\* Requests that overlap push a key past its limit by less than their number.
THEOREM Overshoot == ASSUME Parameters PROVE Spec => []OvershootBounded
<1>1. Init => TableInv /\ OvershootBounded
  BY TableInit, OvershootInit
<1>2. TableInv /\ OvershootBounded /\ [Next]_vars => (TableInv /\ OvershootBounded)'
  BY TableNext, OvershootNext
<1>3. QED
  BY <1>1, <1>2, PTL DEF Spec

-----------------------------------------------------------------------------
(* The pages of a list *)

CONSTANTS Ids, Times, Limits, Backend

VARIABLES rows, time, dir, limit, cursor, reading, shown, twice, stayed

P == INSTANCE Paging

LEMMA PagingTypeInit == ASSUME P!Parameters, P!Init PROVE P!TypeOK
BY DEF P!Parameters, P!Init, P!TypeOK

LEMMA PagingTypeNext == ASSUME P!Parameters, P!TypeOK, [P!Next]_P!vars PROVE P!TypeOK'
<1> USE DEF P!Parameters, P!TypeOK
<1>1. CASE P!Open
  BY <1>1 DEF P!Open
<1>2. CASE P!Page
  <2>1. PICK page \in SUBSET rows :
          /\ \/ page = {} /\ cursor' = cursor
             \/ \E last \in page : cursor' = [time |-> time[last], id |-> last]
          /\ shown' = shown \cup page
          /\ twice' = twice \cup (page \cap shown)
          /\ reading' = (P!Cardinality(page) = limit)
    BY <1>2 DEF P!Page
  <2>2. cursor' \in P!Cursors \cup {None}
    BY <2>1 DEF P!Cursors
  <2>3. reading' \in BOOLEAN
    BY <2>1
  <2>4. shown' \subseteq Ids /\ twice' \subseteq Ids
    BY <2>1
  <2>5. QED
    BY <1>2, <2>2, <2>3, <2>4 DEF P!Page
<1>3. ASSUME NEW i \in Ids, P!Appear(i) PROVE P!TypeOK'
  BY <1>3 DEF P!Appear, P!pass
<1>4. ASSUME NEW i \in Ids, P!Vanish(i) PROVE P!TypeOK'
  BY <1>4 DEF P!Vanish, P!pass
<1>5. ASSUME NEW i \in Ids, P!Move(i) PROVE P!TypeOK'
  BY <1>5 DEF P!Move, P!pass
<1>6. CASE UNCHANGED P!vars
  BY <1>6 DEF P!vars
<1>7. QED
  BY <1>1, <1>2, <1>3, <1>4, <1>5, <1>6 DEF P!Next

-----------------------------------------------------------------------------
(* The cursor *)

\* Among the rows that stayed, those behind the cursor are the ones not shown.
CursorDivides == \A i \in stayed : i \in shown <=> cursor # None /\ ~ P!After(i)

PageInv == P!TypeOK /\ CursorDivides /\ P!NoneTwice /\ P!NoneMissed

\* Key k comes before key l in the order of the list.
KeyBefore(k, l) == P!Earlier(k.time, l.time) \/ (k.time = l.time /\ k.id < l.id)

KeyOf(i) == [time |-> time[i], id |-> i]

LEMMA KeysOrdered ==
  ASSUME P!Parameters, dir \in {"asc", "desc"}, NEW k \in P!Cursors, NEW l \in P!Cursors
  PROVE  /\ ~ (KeyBefore(k, l) /\ KeyBefore(l, k))
         /\ ~ KeyBefore(k, k)
         /\ \A m \in P!Cursors : ~ KeyBefore(k, m) /\ KeyBefore(k, l) => KeyBefore(m, l)
<1> USE DEF P!Parameters, KeyBefore, P!Earlier, P!Cursors
<1>1. k.time \in Nat /\ k.id \in Nat /\ l.time \in Nat /\ l.id \in Nat
  OBVIOUS
<1>2. \A m \in P!Cursors : m.time \in Nat /\ m.id \in Nat
  OBVIOUS
<1>3. CASE dir = "asc"
  BY <1>1, <1>2, <1>3
<1>4. CASE dir = "desc"
  BY <1>1, <1>2, <1>4
<1>5. QED
  BY <1>3, <1>4

LEMMA RowsOrdered ==
  ASSUME P!Parameters, P!TypeOK, NEW i \in Ids, NEW j \in Ids
  PROVE  /\ KeyOf(i) \in P!Cursors
         /\ P!Before(i, j) <=> KeyBefore(KeyOf(i), KeyOf(j))
BY DEF P!TypeOK, P!Parameters, KeyOf, P!Cursors, P!Before, KeyBefore

LEMMA AfterCursor ==
  ASSUME P!Parameters, P!TypeOK, Backend = "postgresql", cursor # None, NEW i \in Ids
  PROVE  P!After(i) <=> KeyBefore(cursor, KeyOf(i))
BY DEF P!TypeOK, P!Parameters, KeyOf, P!Cursors, P!After, KeyBefore

\* A page that ends with last moves the cursor there.
LEMMA PageMoves ==
  ASSUME P!Parameters, P!TypeOK, P!TypeOK', Backend = "postgresql", CursorDivides,
         NEW page \in SUBSET rows, P!IsPage(page),
         NEW last \in page, \A i \in page \ {last} : P!Before(i, last),
         cursor' = KeyOf(last), shown' = shown \cup page,
         UNCHANGED <<rows, time, dir, limit, stayed>>
  PROVE  CursorDivides'
<1> SUFFICES ASSUME NEW i \in stayed
             PROVE  i \in shown' <=> cursor' # None /\ ~ P!After(i)'
  BY DEF CursorDivides
<1>1. i \in rows /\ i \in Ids /\ last \in Ids
  BY DEF P!TypeOK
<1>2. KeyOf(i) \in P!Cursors /\ KeyOf(last) \in P!Cursors
  BY <1>1, RowsOrdered
<1>3. cursor' # None
  BY <1>2 DEF P!Parameters
<1>4. P!After(i)' <=> KeyBefore(KeyOf(last), KeyOf(i))
  <2>1. KeyOf(last).time = time[last] /\ KeyOf(last).id = last
    BY DEF KeyOf
  <2>2. KeyOf(i).time = time[i] /\ KeyOf(i).id = i
    BY DEF KeyOf
  <2>3. QED
    BY <1>3, <2>1, <2>2 DEF P!After, KeyBefore, P!Earlier
<1>5. CASE i \in page
  <2>1. i = last \/ KeyBefore(KeyOf(i), KeyOf(last))
    BY <1>1, <1>5, RowsOrdered
  <2>2. ~ KeyBefore(KeyOf(last), KeyOf(i))
    BY <1>2, <2>1, KeysOrdered DEF P!TypeOK
  <2>3. QED
    BY <1>3, <1>4, <1>5, <2>2
<1>6. CASE i \in shown /\ i \notin page
  <2>1. cursor # None /\ ~ P!After(i) /\ cursor \in P!Cursors
    BY <1>6 DEF CursorDivides, P!TypeOK
  <2>2. ~ KeyBefore(cursor, KeyOf(i))
    BY <1>1, <2>1, AfterCursor
  <2>3. KeyBefore(cursor, KeyOf(last))
    BY <1>1, <2>1, AfterCursor DEF P!IsPage, P!Rest
  <2>4. KeyBefore(KeyOf(i), KeyOf(last))
    BY <1>2, <2>1, <2>2, <2>3, KeysOrdered DEF P!TypeOK
  <2>5. ~ KeyBefore(KeyOf(last), KeyOf(i))
    BY <1>2, <2>4, KeysOrdered DEF P!TypeOK
  <2>6. QED
    BY <1>3, <1>4, <1>6, <2>5
<1>7. CASE i \notin shown /\ i \notin page
  <2>1. P!After(i)
    BY <1>7 DEF CursorDivides, P!After
  <2>2. P!Before(last, i)
    BY <1>1, <1>7, <2>1 DEF P!IsPage, P!Rest
  <2>3. QED
    BY <1>1, <1>3, <1>4, <1>7, <2>2, RowsOrdered
<1>8. QED
  BY <1>5, <1>6, <1>7

LEMMA PageStep ==
  ASSUME P!Parameters, Backend = "postgresql", PageInv, P!TypeOK', P!Page
  PROVE  PageInv'
<1>1. PICK page \in SUBSET rows :
        /\ P!IsPage(page)
        /\ \/ page = {} /\ cursor' = cursor
           \/ \E last \in page :
                /\ \A i \in page \ {last} : P!Before(i, last)
                /\ cursor' = [time |-> time[last], id |-> last]
        /\ shown' = shown \cup page
        /\ twice' = twice \cup (page \cap shown)
        /\ reading' = (P!Cardinality(page) = limit)
  BY DEF P!Page
<1>2. UNCHANGED <<rows, time, dir, limit, stayed>>
  BY DEF P!Page
<1>3. \A i \in stayed \cap P!Rest : i \notin shown
  BY DEF PageInv, CursorDivides, P!Rest
<1>4. \A i \in stayed \ shown : i \in P!Rest
  BY DEF PageInv, CursorDivides, P!TypeOK, P!Rest, P!After
<1>5. CursorDivides'
  <2>1. CASE page = {} /\ cursor' = cursor
    BY <1>1, <1>2, <2>1 DEF PageInv, CursorDivides, P!After, P!Earlier
  <2>2. ASSUME NEW last \in page, \A i \in page \ {last} : P!Before(i, last),
               cursor' = [time |-> time[last], id |-> last]
        PROVE  CursorDivides'
    <3>1. cursor' = KeyOf(last)
      BY <2>2 DEF KeyOf
    <3>2. QED
      BY <1>1, <1>2, <2>2, <3>1, PageMoves DEF PageInv
  <2>3. QED
    BY <1>1, <2>1, <2>2
<1>6. P!NoneTwice'
  BY <1>1, <1>2, <1>3 DEF PageInv, P!NoneTwice, P!IsPage
<1>7. P!NoneMissed'
  BY <1>1, <1>2, <1>4 DEF P!NoneMissed, P!IsPage
<1>8. QED
  BY <1>5, <1>6, <1>7 DEF PageInv

LEMMA PageNext ==
  ASSUME P!Parameters, Backend = "postgresql", PageInv, [P!Next]_P!vars
  PROVE  PageInv'
<1>1. P!TypeOK'
  BY PagingTypeNext DEF PageInv
<1>2. CASE P!Open
  BY <1>1, <1>2 DEF P!Open, PageInv, CursorDivides, P!NoneTwice, P!NoneMissed
<1>3. CASE P!Page
  BY <1>1, <1>3, PageStep
<1>4. ASSUME NEW r \in Ids, stayed' \subseteq stayed, UNCHANGED P!pass,
             \A i \in stayed' : time'[i] = time[i]
      PROVE  PageInv'
  <2>1. UNCHANGED <<dir, cursor, reading, shown, twice>>
    BY <1>4 DEF P!pass
  <2>2. \A i \in stayed' : P!After(i)' <=> P!After(i)
    BY <1>4, <2>1 DEF P!After, P!Earlier
  <2>3. CursorDivides'
    BY <1>4, <2>1, <2>2 DEF PageInv, CursorDivides
  <2>4. P!NoneTwice' /\ P!NoneMissed'
    BY <1>4, <2>1 DEF PageInv, P!NoneTwice, P!NoneMissed
  <2>5. QED
    BY <1>1, <2>3, <2>4 DEF PageInv
<1>5. ASSUME NEW r \in Ids, P!Appear(r) PROVE PageInv'
  <2>1. \A i \in stayed' : time'[i] = time[i]
    BY <1>5 DEF P!Appear, PageInv, P!TypeOK
  <2>2. QED
    BY <1>4, <1>5, <2>1 DEF P!Appear
<1>6. ASSUME NEW r \in Ids, P!Vanish(r) PROVE PageInv'
  BY <1>4, <1>6 DEF P!Vanish
<1>7. ASSUME NEW r \in Ids, P!Move(r) PROVE PageInv'
  <2>1. \A i \in stayed' : time'[i] = time[i]
    BY <1>7 DEF P!Move, PageInv, P!TypeOK
  <2>2. QED
    BY <1>4, <1>7, <2>1 DEF P!Move
<1>8. CASE UNCHANGED P!vars
  BY <1>1, <1>8 DEF P!vars, PageInv, CursorDivides, P!NoneTwice, P!NoneMissed, P!After, P!Earlier
<1>9. QED
  BY <1>2, <1>3, <1>5, <1>6, <1>7, <1>8 DEF P!Next

-----------------------------------------------------------------------------

\* With either backend the client's cursor, the rows and the pages shown have
\* the form the repositories give them.
THEOREM PagingTypeCorrect ==
  ASSUME P!Parameters
  PROVE  P!Spec => []P!TypeOK
<1>1. P!Init => P!TypeOK
  BY PagingTypeInit
<1>2. P!TypeOK /\ [P!Next]_P!vars => P!TypeOK'
  BY PagingTypeNext
<1>3. QED
  BY <1>1, <1>2, PTL DEF P!Spec

\* With PostgreSQL a row that stays where it is while the pages are turned is
\* shown on one page and no other.
THEOREM EachRowOnce ==
  ASSUME P!Parameters, Backend = "postgresql"
  PROVE  P!Spec => [](P!NoneTwice /\ P!NoneMissed)
<1>1. P!Init => PageInv
  BY PagingTypeInit DEF P!Init, PageInv, CursorDivides, P!NoneTwice, P!NoneMissed
<1>2. PageInv /\ [P!Next]_P!vars => PageInv'
  BY PageNext
<1>3. PageInv => P!NoneTwice /\ P!NoneMissed
  BY DEF PageInv
<1>4. QED
  BY <1>1, <1>2, <1>3, PTL DEF P!Spec

-----------------------------------------------------------------------------
(* The limits of an upload *)

CONSTANTS Media, Form, BodyLimit, Kinds, MaxBytes, Frame, ChunkSize, Lengths, MaxMessage, MaxBody

VARIABLES pc, upload, passed, written, stored, answer

U == INSTANCE Uploads

\* Before a request there is nothing of it, and while it runs no answer.
Fresh ==
  /\ upload = None => passed = 0 /\ answer = None
  /\ pc # "idle" => answer = None

\* The chunks in the open transaction are the beginning of a file that has
\* passed the checks made so far, and at its end the whole of it.
Checked ==
  /\ pc \notin {"read", "commit"} => written = 0
  /\ pc \in {"read", "commit"} =>
       /\ written <= upload.file /\ written <= MaxBytes[upload.kind]
       /\ upload.flaw # "type" /\ (upload.flaw = "signature" => written = 0)
  /\ pc = "commit" => written = upload.file

\* A refusal is true of the upload that was refused.
Reasons ==
  /\ answer = 413 =>
       \/ upload.declared # None /\ U!Over(upload.media, upload.declared)
       \/ upload.part # None /\ upload.part > MaxBytes[upload.kind]
       \/ upload.file > MaxBytes[upload.kind]
  /\ answer = 400 => U!Over(upload.media, upload.body) \/ upload.body < Frame
  /\ answer = 415 => upload.flaw # None

\* The file is what its form leaves of the body.
Framed == upload # None => upload.file = 0 \/ upload.file + Frame <= upload.body

Safe == U!WithinLimit /\ U!StoredWhole /\ Reasons /\ Framed

UploadInv == U!TypeOK /\ Fresh /\ Checked /\ Safe

LEMMA RequestType == ASSUME U!Parameters PROVE U!Request \subseteq U!Upload
<1>1. Lengths \cup {None} \subseteq Nat \cup {None} /\ Form \in Media
  BY DEF U!Parameters
<1>2. SUFFICES ASSUME NEW u \in U!Request PROVE u \in U!Upload
  OBVIOUS
<1>3. CASE u.media = Form /\ u \in [media : {Form}, declared : Lengths \cup {None},
             part : Lengths \cup {None}, kind : Kinds, flaw : U!Flaws \cup {None}, body : {0},
               file : {0}]
  BY <1>1, <1>3 DEF U!Upload
<1>4. CASE u \in [media : Media \ {Form}, declared : Lengths \cup {None}, part : {None},
               kind : Kinds, flaw : {None}, body : {0}, file : {0}]
  BY <1>1, <1>4 DEF U!Upload
<1>5. QED
  BY <1>3, <1>4 DEF U!Request

LEMMA UploadInit == ASSUME U!Parameters, U!Init PROVE UploadInv
BY DEF U!Parameters, U!Init, UploadInv, U!TypeOK, U!Steps, U!Answers, Fresh, Checked, Safe,
       U!WithinLimit,
       U!StoredWhole, Reasons, Framed

\* A request that is refused with a status that is true of it.
LEMMA RefuseSafe ==
  ASSUME U!Parameters, UploadInv, NEW status \in U!Answers, U!Refuse(status),
         upload' \in U!Upload, passed' \in Nat, ~ U!Over(upload'.media, passed'),
         status = 413 =>
           \/ upload'.declared # None /\ U!Over(upload'.media, upload'.declared)
           \/ upload'.part # None /\ upload'.part > MaxBytes[upload'.kind]
           \/ upload'.file > MaxBytes[upload'.kind],
         status = 400 => U!Over(upload'.media, upload'.body) \/ upload'.body < Frame,
         status = 415 => upload'.flaw # None,
         Framed'
  PROVE  UploadInv'
<1>1. U!TypeOK' /\ Fresh' /\ Checked'
  BY DEF U!Parameters, U!Refuse, UploadInv, U!TypeOK, U!Steps, Fresh, Checked
<1>2. U!WithinLimit' /\ U!StoredWhole'
  BY DEF U!Refuse, UploadInv, Safe, U!WithinLimit, U!StoredWhole, U!Over
<1>3. Reasons'
  BY DEF U!Refuse, Reasons, U!Over
<1>4. QED
  BY <1>1, <1>2, <1>3 DEF UploadInv, Safe

\* A step without an answer.
LEMMA GoSafe ==
  ASSUME U!Parameters, UploadInv, pc' \in U!Steps, upload' \in U!Upload, passed' \in Nat,
         ~ U!Over(upload'.media, passed'), written' \in Nat, answer' = None, stored' = stored,
         Checked', Framed'
  PROVE  UploadInv'
BY DEF U!Parameters, UploadInv, U!TypeOK, U!Answers, Fresh, Safe, U!WithinLimit, U!StoredWhole,
       Reasons, U!Over

\* A step that leaves the upload alone or forgets it leaves its frame alone.
LEMMA FramedSame ==
  ASSUME UploadInv, upload' = upload \/ upload' = None
  PROVE  Framed'
BY DEF UploadInv, Safe, Framed

LEMMA UploadNext == ASSUME U!Parameters, UploadInv, [U!Next]_U!vars PROVE UploadInv'
<1>1. /\ pc \in U!Steps /\ passed \in Nat /\ written \in Nat
      /\ pc # "idle" => upload \in U!Upload /\ ~ U!Over(upload.media, passed) /\ answer = None
      /\ upload \in U!Upload \cup {None}
      /\ {413, 400, 415, 500, None} \subseteq U!Answers
  BY DEF UploadInv, U!TypeOK, Fresh, Safe, U!WithinLimit, U!Answers
<1>2. /\ BodyLimit \in [Media -> Nat \cup {None}] /\ MaxBytes \in [Kinds -> Nat]
      /\ Frame \in Nat /\ ChunkSize \in Nat \ {0} /\ MaxMessage \in Nat
      /\ None \notin Nat /\ None \notin U!Upload
  BY DEF U!Parameters
<1>3. CASE U!Arrive
  <2>1. PICK u \in U!Request :
          /\ upload' = u
          /\ IF u.declared # None /\ U!Over(u.media, u.declared)
             THEN U!Refuse(413)
             ELSE pc' = "receive" /\ answer' = None /\ UNCHANGED <<written, stored>>
    BY <1>3 DEF U!Arrive
  <2>2. u \in U!Upload /\ upload = None /\ passed' = 0
    BY <1>3, RequestType DEF U!Arrive, UploadInv, Fresh
  <2>3. ~ U!Over(u.media, 0)
    BY <1>2, <2>2 DEF U!Over, U!Upload
  <2>4. Framed'
    <3>1. u.file = 0
      BY DEF U!Request
    <3>2. QED
      BY <2>1, <3>1 DEF Framed
  <2>5. CASE u.declared # None /\ U!Over(u.media, u.declared)
    BY <1>1, <1>2, <2>1, <2>2, <2>3, <2>4, <2>5, RefuseSafe
  <2>6. CASE ~ (u.declared # None /\ U!Over(u.media, u.declared))
    <3>1. pc = "idle"
      BY <2>2 DEF UploadInv, U!TypeOK
    <3>2. written = 0
      BY <3>1 DEF UploadInv, Checked
    <3>3. Checked'
      BY <2>1, <2>6, <3>2 DEF Checked
    <3>4. QED
      BY <1>1, <2>1, <2>2, <2>3, <2>4, <2>6, <3>3, GoSafe DEF U!Steps
  <2>7. QED
    BY <2>5, <2>6
<1>4. CASE U!Message
  <2>1. PICK n \in 1 .. MaxMessage : U!Receive(n)
    BY <1>4 DEF U!Message
  <2>2. pc = "receive" /\ upload \in U!Upload /\ n \in Nat
    BY <1>1, <1>2, <1>4 DEF U!Message
  <2> DEFINE u == [upload EXCEPT !.body = @ + n]
  <2>3. /\ u \in U!Upload /\ u.media = upload.media /\ u.body = upload.body + n
        /\ u.file = upload.file /\ upload.body + n \in Nat
        /\ upload.file \in Nat /\ upload.body \in Nat
    BY <2>2 DEF U!Upload
  <2>4. upload' = u
    BY <2>1 DEF U!Receive
  <2> HIDE DEF u
  <2>5. Framed'
    BY <1>2, <2>2, <2>3, <2>4 DEF UploadInv, Safe, Framed
  <2>6. CASE U!Over(upload.media, upload.body + n)
    BY <1>1, <1>2, <2>1, <2>2, <2>3, <2>4, <2>5, <2>6, RefuseSafe DEF U!Receive
  <2>7. CASE ~ U!Over(upload.media, upload.body + n)
    <3>1. passed' = upload.body + n /\ UNCHANGED <<pc, written, stored, answer>>
      BY <2>1, <2>7 DEF U!Receive
    <3>2. Checked'
      BY <2>2, <3>1 DEF UploadInv, Checked
    <3>3. QED
      BY <1>1, <2>2, <2>3, <2>4, <2>5, <2>7, <3>1, <3>2, GoSafe
  <2>8. QED
    BY <2>6, <2>7
<1>5. CASE U!Disconnect
  BY <1>1, <1>2, <1>5, RefuseSafe, FramedSame DEF U!Disconnect
<1>6. CASE U!Parsed
  <2>1. pc = "receive" /\ upload \in U!Upload /\ passed' = passed
    BY <1>1, <1>6 DEF U!Parsed
  <2>2. CASE upload.media # Form
    <3>1. 200 \in U!Answers
      BY DEF U!Answers
    <3>2. QED
      BY <1>1, <1>2, <1>6, <2>1, <2>2, <3>1, RefuseSafe, FramedSame DEF U!Parsed
  <2>3. CASE upload.media = Form /\ upload.body < Frame
    BY <1>1, <1>2, <1>6, <2>1, <2>3, RefuseSafe, FramedSame DEF U!Parsed
  <2>4. CASE upload.media = Form /\ ~ upload.body < Frame
    <3> DEFINE u == [upload EXCEPT !.file = upload.body - Frame]
    <3>1. /\ u \in U!Upload /\ u.media = upload.media
          /\ u.file + Frame <= u.body
      BY <1>2, <2>1, <2>4 DEF U!Upload
    <3>2. upload' = u /\ pc' = "policy" /\ UNCHANGED <<written, stored, answer>>
      BY <1>6, <2>4 DEF U!Parsed
    <3> HIDE DEF u
    <3>3. Checked'
      BY <2>1, <3>2 DEF UploadInv, Checked
    <3>4. Framed'
      BY <3>1, <3>2 DEF Framed
    <3>5. QED
      BY <1>1, <2>1, <3>1, <3>2, <3>3, <3>4, GoSafe DEF U!Steps
  <2>5. QED
    BY <2>2, <2>3, <2>4
<1>7. CASE U!Policy
  <2>1. pc = "policy" /\ upload \in U!Upload /\ UNCHANGED <<upload, passed>>
    BY <1>1, <1>7 DEF U!Policy
  <2>2. CASE upload.flaw = "type"
    <3>1. 415 \in U!Answers /\ upload.flaw # None
      BY <2>2 DEF U!Parameters, U!Answers, U!Flaws
    <3>2. QED
      BY <1>1, <1>2, <1>7, <2>1, <2>2, <3>1, RefuseSafe, FramedSame DEF U!Policy
  <2>3. CASE upload.flaw # "type" /\ upload.part # None /\ upload.part > MaxBytes[upload.kind]
    BY <1>1, <1>2, <1>7, <2>1, <2>3, RefuseSafe, FramedSame DEF U!Policy
  <2>4. CASE upload.flaw # "type" /\ ~ (upload.part # None /\ upload.part > MaxBytes[upload.kind])
    <3>1. pc' = "read" /\ UNCHANGED <<written, stored, answer>>
      BY <1>7, <2>4 DEF U!Policy
    <3>2. Checked'
      <4>1. written = 0 /\ upload.file \in Nat /\ MaxBytes[upload.kind] \in Nat
        BY <1>2, <2>1 DEF UploadInv, Checked, U!Upload
      <4>2. QED
        BY <2>1, <2>4, <3>1, <4>1 DEF Checked
    <3>3. QED
      BY <1>1, <2>1, <3>1, <3>2, GoSafe, FramedSame DEF U!Steps
  <2>5. QED
    BY <2>2, <2>3, <2>4
<1>8. CASE U!Read
  <2>1. /\ pc = "read" /\ upload \in U!Upload /\ UNCHANGED <<upload, passed>>
        /\ upload.file \in Nat /\ MaxBytes[upload.kind] \in Nat
        /\ written <= upload.file /\ written <= MaxBytes[upload.kind]
        /\ upload.flaw # "type" /\ (upload.flaw = "signature" => written = 0)
    BY <1>1, <1>2, <1>8 DEF U!Read, UploadInv, Checked, U!Upload
  <2>2. /\ U!Chunk \in Nat /\ written + U!Chunk <= upload.file
        /\ U!Chunk = 0 => written = upload.file
    BY <1>1, <1>2, <2>1 DEF U!Chunk
  <2> HIDE DEF U!Chunk
  <2>3. CASE U!Chunk = 0
    <3>1. pc' = "commit" /\ UNCHANGED <<written, stored, answer>>
      BY <1>8, <2>3 DEF U!Read
    <3>2. Checked'
      BY <2>1, <2>2, <2>3, <3>1 DEF Checked
    <3>3. QED
      BY <1>1, <2>1, <3>1, <3>2, GoSafe, FramedSame DEF U!Steps
  <2>4. CASE U!Chunk # 0 /\ written = 0 /\ upload.flaw = "signature"
    <3>1. 415 \in U!Answers /\ upload.flaw # None
      BY <2>4 DEF U!Parameters, U!Answers, U!Flaws
    <3>2. QED
      BY <1>1, <1>2, <1>8, <2>1, <2>4, <3>1, RefuseSafe, FramedSame DEF U!Read
  <2>5. CASE U!Chunk # 0 /\ ~ (written = 0 /\ upload.flaw = "signature")
             /\ written + U!Chunk > MaxBytes[upload.kind]
    <3>1. upload.file > MaxBytes[upload.kind]
      BY <1>1, <2>1, <2>2, <2>5
    <3>2. QED
      BY <1>1, <1>2, <1>8, <2>1, <2>5, <3>1, RefuseSafe, FramedSame DEF U!Read
  <2>6. CASE U!Chunk # 0 /\ ~ (written = 0 /\ upload.flaw = "signature")
             /\ ~ written + U!Chunk > MaxBytes[upload.kind]
    <3>1. written' = written + U!Chunk /\ UNCHANGED <<pc, stored, answer>>
      BY <1>8, <2>6 DEF U!Read
    <3>2. Checked'
      BY <1>1, <2>1, <2>2, <2>6, <3>1 DEF Checked
    <3>3. QED
      BY <1>1, <2>1, <2>2, <3>1, <3>2, GoSafe, FramedSame
  <2>7. QED
    BY <2>3, <2>4, <2>5, <2>6
<1>9. CASE U!Commit
  <2>1. pc = "commit" /\ upload \in U!Upload /\ upload.file \in Nat
    BY <1>1, <1>9 DEF U!Commit, U!Upload
  <2>2. /\ written = upload.file /\ written <= MaxBytes[upload.kind]
        /\ upload.flaw # "type" /\ (upload.flaw = "signature" => written = 0)
    BY <2>1 DEF UploadInv, Checked
  <2> DEFINE f == [kind |-> upload.kind, flaw |-> upload.flaw, file |-> upload.file,
    bytes |-> written]
  <2>3. f \in U!Stored /\ f.kind = upload.kind /\ f.flaw = upload.flaw /\ f.file = upload.file
        /\ f.bytes = written
    BY <1>1, <2>1 DEF U!Upload, U!Stored
  <2>4. upload.flaw \in {"signature", None}
    BY <2>1, <2>2 DEF U!Upload, U!Flaws
  <2>5. stored' = f
    BY <1>9 DEF U!Commit
  <2> HIDE DEF f
  <2>6. U!StoredWhole'
    BY <2>2, <2>3, <2>4, <2>5 DEF U!StoredWhole
  <2>7. U!WithinLimit' /\ Reasons' /\ Framed'
    BY <1>1, <1>9, <2>1, FramedSame DEF U!Commit, U!WithinLimit, Reasons, U!Over
  <2>8. U!TypeOK' /\ Fresh' /\ Checked'
    BY <1>1, <1>2, <1>9, <2>1, <2>3, <2>5
    DEF U!Commit, UploadInv, U!TypeOK, U!Steps, U!Answers, Fresh, Checked
  <2>9. QED
    BY <2>6, <2>7, <2>8 DEF UploadInv, Safe
<1>10. CASE U!Close
  BY <1>1, <1>2, <1>10 DEF U!Close, UploadInv, U!TypeOK, U!Answers, Fresh, Checked, Safe,
         U!WithinLimit,
     U!StoredWhole, Reasons, Framed
<1>11. CASE U!Error
  BY <1>1, <1>2, <1>11, RefuseSafe, FramedSame DEF U!Error
<1>12. CASE U!Restart
  BY <1>1, <1>2, <1>12 DEF U!Restart, U!Refuse, UploadInv, U!TypeOK, U!Steps, U!Answers, Fresh,
         Checked, Safe,
     U!WithinLimit, U!StoredWhole, Reasons, Framed
<1>13. CASE UNCHANGED U!vars
  BY <1>13 DEF U!vars, UploadInv, U!TypeOK, Fresh, Checked, Safe, U!WithinLimit, U!StoredWhole,
     Reasons, Framed, U!Over, U!Chunk
<1>14. QED
  BY <1>3, <1>4, <1>5, <1>6, <1>7, <1>8, <1>9, <1>10, <1>11, <1>12, <1>13 DEF U!Next, U!Serve

LEMMA UploadInvariance == ASSUME U!Parameters PROVE U!Spec => []UploadInv
<1>1. U!Init => UploadInv
  BY UploadInit
<1>2. UploadInv /\ [U!Next]_U!vars => UploadInv'
  BY UploadNext
<1>3. QED
  BY <1>1, <1>2, PTL DEF U!Spec

\* The upload, its counters and its answer always have the form the code
\* gives them.
THEOREM UploadsTypeCorrect == ASSUME U!Parameters PROVE U!Spec => []U!TypeOK
<1>1. UploadInv => U!TypeOK
  BY DEF UploadInv
<1>2. QED
  BY <1>1, UploadInvariance, PTL

\* For any limit and any way to cut the body into messages, the parser gets no
\* more of it than the limit.
THEOREM BodyLimited == ASSUME U!Parameters PROVE U!Spec => []U!WithinLimit
<1>1. UploadInv => U!WithinLimit
  BY DEF UploadInv, Safe
<1>2. QED
  BY <1>1, UploadInvariance, PTL

\* Whatever the sizes of files, chunks and limits, what is committed is a whole
\* file that its policy accepts.
THEOREM FilesWhole == ASSUME U!Parameters PROVE U!Spec => []U!StoredWhole
<1>1. UploadInv => U!StoredWhole
  BY DEF UploadInv, Safe
<1>2. QED
  BY <1>1, UploadInvariance, PTL

\* For any limits, sizes of chunks and ways to cut the body, a file that its
\* policy allows and for which a form has room is not turned away.
THEOREM NotTurnedAway == ASSUME U!Parameters PROVE U!Spec => []U!AcceptedUpToLimit
<1>1. ASSUME U!Parameters, UploadInv, upload # None, U!LeavesRoom(upload.kind),
             U!FitsPolicy(upload)
      PROVE  answer \notin {413, 415} /\ (answer = 400 => upload.body < Frame)
  <2>1. /\ upload \in U!Upload /\ upload.kind \in Kinds /\ upload.body \in Nat
        /\ upload.file \in Nat /\ upload.declared \in Nat \cup {None}
    BY <1>1 DEF UploadInv, U!TypeOK, U!Upload
  <2>2. /\ Frame \in Nat /\ MaxBytes[upload.kind] \in Nat
        /\ BodyLimit[Form] \in Nat /\ None \notin Nat
    BY <1>1, <2>1 DEF U!Parameters
  <2>3. upload.file <= MaxBytes[upload.kind]
    BY <1>1, <2>1, <2>2 DEF UploadInv, Safe, Framed, U!FitsPolicy
  <2>4. ~ U!Over(upload.media, upload.body)
    BY <1>1, <2>1, <2>2 DEF U!Over, U!LeavesRoom, U!FitsPolicy
  <2>5. upload.declared # None => ~ U!Over(upload.media, upload.declared)
    BY <1>1, <2>1, <2>2 DEF U!Over, U!LeavesRoom, U!FitsPolicy
  <2>6. answer # 413
    <3>1. ~ upload.file > MaxBytes[upload.kind]
      BY <2>1, <2>2, <2>3
    <3>2. ~ (upload.part # None /\ upload.part > MaxBytes[upload.kind])
      <4>1. upload.part \in Nat \cup {None}
        BY <2>1 DEF U!Upload
      <4>2. QED
        BY <1>1, <2>2, <4>1 DEF U!FitsPolicy
    <3>3. QED
      BY <1>1, <2>5, <3>1, <3>2 DEF UploadInv, Safe, Reasons
  <2>7. answer # 415 /\ (answer = 400 => upload.body < Frame)
    BY <1>1, <2>4 DEF UploadInv, Safe, Reasons, U!FitsPolicy
  <2>8. QED
    BY <2>6, <2>7
<1>2. UploadInv => U!AcceptedUpToLimit
  BY <1>1 DEF U!AcceptedUpToLimit
<1>3. QED
  BY <1>2, UploadInvariance, PTL
=============================================================================
