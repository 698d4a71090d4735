-------------------------- MODULE RecorderRingProofs --------------------------
(***************************************************************************)
(* Proofs about RecorderRing for every capacity, retention time, sampling  *)
(* interval, byte budget and set of signals, and for a failing clock too.  *)
(***************************************************************************)
EXTENDS RecorderRing, FiniteSetTheorems, SequenceTheorems, FunctionTheorems,
        WellFoundedInduction, TLAPS

(* The newest n samples as a sequence.                                     *)
LEMMA NewestIs ==
    ASSUME NEW S \in Seq(Samples), NEW n \in 0 .. Len(S)
    PROVE  /\ Newest(S, n) \in Seq(Samples)
           /\ Len(Newest(S, n)) = n
           /\ \A i \in 1 .. n : Newest(S, n)[i] = S[Len(S) - n + i]
  <1>1. Len(S) \in Nat /\ Len(S) - n + 1 \in Int /\ Len(S) \in Int
    BY LenProperties
  <1>2. \A i \in Len(S) - n + 1 .. Len(S) : S[i] \in Samples
    BY <1>1, ElementOfSeq
  <1>3. /\ SubSeq(S, Len(S) - n + 1, Len(S)) \in Seq(Samples)
        /\ Len(SubSeq(S, Len(S) - n + 1, Len(S))) =
             IF Len(S) - n + 1 <= Len(S) THEN Len(S) - (Len(S) - n + 1) + 1 ELSE 0
        /\ \A i \in 1 .. Len(S) - (Len(S) - n + 1) + 1 :
             SubSeq(S, Len(S) - n + 1, Len(S))[i] = S[Len(S) - n + 1 + i - 1]
    BY <1>1, <1>2, SubSeqProperties
  <1> QED BY <1>1, <1>3 DEF Newest

(* The oldest n samples as a sequence.                                     *)
LEMMA OldestIs ==
    ASSUME NEW S \in Seq(Samples), NEW n \in 0 .. Len(S)
    PROVE  /\ Oldest(S, n) \in Seq(Samples)
           /\ Len(Oldest(S, n)) = n
           /\ \A i \in 1 .. n : Oldest(S, n)[i] = S[i]
  <1>1. Len(S) \in Nat /\ n \in Int /\ 1 \in Int
    BY LenProperties
  <1>2. \A i \in 1 .. n : S[i] \in Samples
    BY <1>1, ElementOfSeq
  <1>3. /\ SubSeq(S, 1, n) \in Seq(Samples)
        /\ Len(SubSeq(S, 1, n)) = IF 1 <= n THEN n - 1 + 1 ELSE 0
        /\ \A i \in 1 .. n - 1 + 1 : SubSeq(S, 1, n)[i] = S[1 + i - 1]
    BY <1>1, <1>2, SubSeqProperties
  <1> QED BY <1>1, <1>3 DEF Oldest

(* Counting the samples that have a signal adds up over concatenation.     *)
LEMMA CountConcat ==
    ASSUME NEW S \in Seq(Samples), NEW T \in Seq(Samples), NEW x
    PROVE  /\ Count(S, x) \in Nat
           /\ Count(S \o T, x) = Count(S, x) + Count(T, x)
  <1> DEFINE A == {i \in 1 .. Len(S) : x \in S[i].signals}
             B == {i \in 1 .. Len(T) : x \in T[i].signals}
             C == {i \in 1 .. Len(S) + Len(T) : x \in (S \o T)[i].signals}
             D == {i \in C : i > Len(S)}
             f == [i \in B |-> i + Len(S)]
  <1>1. Len(S) \in Nat /\ Len(T) \in Nat
    BY LenProperties
  <1>2. Count(S, x) = Cardinality(A) /\ Count(T, x) = Cardinality(B)
    BY LenProperties DEF Count
  <1>3. /\ Len(S \o T) = Len(S) + Len(T)
        /\ DOMAIN (S \o T) = 1 .. Len(S) + Len(T)
        /\ \A i \in 1 .. Len(S) + Len(T) :
             (S \o T)[i] = IF i <= Len(S) THEN S[i] ELSE T[i - Len(S)]
    BY ConcatProperties, LenProperties
  <1>4. Count(S \o T, x) = Cardinality(C)
    BY <1>3 DEF Count
  <1>5. IsFiniteSet(A) /\ IsFiniteSet(B)
    <2>1. IsFiniteSet(1 .. Len(S)) /\ IsFiniteSet(1 .. Len(T))
      BY <1>1, FS_Interval
    <2> QED BY <2>1, FS_Subset
  <1>6. C = A \cup D /\ A \cap D = {}
    BY <1>1, <1>3
  <1>7. Cardinality(D) = Cardinality(B) /\ IsFiniteSet(D)
    <2>1. f \in [B -> D]
      BY <1>1, <1>3
    <2>2. \A i, j \in B : f[i] = f[j] => i = j
      BY <1>1
    <2>3. \A k \in D : \E i \in B : f[i] = k
      <3> TAKE k \in D
      <3>1. k - Len(S) \in B /\ f[k - Len(S)] = k
        BY <1>1, <1>3
      <3> QED BY <3>1
    <2>4. f \in Bijection(B, D)
      BY <2>1, <2>2, <2>3 DEF Bijection, Injection, Surjection, IsInjective
    <2>5. ExistsBijection(B, D)
      BY <2>4 DEF ExistsBijection
    <2> QED BY <1>5, <2>5, FS_Bijection
  <1> HIDE DEF A, B, C, D, f
  <1>8. Cardinality(C) = Cardinality(A) + Cardinality(D) - Cardinality(A \cap D)
    BY <1>5, <1>6, <1>7, FS_Union
  <1>9. Cardinality(A \cap D) = 0
    BY <1>6, FS_EmptySet
  <1>10. Cardinality(A) \in Nat /\ Cardinality(B) \in Nat
    BY <1>5, FS_CardinalityType
  <1> QED BY <1>2, <1>4, <1>7, <1>8, <1>9, <1>10

(* A set of naturals with a member has a least one.                        *)
LEMMA Least ==
    ASSUME NEW K, K \subseteq Nat, K # {}
    PROVE  \E i \in K : \A j \in K : i <= j
  <1>1. \E i \in K : \A j \in K : ~ (<<j, i>> \in OpToRel(<, Nat))
    BY NatLessThanWellFounded, WFMin
  <1>2. PICK i \in K : \A j \in K : ~ (<<j, i>> \in OpToRel(<, Nat))
    BY <1>1
  <1>3. ASSUME NEW j \in K
        PROVE  i <= j
    <2>1. ~ (j < i)
      BY <1>2, Zenon DEF OpToRel
    <2> QED BY <2>1
  <1> QED BY <1>3

(* Eviction leaves a newest part that begins at the first sample that is   *)
(* not expired, and never leaves the newest sample out.                    *)
LEMMA EvictLeavesNewest ==
    ASSUME NEW S \in Seq(Samples), Len(S) # 0
    PROVE  \E n \in 1 .. Len(S) :
             /\ Evict(S) = Newest(S, n)
             /\ ~ Expired(S, Len(S) - n + 1)
             /\ \A i \in 1 .. Len(S) - n : Expired(S, i)
  <1> DEFINE kept == {i \in 1 .. Len(S) : ~ Expired(S, i)}
             from == CHOOSE i \in kept : \A j \in kept : i <= j
  <1>1. Len(S) \in 1 .. Len(S) /\ Len(S) \in Nat
    BY LenProperties
  <1>2. S[Len(S)].time \in Nat
    <2>1. S[Len(S)] \in Samples
      BY <1>1, ElementOfSeq
    <2>2. S[Len(S)].time \in 0 .. LastTime
      BY <2>1 DEF Samples, Times
    <2> QED BY <2>2, NumbersAssumption
  <1>3. ~ Expired(S, Len(S))
    BY <1>2, NumbersAssumption DEF Expired, \ominus
  <1>4. Len(S) \in kept /\ kept \subseteq Nat
    BY <1>1, <1>3
  <1> HIDE DEF kept
  <1>5. from \in kept /\ \A j \in kept : from <= j
    BY <1>4, Least
  <1> HIDE DEF from
  <1>6. from \in 1 .. Len(S) /\ ~ Expired(S, from)
    BY <1>5 DEF kept
  <1>7. Len(S) - from + 1 \in 1 .. Len(S) /\ Len(S) - (Len(S) - from + 1) + 1 = from
    BY <1>1, <1>6
  <1>8. Evict(S) = SubSeq(S, from, Len(S))
    BY DEF Evict, from, kept
  <1>9. Evict(S) = Newest(S, Len(S) - from + 1)
    BY <1>7, <1>8 DEF Newest
  <1>10. \A i \in 1 .. Len(S) - (Len(S) - from + 1) : Expired(S, i)
    <2> TAKE i \in 1 .. Len(S) - (Len(S) - from + 1)
    <2>1. i \in 1 .. Len(S) /\ ~ (from <= i)
      BY <1>1, <1>6
    <2> QED BY <1>5, <2>1 DEF kept
  <1> QED BY <1>6, <1>7, <1>9, <1>10

-----------------------------------------------------------------------------
RingInv == TypeOK /\ DropsCounted /\ WithinCapacity

(* The ring after a push, before eviction and after it, as newest parts of *)
(* the history.                                                            *)
LEMMA PushLeaves ==
    ASSUME RingInv, NEW s \in Samples, Push(s)
    PROVE  LET L == Len(samples)
               P == Len(pushed)
               r == IF L < Limit THEN L ELSE Limit - 1
               A == Append(Room, s)
           IN  /\ r \in 0 .. P /\ r <= L
               /\ A \in Seq(Samples) /\ Len(A) = r + 1
               /\ Len(pushed') = P + 1 /\ pushed'[P + 1] = s
               /\ \A i \in 1 .. P : pushed'[i] = pushed[i]
               /\ \A i \in 1 .. r + 1 : A[i] = pushed'[P - r + i]
               /\ samples' = Evict(A)
  <1> DEFINE L == Len(samples)
             P == Len(pushed)
             r == IF L < Limit THEN L ELSE Limit - 1
             A == Append(Room, s)
  <1>1. /\ samples \in Seq(Samples) /\ pushed \in Seq(Samples)
        /\ L \in Nat /\ P \in Nat /\ L <= P /\ L <= Limit
    BY LenProperties DEF RingInv, TypeOK, DropsCounted, WithinCapacity
  <1>2. Limit \in Nat \ {0}
    BY NumbersAssumption DEF Limit
  <1>3. r \in 0 .. L /\ r + 1 <= Limit
    BY <1>1, <1>2
  <1>4. /\ Room \in Seq(Samples) /\ Len(Room) = r
        /\ \A i \in 1 .. r : Room[i] = samples[L - r + i]
    BY <1>1, <1>3, NewestIs DEF Room
  <1>5. /\ A \in Seq(Samples) /\ Len(A) = r + 1
        /\ \A i \in 1 .. r : A[i] = Room[i]
        /\ A[r + 1] = s
    BY <1>4, AppendProperties
  <1>6. samples' = Evict(A) /\ pushed' = Append(pushed, s)
    BY DEF Push
  <1> HIDE DEF r, A
  <1>7. /\ pushed' \in Seq(Samples) /\ Len(pushed') = P + 1
        /\ \A i \in 1 .. P : pushed'[i] = pushed[i]
        /\ pushed'[P + 1] = s
    BY <1>1, <1>6, AppendProperties
  <1>8. \A i \in 1 .. L : samples[i] = pushed[P - L + i]
    <2>1. samples = Newest(pushed, L)
      BY DEF RingInv, DropsCounted
    <2>2. L \in 0 .. Len(pushed)
      BY <1>1
    <2>3. \A i \in 1 .. L : Newest(pushed, L)[i] = pushed[Len(pushed) - L + i]
      BY <1>1, <2>2, NewestIs
    <2> QED BY <2>1, <2>3
  <1>9. ASSUME NEW i \in 1 .. r + 1
        PROVE  A[i] = pushed'[P - r + i]
    <2>1. CASE i = r + 1
      <3>1. P - r + i = P + 1
        BY <1>1, <1>3, <2>1
      <3> QED BY <1>5, <1>7, <2>1, <3>1
    <2>2. CASE i # r + 1
      <3> DEFINE h == P - r + i
      <3>1. i \in 1 .. r /\ h \in 1 .. P /\ L - r + i \in 1 .. L /\ P - L + (L - r + i) = h
        BY <1>1, <1>3, <2>2
      <3> HIDE DEF h
      <3>2. A[i] = pushed[h]
        BY <1>4, <1>5, <1>8, <3>1
      <3>3. A[i] = pushed'[h]
        BY <1>7, <3>1, <3>2
      <3> QED BY <3>3 DEF h
    <2> QED BY <2>1, <2>2
  <1>10. r \in 0 .. P /\ r <= L
    BY <1>1, <1>3
  <1> QED BY <1>5, <1>6, <1>7, <1>9, <1>10 DEF r, A

(* One push keeps the ring the newest part of the history and counts what  *)
(* it drops, whether for capacity or for age.                              *)
LEMMA PushKeeps ==
    ASSUME RingInv, NEW s \in Samples, Push(s)
    PROVE  /\ samples' \in Seq(Samples) /\ pushed' \in Seq(Samples)
           /\ dropped' \in [Signals -> Nat]
           /\ DropsCounted' /\ WithinCapacity'
  <1> DEFINE L == Len(samples)
             P == Len(pushed)
             r == IF L < Limit THEN L ELSE Limit - 1
             A == Append(Room, s)
  <1>1. /\ samples \in Seq(Samples) /\ pushed \in Seq(Samples)
        /\ L \in Nat /\ P \in Nat /\ L <= P /\ L <= Limit
        /\ dropped \in [Signals -> Nat]
    BY LenProperties DEF RingInv, TypeOK, DropsCounted, WithinCapacity
  <1>2. Limit \in Nat \ {0}
    BY NumbersAssumption DEF Limit
  <1>3. r \in 0 .. L /\ r + 1 <= Limit
    BY <1>1, <1>2
  <1>4. /\ A \in Seq(Samples) /\ Len(A) = r + 1
        /\ Len(pushed') = P + 1
        /\ \A i \in 1 .. P : pushed'[i] = pushed[i]
        /\ \A i \in 1 .. r + 1 : A[i] = pushed'[P - r + i]
        /\ samples' = Evict(A)
    BY PushLeaves
  <1>5. PICK n \in 1 .. r + 1 : Evict(A) = Newest(A, n)
    <2> HIDE DEF r, A
    <2>1. Len(A) # 0
      BY <1>3, <1>4
    <2>2. \E n \in 1 .. Len(A) : Evict(A) = Newest(A, n)
      BY <1>4, <2>1, EvictLeavesNewest
    <2> QED BY <1>4, <2>2
  <1>6. /\ samples' = Newest(A, n)
        /\ dropped' = [x \in Signals |->
                         dropped[x] + Count(Oldest(samples, L + 1 - Len(Newest(A, n))), x)]
    BY <1>5 DEF Push
  <1>7. pushed' \in Seq(Samples)
    BY <1>1, AppendProperties DEF Push
  <1> HIDE DEF r, A
  <1>8. /\ samples' \in Seq(Samples) /\ Len(samples') = n
        /\ \A i \in 1 .. n : samples'[i] = A[r + 1 - n + i]
    <2>1. n \in 0 .. Len(A) /\ A \in Seq(Samples) /\ Len(A) = r + 1
      BY <1>3, <1>4
    <2>2. /\ Newest(A, n) \in Seq(Samples) /\ Len(Newest(A, n)) = n
          /\ \A i \in 1 .. n : Newest(A, n)[i] = A[Len(A) - n + i]
      BY <2>1, NewestIs
    <2>3. \A i \in 1 .. n : Newest(A, n)[i] = A[r + 1 - n + i]
      <3>1. Len(A) = r + 1 /\ r \in Int
        BY <1>1, <1>3, <2>1
      <3>2. \A i \in 1 .. n : Len(A) - n + i = r + 1 - n + i
        BY <3>1
      <3> QED BY <2>2, <3>2
    <2> QED BY <1>6, <2>2, <2>3
  <1>9. samples' = Newest(pushed', n)
    <2>1. n \in 0 .. Len(pushed')
      BY <1>1, <1>3, <1>4
    <2>2. /\ Newest(pushed', n) \in Seq(Samples) /\ Len(Newest(pushed', n)) = n
          /\ \A i \in 1 .. n : Newest(pushed', n)[i] = pushed'[P + 1 - n + i]
      <3>1. /\ Newest(pushed', n) \in Seq(Samples) /\ Len(Newest(pushed', n)) = n
            /\ \A i \in 1 .. n :
                 Newest(pushed', n)[i] = pushed'[Len(pushed') - n + i]
        BY <1>7, <2>1, NewestIs
      <3>2. Len(pushed') = P + 1
        BY <1>4
      <3> QED BY <3>1, <3>2
    <2>3. ASSUME NEW i \in 1 .. n
          PROVE  samples'[i] = Newest(pushed', n)[i]
      <3>1. /\ r + 1 - n + i \in 1 .. r + 1
            /\ P - r + (r + 1 - n + i) = P + 1 - n + i
        BY <1>1, <1>3
      <3>2. A[r + 1 - n + i] = pushed'[P + 1 - n + i]
        BY <1>4, <3>1
      <3> QED BY <1>8, <2>2, <3>2
    <2> QED BY <1>8, <2>2, <2>3, SeqEqual
  <1>10. \A i \in 1 .. L : samples[i] = pushed[P - L + i]
    <2>1. samples = Newest(pushed, L)
      BY DEF RingInv, DropsCounted
    <2>2. L \in 0 .. Len(pushed)
      BY <1>1
    <2>3. \A i \in 1 .. L : Newest(pushed, L)[i] = pushed[Len(pushed) - L + i]
      BY <1>1, <2>2, NewestIs
    <2> QED BY <2>1, <2>3
  <1> DEFINE lost == Oldest(samples, L + 1 - n)
             before == Oldest(pushed, P - L)
  <1>11. /\ L + 1 - n \in 0 .. L
         /\ lost \in Seq(Samples) /\ Len(lost) = L + 1 - n
         /\ \A i \in 1 .. L + 1 - n : lost[i] = samples[i]
    <2>1. L + 1 - n \in 0 .. L
      BY <1>1, <1>3
    <2> QED BY <1>1, <2>1, OldestIs
  <1>12. /\ P - L \in 0 .. P
         /\ before \in Seq(Samples) /\ Len(before) = P - L
         /\ \A i \in 1 .. P - L : before[i] = pushed[i]
    <2>1. P - L \in 0 .. P
      BY <1>1
    <2> QED BY <1>1, <2>1, OldestIs
  <1> HIDE DEF lost, before
  <1>13. Oldest(pushed', P + 1 - n) = before \o lost
    <2>1. P + 1 - n \in 0 .. Len(pushed') /\ P + 1 - n = (P - L) + (L + 1 - n)
      BY <1>1, <1>3, <1>4
    <2>2. /\ Oldest(pushed', P + 1 - n) \in Seq(Samples)
          /\ Len(Oldest(pushed', P + 1 - n)) = P + 1 - n
          /\ \A i \in 1 .. P + 1 - n : Oldest(pushed', P + 1 - n)[i] = pushed'[i]
      BY <1>7, <2>1, OldestIs
    <2>3. /\ before \o lost \in Seq(Samples)
          /\ Len(before \o lost) = P + 1 - n
          /\ \A i \in 1 .. P + 1 - n :
               (before \o lost)[i] = IF i <= P - L THEN before[i] ELSE lost[i - (P - L)]
      <3>1. /\ before \o lost \in Seq(Samples)
            /\ Len(before \o lost) = Len(before) + Len(lost)
            /\ \A i \in 1 .. Len(before) + Len(lost) :
                 (before \o lost)[i] =
                   IF i <= Len(before) THEN before[i] ELSE lost[i - Len(before)]
        BY <1>11, <1>12, ConcatProperties
      <3>2. Len(before) + Len(lost) = P + 1 - n /\ Len(before) = P - L
        BY <1>11, <1>12, <2>1
      <3> QED BY <3>1, <3>2
    <2>4. ASSUME NEW i \in 1 .. P + 1 - n
          PROVE  Oldest(pushed', P + 1 - n)[i] = (before \o lost)[i]
      <3>1. Oldest(pushed', P + 1 - n)[i] = pushed[i]
        <4>1. i \in 1 .. P
          BY <1>1, <1>3
        <4> QED BY <1>4, <2>2, <4>1
      <3>2. CASE i <= P - L
        BY <1>1, <1>12, <2>3, <3>1, <3>2
      <3>3. CASE ~ (i <= P - L)
        <4>1. /\ i - (P - L) \in 1 .. L + 1 - n /\ i - (P - L) \in 1 .. L
              /\ P - L + (i - (P - L)) = i
          BY <1>1, <1>11, <2>1, <3>3
        <4> QED BY <1>10, <1>11, <2>3, <3>1, <3>3, <4>1
      <3> QED BY <3>2, <3>3
    <2> QED BY <2>2, <2>3, <2>4, SeqEqual
  <1>14. dropped' = [x \in Signals |-> dropped[x] + Count(lost, x)]
    BY <1>6, <1>8 DEF lost
  <1>15. dropped' \in [Signals -> Nat]
    <2>1. \A x \in Signals : dropped[x] \in Nat /\ Count(lost, x) \in Nat
      BY <1>1, <1>11, CountConcat
    <2> QED BY <1>14, <2>1
  <1>16. ASSUME NEW x \in Signals
         PROVE  dropped'[x] = Count(Oldest(pushed', P + 1 - n), x)
    <2>1. dropped[x] = Count(before, x)
      BY DEF RingInv, DropsCounted, Gone, before
    <2>2. Count(before \o lost, x) = Count(before, x) + Count(lost, x)
      BY <1>11, <1>12, CountConcat
    <2>3. dropped'[x] = dropped[x] + Count(lost, x)
      BY <1>14
    <2> QED BY <1>13, <2>1, <2>2, <2>3
  <1>17. Len(pushed') - Len(samples') = P + 1 - n /\ n <= P + 1 /\ n <= Limit
    <2>1. n \in 1 .. L + 1 /\ n <= Limit
      BY <1>1, <1>2, <1>3
    <2> QED BY <1>1, <1>4, <1>8, <2>1
  <1> HIDE DEF L, P
  <1>18. DropsCounted'
    <2>1. Gone' = P + 1 - n
      BY <1>17 DEF Gone
    <2> QED BY <1>8, <1>4, <1>9, <1>16, <1>17, <2>1 DEF DropsCounted
  <1>19. WithinCapacity'
    BY <1>8, <1>17 DEF WithinCapacity, Limit
  <1> QED BY <1>7, <1>8, <1>15, <1>18, <1>19

(* What the clock reads is a time, even if the read fails.                 *)
LEMMA ReadingIsTime ==
    ASSUME TypeOK, NEW t \in Readings
    PROVE  t \in Times
  BY NumbersAssumption DEF TypeOK, Readings, Times

(* The ring starts empty, with nothing counted.                            *)
LEMMA RingInit == Init => RingInv
  <1> SUFFICES ASSUME Init PROVE RingInv
    OBVIOUS
  <1>1. TypeOK
    <2>1. samples \in Seq(Samples) /\ pushed \in Seq(Samples)
      BY EmptySeq DEF Init
    <2>2. now \in Times /\ last \in Times \cup {Never} /\ dropped \in [Signals -> Nat]
      BY NumbersAssumption DEF Init, Times
    <2> QED BY <2>1, <2>2 DEF Init, TypeOK
  <1>2. /\ samples = <<>> /\ pushed = <<>> /\ Len(samples) = 0 /\ Len(pushed) = 0
        /\ 0 \in 0 .. Len(pushed)
    BY EmptySeq DEF Init
  <1>3. DropsCounted
    <2>1. <<>> \in Seq(Samples)
      BY EmptySeq
    <2>2. Newest(pushed, 0) = <<>>
      BY <1>2, SubSeqEmpty DEF Newest
    <2>3. Oldest(pushed, 0) = <<>>
      BY SubSeqEmpty DEF Oldest
    <2>4. ASSUME NEW x PROVE Count(<<>>, x) = 0
      <3>1. DOMAIN <<>> = {}
        BY <2>1, LenProperties
      <3> QED BY <3>1, FS_EmptySet DEF Count
    <2>5. Gone = 0
      BY <1>2 DEF Gone
    <2> QED BY <1>2, <2>2, <2>3, <2>4, <2>5 DEF Init, DropsCounted
  <1>4. WithinCapacity
    BY <1>2, NumbersAssumption DEF WithinCapacity, Limit
  <1> QED BY <1>1, <1>3, <1>4 DEF RingInv

(* Every step of a service run keeps the ring.                             *)
LEMMA RingNext == RingInv /\ [Next]_vars => RingInv'
  <1> SUFFICES ASSUME RingInv, [Next]_vars PROVE RingInv'
    OBVIOUS
  <1>1. TypeOK
    BY DEF RingInv
  <1>2. ASSUME UNCHANGED <<samples, dropped, pushed>>
        PROVE  DropsCounted' /\ WithinCapacity'
    BY <1>2 DEF RingInv, DropsCounted, WithinCapacity, Gone
  <1>3. CASE Tick
    BY <1>1, <1>2, <1>3, NumbersAssumption DEF Tick, TypeOK, Times, RingInv
  <1>4. ASSUME NEW t \in Readings, ThrottledSample(t)
        PROVE  RingInv'
    BY <1>1, <1>2, <1>4 DEF ThrottledSample, TypeOK, RingInv
  <1>5. ASSUME NEW t \in Readings, NEW signals \in SUBSET Semantic,
               SemanticSample(t, signals)
        PROVE  RingInv'
    <2>1. t \in Times
      BY <1>1, <1>5, ReadingIsTime
    <2>2. [time |-> t, signals |-> signals] \in Samples
      BY <2>1 DEF Samples, Signals
    <2> QED BY <1>1, <1>5, <2>1, <2>2, PushKeeps DEF SemanticSample, TypeOK, RingInv
  <1>6. ASSUME NEW t \in Readings, NEW x \in Events, EventSample(t, x)
        PROVE  RingInv'
    <2>1. t \in Times
      BY <1>1, <1>6, ReadingIsTime
    <2>2. [time |-> t, signals |-> {x}] \in Samples
      BY <1>6, <2>1 DEF Samples, Signals
    <2> QED BY <1>1, <1>6, <2>2, PushKeeps DEF EventSample, TypeOK, RingInv
  <1>7. CASE SwitchProfile
    <2> DEFINE fresh == [x \in Signals |-> 0]
    <2>1. samples' = <<>> /\ pushed' = <<>> /\ dropped' = fresh /\ Len(<<>>) = 0
      BY <1>7, EmptySeq DEF SwitchProfile
    <2>2. TypeOK'
      BY <1>1, <1>7, NumbersAssumption, EmptySeq DEF SwitchProfile, TypeOK, Times
    <2>3. Newest(<<>>, 0) = <<>> /\ Oldest(<<>>, 0) = <<>>
      BY <2>1, SubSeqEmpty DEF Newest, Oldest
    <2>4. ASSUME NEW x PROVE Count(<<>>, x) = 0
      <3>1. <<>> \in Seq(Samples)
        BY EmptySeq
      <3>2. DOMAIN <<>> = {}
        BY <2>1, <3>1, LenProperties
      <3> QED BY <3>2, FS_EmptySet DEF Count
    <2>5. Gone' = 0
      BY <2>1 DEF Gone
    <2> QED
      BY <2>1, <2>2, <2>3, <2>4, <2>5, NumbersAssumption
      DEF RingInv, DropsCounted, WithinCapacity, Limit
  <1>8. CASE UNCHANGED vars
    BY <1>1, <1>2, <1>8 DEF vars, TypeOK, RingInv
  <1> QED BY <1>3, <1>4, <1>5, <1>6, <1>7, <1>8 DEF Next

(* The ring invariant holds in every state.                                *)
LEMMA RingSafety == Spec => []RingInv
  BY RingInit, RingNext, PTL DEF Spec

(* Every variable of the ring keeps its type.                              *)
THEOREM RingTypeCorrect == Spec => []TypeOK
  BY RingSafety, PTL DEF RingInv

(* Every sample pushed is retained in order or counted as dropped, for     *)
(* each of its signals: what RecorderBufferStatus reports is all there is. *)
THEOREM DropsAreCounted == Spec => []DropsCounted
  BY RingSafety, PTL DEF RingInv

(* The ring never holds more than its capacity.                            *)
THEOREM CapacityIsKept == Spec => []WithinCapacity
  BY RingSafety, PTL DEF RingInv

-----------------------------------------------------------------------------
(* The governor: its last time is that of the newest semantic sample.      *)
LastIsNewest ==
    \A i \in 1 .. Len(pushed) :
        IsSemantic(pushed[i]) => last # Never /\ pushed[i].time <= last

GovernorInv == LastIsNewest /\ GovernedApart

(* Every step keeps the governor and what it lets through.                 *)
LEMMA GovernorNext == TypeOK /\ GovernorInv /\ [Next]_vars => GovernorInv'
  <1> SUFFICES ASSUME TypeOK, GovernorInv, [Next]_vars PROVE GovernorInv'
    OBVIOUS
  <1> USE DEF GovernorInv, LastIsNewest, GovernedApart
  <1>1. CASE UNCHANGED <<pushed, last>>
    BY <1>1 DEF IsSemantic
  <1>2. Len(pushed) \in Nat /\ \A i \in 1 .. Len(pushed) : pushed[i].time \in Nat
    <2>1. \A i \in 1 .. Len(pushed) : pushed[i] \in Samples
      BY ElementOfSeq DEF TypeOK
    <2> QED BY <2>1, LenProperties DEF TypeOK, Samples, Times
  <1>3. ASSUME NEW s \in Samples, Push(s)
        PROVE  /\ Len(pushed') = Len(pushed) + 1
               /\ \A i \in 1 .. Len(pushed) : pushed'[i] = pushed[i]
               /\ pushed'[Len(pushed) + 1] = s
    BY <1>3, AppendProperties DEF Push, TypeOK
  <1>4. ASSUME NEW t \in Readings, NEW signals \in SUBSET Semantic,
               SemanticSample(t, signals)
        PROVE  GovernorInv'
    <2> DEFINE s == [time |-> t, signals |-> signals]
    <2>1. t \in Times /\ t \in Nat /\ t # Never
      BY <1>4, ReadingIsTime, NumbersAssumption DEF Times, Never
    <2>2. s \in Samples /\ s.time = t
      BY <2>1 DEF Samples, Signals
    <2>3. /\ Len(pushed') = Len(pushed) + 1
          /\ \A i \in 1 .. Len(pushed) : pushed'[i] = pushed[i]
          /\ pushed'[Len(pushed) + 1] = s
      BY <1>3, <1>4, <2>2 DEF SemanticSample
    <2>4. last = Never \/ (last \in Nat /\ last + MinInterval <= t)
      <3>1. last = Never \/ last \in Nat
        BY NumbersAssumption DEF TypeOK, Times
      <3>2. last = Never \/ t \ominus last >= MinInterval
        BY <1>4 DEF SemanticSample, ShouldRecord
      <3>3. ASSUME last \in Nat, t \ominus last >= MinInterval
            PROVE  last + MinInterval <= t
        <4>1. CASE t > last
          <5>1. t \ominus last = t - last
            BY <4>1 DEF \ominus
          <5> QED BY <2>1, <3>3, <5>1, NumbersAssumption
        <4>2. CASE ~ (t > last)
          <5>1. t \ominus last = 0
            BY <4>2 DEF \ominus
          <5> QED BY <3>3, <5>1, NumbersAssumption
        <4> QED BY <4>1, <4>2
      <3> QED BY <3>1, <3>2, <3>3
    <2>5. \A i \in 1 .. Len(pushed) :
            IsSemantic(pushed[i]) => pushed[i].time + MinInterval <= t
      BY <1>2, <2>1, <2>4, NumbersAssumption
    <2>6. last' = t
      BY <1>4 DEF SemanticSample
    <2> HIDE DEF s
    <2>7. LastIsNewest'
      <3> SUFFICES ASSUME NEW i \in 1 .. Len(pushed'), IsSemantic(pushed'[i])
                   PROVE  last' # Never /\ pushed'[i].time <= last'
        BY DEF IsSemantic
      <3>1. CASE i \in 1 .. Len(pushed)
        <4>1. IsSemantic(pushed[i])
          BY <2>3, <3>1
        <4> QED BY <1>2, <2>1, <2>3, <2>5, <2>6, <3>1, <4>1, NumbersAssumption
      <3>2. CASE i = Len(pushed) + 1
        BY <2>1, <2>2, <2>3, <2>6, <3>2
      <3> QED BY <1>2, <2>3, <3>1, <3>2
    <2>8. GovernedApart'
      <3> SUFFICES ASSUME NEW i \in 1 .. Len(pushed'), NEW j \in 1 .. Len(pushed'), i < j,
                          IsSemantic(pushed'[i]), IsSemantic(pushed'[j])
                   PROVE  pushed'[j].time >= pushed'[i].time + MinInterval
        BY DEF IsSemantic
      <3>1. i \in 1 .. Len(pushed) /\ pushed'[i] = pushed[i] /\ IsSemantic(pushed[i])
        BY <1>2, <2>3
      <3>2. CASE j \in 1 .. Len(pushed)
        <4>1. pushed'[j] = pushed[j] /\ IsSemantic(pushed[j])
          BY <2>3, <3>2
        <4> QED BY <3>1, <3>2, <4>1
      <3>3. CASE j = Len(pushed) + 1
        BY <1>2, <2>1, <2>2, <2>3, <2>5, <3>1, <3>3, NumbersAssumption
      <3>4. j \in 1 .. Len(pushed) \/ j = Len(pushed) + 1
        <4>1. Len(pushed') = Len(pushed) + 1
          BY <2>3
        <4>2. j \in 1 .. Len(pushed) + 1
          BY <4>1
        <4>3. Len(pushed) \in Nat
          BY <1>2
        <4> HIDE DEF GovernorInv
        <4> QED BY <4>2, <4>3
      <3> QED BY <3>2, <3>3, <3>4
    <2> QED BY <2>7, <2>8
  <1>5. ASSUME NEW t \in Readings, NEW x \in Events, EventSample(t, x)
        PROVE  GovernorInv'
    <2> DEFINE s == [time |-> t, signals |-> {x}]
    <2>1. t \in Times
      BY <1>5, ReadingIsTime
    <2>2. s \in Samples /\ ~ IsSemantic(s)
      BY <1>5, <2>1, SignalsAssumption DEF Samples, Signals, IsSemantic
    <2>3. /\ Len(pushed') = Len(pushed) + 1
          /\ \A i \in 1 .. Len(pushed) : pushed'[i] = pushed[i]
          /\ pushed'[Len(pushed) + 1] = s
      BY <1>3, <1>5, <2>2 DEF EventSample
    <2>4. last' = last
      BY <1>5 DEF EventSample
    <2> HIDE DEF s
    <2>5. \A i \in 1 .. Len(pushed') :
            IsSemantic(pushed'[i]) => i \in 1 .. Len(pushed) /\ pushed'[i] = pushed[i]
      BY <1>2, <2>2, <2>3 DEF IsSemantic
    <2> QED BY <2>4, <2>5 DEF IsSemantic
  <1>6. CASE SwitchProfile
    <2>1. Len(pushed') = 0
      BY <1>6 DEF SwitchProfile
    <2> QED BY <2>1
  <1> QED
    BY <1>1, <1>4, <1>5, <1>6 DEF Next, Tick, ThrottledSample, vars

(* The semantic samples of a profile are a sampling interval apart, even   *)
(* if the clock fails and events are pushed in between.                    *)
THEOREM GovernorKeepsApart == Spec => []GovernedApart
  <1>1. Init => GovernorInv
    <2> SUFFICES ASSUME Init PROVE GovernorInv
      OBVIOUS
    <2>1. Len(pushed) = 0
      BY DEF Init
    <2> QED BY <2>1 DEF GovernorInv, LastIsNewest, GovernedApart
  <1>2. Spec => [](TypeOK /\ GovernorInv)
    BY <1>1, RingInit, RingNext, GovernorNext, PTL DEF Spec, RingInv
  <1> QED BY <1>2, PTL DEF GovernorInv

-----------------------------------------------------------------------------
(* The retention window.                                                   *)

(* A push after sound clock reads keeps the longest window that may stay.  *)
LEMMA PushKeepsWindow ==
    ASSUME RingInv, KeepsWindow, NEW s \in Samples, Push(s)
    PROVE  KeepsWindow'
  <1> SUFFICES ASSUME ClockWasSound'
               PROVE  /\ Fits(Len(samples))'
                      /\ \A n \in 1 .. Len(pushed') : Fits(n)' => n <= Len(samples')
    BY DEF KeepsWindow
  <1> DEFINE L == Len(samples)
             P == Len(pushed)
             r == IF L < Limit THEN L ELSE Limit - 1
             A == Append(Room, s)
             h(i) == pushed'[i].time
  <1>1. /\ r \in 0 .. P /\ r <= L
        /\ A \in Seq(Samples) /\ Len(A) = r + 1
        /\ Len(pushed') = P + 1 /\ pushed'[P + 1] = s
        /\ \A i \in 1 .. P : pushed'[i] = pushed[i]
        /\ \A i \in 1 .. r + 1 : A[i] = pushed'[P - r + i]
        /\ samples' = Evict(A)
    BY PushLeaves
  <1>2. /\ L \in Nat /\ P \in Nat /\ L <= P /\ L <= Limit
        /\ Limit \in Nat \ {0} /\ r + 1 <= Limit
        /\ r = L \/ r = Limit - 1
    <2>1. Limit \in Nat \ {0}
      BY NumbersAssumption DEF Limit
    <2>2. L \in Nat /\ P \in Nat /\ L <= P /\ L <= Limit
      BY LenProperties DEF RingInv, TypeOK, DropsCounted, WithinCapacity
    <2> QED BY <2>1, <2>2
  <1> HIDE DEF r, A, L, P
  <1>3. /\ Retention \in Nat /\ pushed' \in Seq(Samples)
        /\ \A i \in 1 .. P + 1 : h(i) \in Nat
    <2>1. pushed' \in Seq(Samples)
      BY PushKeeps
    <2>2. \A i \in 1 .. P + 1 : pushed'[i] \in Samples
      BY <1>1, <2>1, ElementOfSeq
    <2>3. \A i \in 1 .. P + 1 : h(i) \in 0 .. LastTime
      BY <2>2 DEF Samples, Times
    <2> QED BY <2>1, <2>3, NumbersAssumption
  <1>4. \A i, j \in 1 .. P + 1 : i < j => h(i) <= h(j)
    BY <1>1 DEF ClockWasSound
  <1>5. PICK n \in 1 .. r + 1 :
          /\ Evict(A) = Newest(A, n)
          /\ ~ Expired(A, r + 1 - n + 1)
          /\ \A i \in 1 .. r + 1 - n : Expired(A, i)
    <2>1. Len(A) # 0
      BY <1>1
    <2>2. \E n \in 1 .. Len(A) :
            /\ Evict(A) = Newest(A, n)
            /\ ~ Expired(A, Len(A) - n + 1)
            /\ \A i \in 1 .. Len(A) - n : Expired(A, i)
      BY <1>1, <2>1, EvictLeavesNewest
    <2> QED BY <1>1, <2>2
  <1>6. Len(samples') = n
    <2>1. n \in 0 .. Len(A)
      BY <1>1
    <2> QED BY <1>1, <1>5, <2>1, NewestIs
  <1>7. \A i \in 1 .. r + 1 : Expired(A, i) <=> h(P - r + i) + Retention < h(P + 1)
    <2> TAKE i \in 1 .. r + 1
    <2>1. P - r + i \in 1 .. P + 1 /\ P - r + (r + 1) = P + 1 /\ P + 1 \in 1 .. P + 1
      BY <1>1, <1>2
    <2>2. A[i] = pushed'[P - r + i] /\ A[Len(A)] = pushed'[P + 1]
      <3>1. A[r + 1] = pushed'[P - r + (r + 1)]
        BY <1>1
      <3> QED BY <1>1, <2>1, <3>1
    <2>3. Expired(A, i) <=> h(P - r + i) < h(P + 1) \ominus Retention
      BY <2>2 DEF Expired
    <2>4. h(P - r + i) \in Nat /\ h(P + 1) \in Nat
      BY <1>3, <2>1
    <2>5. \A a, b \in Nat : a < b \ominus Retention <=> a + Retention < b
      BY <1>3 DEF \ominus
    <2> HIDE DEF h
    <2> QED BY <2>3, <2>4, <2>5
  <1>8. Fits(Len(samples))'
    <2>1. n <= Limit
      BY <1>1, <1>2
    <2>2. ASSUME NEW i \in 1 .. P + 1, i > P + 1 - n
          PROVE  h(i) + Retention >= h(P + 1)
      <3> DEFINE k == r + 1 - n + 1
                 f == P - r + k
      <3>1. k \in 1 .. r + 1 /\ f \in 1 .. P + 1 /\ f <= i /\ f \in Nat
        <4>1. P \in Nat /\ r \in 0 .. P
          BY <1>1, <1>2
        <4> QED BY <2>2, <4>1
      <3>2. ~ (h(f) + Retention < h(P + 1))
        <4>1. ~ Expired(A, k)
          BY <1>5
        <4>2. k \in 1 .. r + 1
          BY <3>1
        <4> HIDE DEF k
        <4>3. Expired(A, k) <=> h(P - r + k) + Retention < h(P + 1)
          BY <1>7, <4>2
        <4> QED BY <4>1, <4>3
      <3> HIDE DEF f
      <3>3. P + 1 \in 1 .. P + 1
        BY <1>2
      <3>4. h(f) <= h(i)
        BY <1>3, <1>4, <3>1
      <3>5. h(i) \in Nat /\ h(f) \in Nat /\ h(P + 1) \in Nat
        BY <1>3, <3>1, <3>3
      <3> HIDE DEF h
      <3> QED BY <1>3, <3>2, <3>4, <3>5
    <2>3. Fits(n)'
      <3>1. Len(pushed') = P + 1
        BY <1>1
      <3> QED BY <1>2, <2>1, <2>2, <3>1 DEF Fits, Limit
    <2> QED BY <1>6, <2>3
  <1>9. ASSUME NEW m \in 1 .. P + 1, Fits(m)'
        PROVE  m <= n
    <2>1. /\ m <= Limit
          /\ \A i \in 1 .. P + 1 : i > P + 1 - m => h(i) + Retention >= h(P + 1)
      <3>1. Len(pushed') = P + 1
        BY <1>1
      <3> QED BY <1>2, <1>9, <3>1 DEF Fits, Limit
    <2>2. m - 1 <= L
      <3>1. CASE m = 1
        BY <1>2, <3>1
      <3>2. CASE m # 1
        <4>1. m - 1 \in 1 .. P /\ m - 1 <= Limit
          BY <1>2, <2>1, <3>2
        <4>2. ClockWasSound
          BY <1>1, <1>2, <1>4 DEF ClockWasSound, P
        <4>3. ASSUME NEW i \in 1 .. P, i > P - (m - 1)
              PROVE  pushed[i].time + Retention >= pushed[P].time
          <5>1. i \in 1 .. P + 1 /\ P \in 1 .. P /\ P \in 1 .. P + 1 /\ P + 1 \in 1 .. P + 1
            BY <1>2, <4>1
          <5>2. h(i) + Retention >= h(P + 1)
            BY <1>2, <2>1, <4>3, <5>1
          <5>3. h(P) <= h(P + 1)
            BY <1>2, <1>4, <5>1
          <5>4. h(i) + Retention >= h(P)
            <6>1. h(i) \in Nat /\ h(P) \in Nat /\ h(P + 1) \in Nat
              BY <1>3, <5>1
            <6> HIDE DEF h
            <6> QED BY <1>3, <5>2, <5>3, <6>1
          <5> QED BY <1>1, <5>1, <5>4
        <4>4. Fits(m - 1)
          BY <4>1, <4>3 DEF Fits, P
        <4> QED BY <4>1, <4>2, <4>4 DEF KeepsWindow, P, L
      <3> QED BY <3>1, <3>2
    <2>3. m <= r + 1
      BY <1>1, <1>2, <2>1, <2>2
    <2>4. r + 1 - m + 1 \in 1 .. r + 1 /\ P - r + (r + 1 - m + 1) \in 1 .. P + 1
          /\ P - r + (r + 1 - m + 1) > P + 1 - m
      BY <1>1, <1>2, <2>3
    <2>5. h(P - r + (r + 1 - m + 1)) + Retention >= h(P + 1)
      BY <2>1, <2>4
    <2>6. P + 1 \in 1 .. P + 1
      BY <1>2
    <2>7. ~ Expired(A, r + 1 - m + 1)
      BY <1>3, <1>7, <2>4, <2>5, <2>6
    <2>8. ~ (r + 1 - m + 1 \in 1 .. r + 1 - n)
      BY <1>5, <2>7
    <2> QED BY <1>1, <2>3, <2>4, <2>8
  <1> QED BY <1>1, <1>6, <1>8, <1>9

(* As long as no clock read failed, the ring keeps the longest newest part *)
(* of the history that fits its capacity and its retention time.           *)
THEOREM RingKeepsWindow == Spec => []KeepsWindow
  <1>1. Init => KeepsWindow
    <2> SUFFICES ASSUME Init PROVE KeepsWindow
      OBVIOUS
    <2>1. Len(pushed) = 0 /\ Len(samples) = 0
      BY EmptySeq DEF Init
    <2> QED BY <2>1, NumbersAssumption DEF KeepsWindow, Fits, Limit
  <1>2. RingInv /\ KeepsWindow /\ [Next]_vars => KeepsWindow'
    <2> SUFFICES ASSUME RingInv, KeepsWindow, [Next]_vars PROVE KeepsWindow'
      OBVIOUS
    <2>1. TypeOK
      BY DEF RingInv
    <2>2. CASE UNCHANGED <<samples, pushed>>
      BY <2>2 DEF KeepsWindow, ClockWasSound, Fits, Limit
    <2>3. ASSUME NEW t \in Readings, NEW signals \in SUBSET Semantic,
                 SemanticSample(t, signals)
          PROVE  KeepsWindow'
      <3>1. [time |-> t, signals |-> signals] \in Samples
        BY <2>1, <2>3, ReadingIsTime DEF Samples, Signals
      <3> QED BY <2>3, <3>1, PushKeepsWindow DEF SemanticSample
    <2>4. ASSUME NEW t \in Readings, NEW x \in Events, EventSample(t, x)
          PROVE  KeepsWindow'
      <3>1. [time |-> t, signals |-> {x}] \in Samples
        BY <2>1, <2>4, ReadingIsTime DEF Samples, Signals
      <3> QED BY <2>4, <3>1, PushKeepsWindow DEF EventSample
    <2>5. CASE SwitchProfile
      <3>1. Len(pushed') = 0 /\ Len(samples') = 0
        BY <2>5, EmptySeq DEF SwitchProfile
      <3> QED BY <3>1, NumbersAssumption DEF KeepsWindow, Fits, Limit
    <2> QED
      BY <2>2, <2>3, <2>4, <2>5 DEF Next, Tick, ThrottledSample, vars
  <1> QED BY <1>1, <1>2, RingSafety, PTL DEF Spec

-----------------------------------------------------------------------------
(* What a freeze exports.  Its sums are recursive functions; UpTo stands   *)
(* for the induction over the numbers of samples.                          *)

(* A set of naturals that has 0 and with each of its members up to N the   *)
(* next one has everything up to N.                                        *)
LEMMA UpTo ==
    ASSUME NEW N \in Nat, NEW K \in SUBSET Nat, 0 \in K,
           \A n \in 0 .. N : n \in K /\ n < N => n + 1 \in K
    PROVE  0 .. N \subseteq K
  <1> DEFINE missing == (0 .. N) \ K
  <1>1. SUFFICES ASSUME missing # {}
                 PROVE  FALSE
    OBVIOUS
  <1>2. missing \subseteq Nat
    OBVIOUS
  <1> HIDE DEF missing
  <1>3. PICK i \in missing : \A j \in missing : i <= j
    BY <1>1, <1>2, Least
  <1>4. i \in 1 .. N /\ i \notin K
    BY <1>3 DEF missing
  <1>5. i - 1 \in 0 .. N /\ i - 1 < N /\ i - 1 + 1 = i /\ ~ (i <= i - 1)
    BY <1>4
  <1>6. i - 1 \in K
    BY <1>3, <1>5 DEF missing
  <1> QED BY <1>4, <1>5, <1>6

(* A function that starts at 0 and is given step by step exists.           *)
LEMMA RecursionExists ==
    ASSUME NEW N \in Nat, NEW step \in [1 .. N -> [Nat -> Nat]]
    PROVE  \E f \in [0 .. N -> Nat] :
             /\ f[0] = 0
             /\ \A k \in 1 .. N : f[k] = step[k][f[k - 1]]
  <1> DEFINE Rec(f, n) ==
               /\ f \in [0 .. n -> Nat]
               /\ f[0] = 0
               /\ \A k \in 1 .. n : f[k] = step[k][f[k - 1]]
             K == {n \in Nat : \E f : Rec(f, n)}
  <1>1. 0 \in K
    <2> DEFINE f == [k \in 0 .. 0 |-> 0]
    <2>1. Rec(f, 0)
      OBVIOUS
    <2> QED BY <2>1
  <1>2. ASSUME NEW n \in 0 .. N, n \in K, n < N
        PROVE  n + 1 \in K
    <2>1. PICK f : Rec(f, n)
      BY <1>2
    <2> DEFINE g == [k \in 0 .. n + 1 |-> IF k = n + 1 THEN step[n + 1][f[n]] ELSE f[k]]
    <2>2. n + 1 \in 1 .. N /\ n \in 0 .. n /\ n + 1 \in Nat
      BY <1>2
    <2>3. f[n] \in Nat /\ f \in [0 .. n -> Nat]
      BY <2>1, <2>2
    <2>4. step[n + 1][f[n]] \in Nat
      BY <2>2, <2>3
    <2>5. \A k \in 0 .. n + 1 : k = n + 1 \/ k \in 0 .. n
      BY <2>2
    <2>6. g \in [0 .. n + 1 -> Nat]
      BY <2>3, <2>4, <2>5
    <2>7. g[0] = 0
      BY <2>1, <2>2
    <2>8. ASSUME NEW k \in 1 .. n + 1
          PROVE  g[k] = step[k][g[k - 1]]
      <3>1. k - 1 \in 0 .. n /\ k - 1 # n + 1 /\ k \in 0 .. n + 1 /\ k - 1 \in 0 .. n + 1
        BY <2>2
      <3>2. g[k - 1] = f[k - 1]
        BY <3>1
      <3>3. CASE k = n + 1
        <4>1. k - 1 = n
          BY <2>2, <3>3
        <4> QED BY <3>1, <3>2, <3>3, <4>1
      <3>4. CASE k # n + 1
        <4>1. k \in 1 .. n
          BY <2>2, <3>4
        <4>2. f[k] = step[k][f[k - 1]]
          BY <2>1, <4>1
        <4>3. g[k] = f[k]
          BY <3>1, <3>4
        <4> QED BY <3>2, <4>2, <4>3
      <3> QED BY <3>3, <3>4
    <2> HIDE DEF g
    <2>9. Rec(g, n + 1)
      BY <2>6, <2>7, <2>8
    <2> QED BY <2>2, <2>9
  <1>3. N \in K
    <2> HIDE DEF K
    <2>1. K \in SUBSET Nat
      BY DEF K
    <2>2. 0 .. N \subseteq K
      BY <1>1, <1>2, <2>1, UpTo
    <2> QED BY <2>2
  <1> QED BY <1>3

(* The bytes of a sample are positive.                                     *)
LEMMA LineBytesPositive ==
    ASSUME NEW s \in Samples
    PROVE  LineBytes(s) \in Nat /\ LineBytes(s) > 0
  <1>1. s.signals \subseteq Signals
    BY DEF Samples
  <1>2. Cardinality(s.signals) \in Nat
    BY <1>1, SignalsAssumption, FS_Subset, FS_CardinalityType
  <1> QED BY <1>2 DEF LineBytes

(* Sums of the bytes of samples exist as the recursive functions that      *)
(* compute them.                                                           *)
LEMMA SumExists ==
    ASSUME NEW N \in Nat, NEW w \in [1 .. N -> Nat]
    PROVE  \E f \in [0 .. N -> Nat] :
             /\ f[0] = 0
             /\ \A k \in 1 .. N : f[k] = f[k - 1] + w[k]
  <1> DEFINE step == [k \in 1 .. N |-> [v \in Nat |-> v + w[k]]]
  <1>1. step \in [1 .. N -> [Nat -> Nat]]
    OBVIOUS
  <1>2. \A k \in 1 .. N, v \in Nat : step[k][v] = v + w[k]
    OBVIOUS
  <1> HIDE DEF step
  <1>3. PICK f \in [0 .. N -> Nat] :
          f[0] = 0 /\ \A k \in 1 .. N : f[k] = step[k][f[k - 1]]
    BY <1>1, RecursionExists
  <1>4. ASSUME NEW k \in 1 .. N
        PROVE  f[k] = f[k - 1] + w[k]
    <2>1. k - 1 \in 0 .. N
      OBVIOUS
    <2> QED BY <1>2, <1>3, <2>1
  <1> QED BY <1>3, <1>4

(* The bytes of the newest samples: nothing of none, and each further      *)
(* sample adds its own.                                                    *)
LEMMA BytesAre ==
    ASSUME TypeOK
    PROVE  /\ bytes \in [0 .. Len(samples) -> Nat]
           /\ bytes[0] = 0
           /\ \A n \in 1 .. Len(samples) :
                bytes[n] = bytes[n - 1] + LineBytes(samples[Len(samples) + 1 - n])
  <1> DEFINE N == Len(samples)
             w == [n \in 1 .. N |-> LineBytes(samples[N + 1 - n])]
             IsBytes(f) ==
               f = [n \in 0 .. N |->
                      IF n = 0 THEN 0 ELSE f[n - 1] + LineBytes(samples[N + 1 - n])]
  <1>1. N \in Nat /\ samples \in Seq(Samples)
    BY LenProperties DEF TypeOK
  <1>2. w \in [1 .. N -> Nat]
    <2>1. ASSUME NEW n \in 1 .. N
          PROVE  LineBytes(samples[N + 1 - n]) \in Nat
      <3>1. N + 1 - n \in 1 .. N
        BY <1>1
      <3>2. samples[N + 1 - n] \in Samples
        BY <1>1, <3>1, ElementOfSeq
      <3> QED BY <3>2, LineBytesPositive
    <2> QED BY <2>1
  <1>3. \A n \in 1 .. N : w[n] = LineBytes(samples[N + 1 - n])
    OBVIOUS
  <1> HIDE DEF w, N
  <1>4. PICK f \in [0 .. N -> Nat] : f[0] = 0 /\ \A k \in 1 .. N : f[k] = f[k - 1] + w[k]
    BY <1>1, <1>2, SumExists
  <1>5. IsBytes(f)
    <2> DEFINE g == [n \in 0 .. N |->
                       IF n = 0 THEN 0 ELSE f[n - 1] + LineBytes(samples[N + 1 - n])]
    <2>1. ASSUME NEW n \in 0 .. N
          PROVE  f[n] = g[n]
      <3>1. CASE n = 0
        BY <1>4, <3>1
      <3>2. CASE n # 0
        <4>1. n \in 1 .. N
          BY <3>2
        <4>2. f[n] = f[n - 1] + w[n]
          BY <1>4, <4>1
        <4>3. f[n] = f[n - 1] + LineBytes(samples[N + 1 - n])
          BY <1>3, <4>1, <4>2
        <4> QED BY <3>2, <4>3
      <3> QED BY <3>1, <3>2
    <2>2. f = g
      BY <1>4, <2>1
    <2> QED BY <2>2
  <1>6. bytes = CHOOSE g : IsBytes(g)
    BY DEF bytes, N
  <1>7. IsBytes(bytes)
    BY <1>5, <1>6
  <1>8. /\ bytes[0] = 0
        /\ \A n \in 1 .. N : bytes[n] = bytes[n - 1] + LineBytes(samples[N + 1 - n])
    BY <1>1, <1>7
  <1> DEFINE K == {n \in Nat : n \in 0 .. N => bytes[n] \in Nat}
  <1>9. 0 .. N \subseteq K
    <2>1. 0 \in K
      BY <1>8
    <2>2. ASSUME NEW n \in 0 .. N, n \in K, n < N
          PROVE  n + 1 \in K
      <3>1. n + 1 \in 1 .. N /\ n + 1 - 1 = n /\ bytes[n] \in Nat
        BY <1>1, <2>2
      <3>2. bytes[n + 1] = bytes[n] + w[n + 1]
        BY <1>3, <1>8, <3>1
      <3> QED BY <1>2, <3>1, <3>2
    <2> HIDE DEF K
    <2>3. K \in SUBSET Nat
      BY DEF K
    <2> QED BY <1>1, <2>1, <2>2, <2>3, UpTo
  <1>10. bytes \in [0 .. N -> Nat]
    <2>1. \A n \in 0 .. N : bytes[n] \in Nat
      BY <1>9
    <2>2. bytes = [n \in 0 .. N |-> bytes[n]]
      BY <1>7
    <2> QED BY <2>1, <2>2
  <1> QED BY <1>8, <1>10 DEF N

(* More samples take no fewer bytes.                                       *)
LEMMA BytesGrow ==
    ASSUME TypeOK, NEW m \in 0 .. Len(samples), NEW n \in 0 .. Len(samples), m <= n
    PROVE  bytes[m] <= bytes[n]
  <1> DEFINE N == Len(samples)
             K == {k \in Nat : k \in m .. N => bytes[m] <= bytes[k]}
             J == {k \in Nat : m + k \in K}
  <1>1. N \in Nat /\ samples \in Seq(Samples)
    BY LenProperties DEF TypeOK
  <1>2. bytes \in [0 .. N -> Nat]
    BY BytesAre
  <1>3. ASSUME NEW k \in 0 .. N, k < N
        PROVE  bytes[k] <= bytes[k + 1]
    <2>1. k + 1 \in 1 .. N /\ k + 1 - 1 = k /\ N + 1 - (k + 1) \in 1 .. N
      BY <1>1, <1>3
    <2>2. bytes[k + 1] = bytes[k] + LineBytes(samples[N + 1 - (k + 1)])
      BY <2>1, BytesAre
    <2>3. samples[N + 1 - (k + 1)] \in Samples
      BY <1>1, <2>1, ElementOfSeq
    <2>4. LineBytes(samples[N + 1 - (k + 1)]) \in Nat
      BY <2>3, LineBytesPositive
    <2>5. bytes[k] \in Nat
      BY <1>2
    <2> QED BY <2>2, <2>4, <2>5
  <1>4. 0 .. N \subseteq J
    <2>1. 0 \in J
      BY <1>1, <1>2
    <2>2. ASSUME NEW k \in 0 .. N, k \in J, k < N
          PROVE  k + 1 \in J
      <3>1. CASE m + k < N
        <4>1. m + k \in 0 .. N /\ m + k + 1 \in 0 .. N /\ m + k \in m .. N
          BY <1>1, <3>1
        <4>2. bytes[m] <= bytes[m + k]
          BY <2>2, <4>1
        <4>3. bytes[m + k] <= bytes[m + k + 1]
          BY <1>3, <3>1, <4>1
        <4>4. bytes[m] \in Nat /\ bytes[m + k] \in Nat /\ bytes[m + k + 1] \in Nat
          BY <1>2, <4>1
        <4>5. bytes[m] <= bytes[m + k + 1]
          BY <4>2, <4>3, <4>4
        <4> QED BY <4>1, <4>5
      <3>2. CASE ~ (m + k < N)
        <4>1. m + (k + 1) \in Nat /\ k + 1 \in Nat /\ ~ (m + (k + 1) \in m .. N)
          BY <1>1, <3>2
        <4> QED BY <4>1
      <3> QED BY <3>1, <3>2
    <2> HIDE DEF J
    <2>3. J \in SUBSET Nat
      BY DEF J
    <2> QED BY <1>1, <2>1, <2>2, <2>3, UpTo
  <1>5. n - m \in 0 .. N /\ m + (n - m) = n /\ n \in m .. N
    BY <1>1
  <1>6. m + (n - m) \in K
    BY <1>4, <1>5
  <1> QED BY <1>5, <1>6

(* The freeze takes as many of the newest samples as fit the byte budget.  *)
LEMMA TakenIs ==
    ASSUME TypeOK
    PROVE  /\ Taken \in 0 .. Len(samples)
           /\ bytes[Taken] <= MaxBytes
           /\ Taken < Len(samples) => bytes[Taken + 1] > MaxBytes
  <1> DEFINE N == Len(samples)
             step == [k \in 1 .. N |->
                        [v \in Nat |-> IF v = k - 1 /\ bytes[k] <= MaxBytes THEN k ELSE v]]
             IsTaken(f) ==
               f = [n \in 0 .. N |->
                      IF n = 0 THEN 0
                      ELSE IF f[n - 1] = n - 1 /\ bytes[n] <= MaxBytes THEN n
                      ELSE f[n - 1]]
             taken == CHOOSE f : IsTaken(f)
  <1>1. N \in Nat
    BY LenProperties DEF TypeOK
  <1>2. bytes \in [0 .. N -> Nat] /\ bytes[0] = 0 /\ MaxBytes \in Nat
    BY BytesAre, NumbersAssumption
  <1>3. Taken = taken[N]
    BY DEF Taken
  <1> HIDE DEF N
  <1>4. \E f : IsTaken(f)
    <2>1. step \in [1 .. N -> [Nat -> Nat]]
      OBVIOUS
    <2>2. \A k \in 1 .. N, v \in Nat :
            step[k][v] = IF v = k - 1 /\ bytes[k] <= MaxBytes THEN k ELSE v
      OBVIOUS
    <2> HIDE DEF step
    <2>3. PICK f \in [0 .. N -> Nat] :
            f[0] = 0 /\ \A k \in 1 .. N : f[k] = step[k][f[k - 1]]
      BY <1>1, <2>1, RecursionExists
    <2> DEFINE g == [n \in 0 .. N |->
                       IF n = 0 THEN 0
                       ELSE IF f[n - 1] = n - 1 /\ bytes[n] <= MaxBytes THEN n
                       ELSE f[n - 1]]
    <2>4. ASSUME NEW n \in 0 .. N
          PROVE  f[n] = g[n]
      <3>1. CASE n = 0
        BY <2>3, <3>1
      <3>2. CASE n # 0
        <4>1. n \in 1 .. N /\ n - 1 \in 0 .. N
          BY <1>1, <3>2
        <4>2. f[n] = step[n][f[n - 1]] /\ f[n - 1] \in Nat
          BY <2>3, <4>1
        <4>3. f[n] = IF f[n - 1] = n - 1 /\ bytes[n] <= MaxBytes THEN n ELSE f[n - 1]
          BY <2>2, <4>1, <4>2
        <4> QED BY <3>2, <4>3
      <3> QED BY <3>1, <3>2
    <2>5. f = g
      BY <2>3, <2>4
    <2> QED BY <2>5
  <1>5. IsTaken(taken)
    BY <1>4
  <1> HIDE DEF taken
  <1>6. /\ taken[0] = 0
        /\ \A n \in 1 .. N :
             taken[n] = IF taken[n - 1] = n - 1 /\ bytes[n] <= MaxBytes THEN n
                        ELSE taken[n - 1]
    BY <1>1, <1>5
  <1> DEFINE Good(n) ==
               /\ taken[n] \in 0 .. n
               /\ bytes[taken[n]] <= MaxBytes
               /\ taken[n] < n => bytes[taken[n] + 1] > MaxBytes
             K == {n \in Nat : n \in 0 .. N => Good(n)}
  <1>7. 0 .. N \subseteq K
    <2>1. 0 \in K
      BY <1>2, <1>6
    <2>2. ASSUME NEW n \in 0 .. N, n \in K, n < N
          PROVE  n + 1 \in K
      <3>1. n + 1 \in 1 .. N /\ n + 1 - 1 = n /\ Good(n)
        BY <1>1, <2>2
      <3>2. taken[n + 1] = IF taken[n] = n /\ bytes[n + 1] <= MaxBytes THEN n + 1
                           ELSE taken[n]
        BY <1>6, <3>1
      <3>3. PICK t \in 0 .. n : t = taken[n]
        BY <3>1
      <3>4. bytes[t] \in Nat /\ bytes[n + 1] \in Nat
        <4>1. t \in 0 .. N /\ n + 1 \in 0 .. N
          BY <1>1, <2>2
        <4> QED BY <1>2, <4>1
      <3>5. CASE t = n /\ bytes[n + 1] <= MaxBytes
        <4>1. taken[n + 1] = n + 1
          BY <3>2, <3>3, <3>5
        <4> QED BY <3>1, <3>5, <4>1
      <3>6. CASE ~ (t = n /\ bytes[n + 1] <= MaxBytes)
        <4>1. taken[n + 1] = t
          BY <3>2, <3>3, <3>6
        <4>2. t \in 0 .. n + 1 /\ bytes[t] <= MaxBytes
          BY <3>1, <3>3
        <4>3. bytes[t + 1] > MaxBytes
          <5>1. CASE t = n
            BY <1>2, <3>4, <3>6, <5>1
          <5>2. CASE t # n
            <6>1. t < n
              BY <5>2
            <6> QED BY <3>1, <3>3, <6>1
          <5> QED BY <5>1, <5>2
        <4> QED BY <3>1, <4>1, <4>2, <4>3
      <3> QED BY <3>5, <3>6
    <2> HIDE DEF K
    <2>3. K \in SUBSET Nat
      BY DEF K
    <2> QED BY <1>1, <2>1, <2>2, <2>3, UpTo
  <1>8. Good(N)
    BY <1>1, <1>7
  <1> QED BY <1>3, <1>8 DEF N

(* The bytes of the n newest samples, summed in their order.               *)
LEMMA TotalIsBytes ==
    ASSUME TypeOK, NEW n \in 0 .. Len(samples)
    PROVE  TotalBytes(Newest(samples, n)) = bytes[n]
  <1> DEFINE N == Len(samples)
             S == Newest(samples, n)
             w == [k \in 1 .. n |-> LineBytes(S[k])]
             IsTotal(f) ==
               f = [k \in 0 .. Len(S) |-> IF k = 0 THEN 0 ELSE f[k - 1] + LineBytes(S[k])]
             total == CHOOSE f : IsTotal(f)
  <1>1. N \in Nat /\ samples \in Seq(Samples) /\ n \in 0 .. N
    BY LenProperties DEF TypeOK
  <1>2. /\ S \in Seq(Samples) /\ Len(S) = n
        /\ \A k \in 1 .. n : S[k] = samples[N - n + k]
    BY <1>1, NewestIs
  <1>3. TotalBytes(S) = total[n]
    BY <1>2 DEF TotalBytes
  <1>4. bytes \in [0 .. N -> Nat] /\ bytes[0] = 0
    BY BytesAre
  <1> HIDE DEF N, S
  <1>5. \A k \in 1 .. n : LineBytes(S[k]) \in Nat
    <2> TAKE k \in 1 .. n
    <2>1. S[k] \in Samples
      BY <1>2, ElementOfSeq
    <2> QED BY <2>1, LineBytesPositive
  <1>6. \E f : IsTotal(f)
    <2>1. w \in [1 .. n -> Nat] /\ \A k \in 1 .. n : w[k] = LineBytes(S[k])
      BY <1>5
    <2> HIDE DEF w
    <2>2. PICK f \in [0 .. n -> Nat] : f[0] = 0 /\ \A k \in 1 .. n : f[k] = f[k - 1] + w[k]
      <3>1. n \in Nat
        BY <1>1
      <3> QED BY <2>1, <3>1, SumExists
    <2> DEFINE g == [k \in 0 .. Len(S) |-> IF k = 0 THEN 0 ELSE f[k - 1] + LineBytes(S[k])]
    <2>3. ASSUME NEW k \in 0 .. n
          PROVE  f[k] = g[k]
      <3>1. CASE k = 0
        BY <1>2, <2>2, <3>1
      <3>2. CASE k # 0
        <4>1. k \in 1 .. n
          BY <3>2
        <4>2. f[k] = f[k - 1] + LineBytes(S[k])
          BY <2>1, <2>2, <4>1
        <4> QED BY <1>2, <3>2, <4>2
      <3> QED BY <3>1, <3>2
    <2>4. f = g
      BY <1>2, <2>2, <2>3
    <2> QED BY <2>4
  <1>7. IsTotal(total)
    BY <1>6
  <1> HIDE DEF total
  <1>8. /\ total[0] = 0
        /\ \A k \in 1 .. n : total[k] = total[k - 1] + LineBytes(S[k])
    BY <1>1, <1>2, <1>7
  <1> DEFINE K == {k \in Nat : k \in 0 .. n => total[k] \in Nat /\ total[k] + bytes[n - k] = bytes[n]}
  <1>9. 0 .. n \subseteq K
    <2>1. 0 \in K
      <3>1. n - 0 = n /\ bytes[n] \in Nat
        BY <1>1, <1>4
      <3> QED BY <1>8, <3>1
    <2>2. ASSUME NEW k \in 0 .. n, k \in K, k < n
          PROVE  k + 1 \in K
      <3>1. /\ k + 1 \in 1 .. n /\ k + 1 - 1 = k /\ n - k \in 1 .. N
            /\ n - k - 1 = n - (k + 1) /\ N + 1 - (n - k) = N - n + (k + 1)
            /\ n - (k + 1) \in 0 .. N
        BY <1>1, <2>2
      <3>2. total[k] \in Nat /\ total[k] + bytes[n - k] = bytes[n]
        BY <2>2
      <3>3. PICK b : b = LineBytes(S[k + 1])
        OBVIOUS
      <3>4. total[k + 1] = total[k] + b /\ b \in Nat
        BY <1>5, <1>8, <3>1, <3>3
      <3>5. bytes[n - k] = bytes[n - (k + 1)] + b
        <4>1. bytes[n - k] = bytes[n - k - 1] + LineBytes(samples[N + 1 - (n - k)])
          BY <3>1, BytesAre DEF N
        <4>2. samples[N + 1 - (n - k)] = S[k + 1]
          BY <1>2, <3>1
        <4> QED BY <3>1, <3>3, <4>1, <4>2
      <3>6. bytes[n - (k + 1)] \in Nat
        BY <1>4, <3>1
      <3>7. total[k + 1] \in Nat /\ total[k + 1] + bytes[n - (k + 1)] = bytes[n]
        BY <3>2, <3>4, <3>5, <3>6
      <3> QED BY <3>7
    <2> HIDE DEF K
    <2>3. K \in SUBSET Nat
      BY DEF K
    <2> QED BY <1>1, <2>1, <2>2, <2>3, UpTo
  <1>10. total[n] \in Nat /\ total[n] + bytes[0] = bytes[n]
    <2>1. n \in 0 .. n /\ n - n = 0
      BY <1>1
    <2> QED BY <1>9, <2>1
  <1> QED BY <1>3, <1>4, <1>10 DEF S

(* Cut in two, a sequence of samples has the samples of its parts.         *)
LEMMA CountSplit ==
    ASSUME NEW S \in Seq(Samples), NEW n \in 0 .. Len(S), NEW x
    PROVE  /\ Count(Oldest(S, Len(S) - n), x) \in Nat
           /\ Count(Newest(S, n), x) \in Nat
           /\ Count(S, x) = Count(Oldest(S, Len(S) - n), x) + Count(Newest(S, n), x)
  <1> DEFINE N == Len(S)
             O == Oldest(S, N - n)
             W == Newest(S, n)
  <1>1. N \in Nat /\ N - n \in 0 .. N
    BY LenProperties
  <1>2. O \in Seq(Samples) /\ Len(O) = N - n /\ \A i \in 1 .. N - n : O[i] = S[i]
    BY <1>1, OldestIs
  <1>3. W \in Seq(Samples) /\ Len(W) = n /\ \A i \in 1 .. n : W[i] = S[N - n + i]
    BY <1>1, NewestIs
  <1> HIDE DEF O, W
  <1>4. /\ O \o W \in Seq(Samples)
        /\ Len(O \o W) = N
        /\ \A i \in 1 .. N : (O \o W)[i] = IF i <= N - n THEN O[i] ELSE W[i - (N - n)]
    <2>1. /\ O \o W \in Seq(Samples)
          /\ Len(O \o W) = Len(O) + Len(W)
          /\ \A i \in 1 .. Len(O) + Len(W) :
               (O \o W)[i] = IF i <= Len(O) THEN O[i] ELSE W[i - Len(O)]
      BY <1>2, <1>3, ConcatProperties
    <2>2. Len(O) + Len(W) = N
      BY <1>1, <1>2, <1>3
    <2> QED BY <1>2, <2>1, <2>2
  <1>5. ASSUME NEW i \in 1 .. N
        PROVE  S[i] = (O \o W)[i]
    <2>1. CASE i <= N - n
      <3>1. i \in 1 .. N - n
        BY <1>1, <2>1
      <3> QED BY <1>2, <1>4, <2>1, <3>1
    <2>2. CASE ~ (i <= N - n)
      <3>1. i - (N - n) \in 1 .. n /\ N - n + (i - (N - n)) = i
        BY <1>1, <2>2
      <3>2. W[i - (N - n)] = S[i]
        BY <1>3, <3>1
      <3> QED BY <1>4, <2>2, <3>2
    <2> QED BY <2>1, <2>2
  <1>6. S = O \o W
    BY <1>4, <1>5, SeqEqual
  <1>7. Count(O \o W, x) = Count(O, x) + Count(W, x) /\ Count(O, x) \in Nat
    BY <1>2, <1>3, CountConcat
  <1>8. Count(W, x) \in Nat
    BY <1>3, CountConcat
  <1> QED BY <1>6, <1>7, <1>8 DEF O, W

(* The samples of a signal since the profile was loaded are those a freeze *)
(* exports, those it truncates and those the ring dropped.                 *)
LEMMA Accounts ==
    ASSUME RingInv, NEW x \in Signals
    PROVE  /\ Exported(x) \in Nat /\ Retained(x) \in Nat /\ dropped[x] \in Nat
           /\ Exported(x) <= Retained(x)
           /\ Truncated(x) = Retained(x) - Exported(x)
           /\ Count(pushed, x) = dropped[x] + Retained(x)
  <1> DEFINE L == Len(samples)
  <1>1. /\ TypeOK /\ samples \in Seq(Samples) /\ pushed \in Seq(Samples)
        /\ L \in 0 .. Len(pushed) /\ dropped[x] \in Nat
    BY LenProperties DEF RingInv, DropsCounted, TypeOK
  <1>2. Taken \in 0 .. L
    BY <1>1, TakenIs
  <1>3. PICK older \in Nat : Retained(x) = older + Exported(x) /\ Exported(x) \in Nat
    <2>1. /\ Count(Oldest(samples, L - Taken), x) \in Nat
          /\ Count(Newest(samples, Taken), x) \in Nat
          /\ Count(samples, x) = Count(Oldest(samples, L - Taken), x)
                                 + Count(Newest(samples, Taken), x)
      BY <1>1, <1>2, CountSplit
    <2> QED BY <2>1 DEF Retained, Exported
  <1>4. Count(pushed, x) = dropped[x] + Retained(x)
    <2>1. Count(pushed, x) = Count(Oldest(pushed, Len(pushed) - L), x)
                             + Count(Newest(pushed, L), x)
      BY <1>1, CountSplit
    <2>2. samples = Newest(pushed, L) /\ dropped[x] = Count(Oldest(pushed, Len(pushed) - L), x)
      BY DEF RingInv, DropsCounted, Gone
    <2> QED BY <2>1, <2>2 DEF Retained
  <1>5. Truncated(x) = Retained(x) - Exported(x)
    BY <1>3 DEF Truncated, \ominus
  <1> QED BY <1>1, <1>3, <1>4, <1>5

(* Coverage and the loss reasons are true of every ring.                   *)
LEMMA ReportsAreTrue ==
    RingInv => CoverageHonest /\ AbsenceDistinguished
  <1> SUFFICES ASSUME RingInv PROVE CoverageHonest /\ AbsenceDistinguished
    OBVIOUS
  <1>1. Reported \subseteq Signals
    BY DEF Reported, RingInv, TypeOK
  <1>2. ASSUME NEW x \in Signals, Count(pushed, x) > 0
        PROVE  x \in Reported
    <2>1. Retained(x) > 0 \/ dropped[x] > 0
      BY <1>2, Accounts
    <2> QED BY <2>1 DEF Reported
  <1>3. ASSUME NEW x \in Reported
        PROVE  /\ Exported(x) + Truncated(x) + dropped[x] = Count(pushed, x)
               /\ CoverageState(x) = "covered" <=>
                    Count(pushed, x) > 0 /\ Exported(x) = Count(pushed, x)
               /\ Exported(x) = 0 =>
                    (Count(pushed, x) > 0 <=>
                     LossReasons(x) \cap {"ring_capacity_drop_oldest",
                                          "freeze_byte_budget_truncated"} # {})
    <2>1. x \in Signals
      BY <1>1
    <2>2. PICK e, r, d, t, c :
            /\ e = Exported(x) /\ r = Retained(x) /\ d = dropped[x]
            /\ t = Truncated(x) /\ c = Count(pushed, x)
      OBVIOUS
    <2>3. /\ e \in Nat /\ r \in Nat /\ d \in Nat /\ e <= r
          /\ t = r - e /\ c = d + r
      BY <2>1, <2>2, Accounts
    <2>4. e + t + d = c
      BY <2>3
    <2>5. CoverageState(x) = "covered" <=> e # 0 /\ ~ (d > 0) /\ ~ (t > 0)
      <3>1. ExpectedButAbsent(x) => r = 0
        BY <2>2 DEF ExpectedButAbsent
      <3>2. e # 0 => ~ ExpectedButAbsent(x)
        BY <2>3, <3>1
      <3> QED BY <2>2, <3>2 DEF CoverageState, Degraded
    <2>6. e # 0 /\ ~ (d > 0) /\ ~ (t > 0) <=> c > 0 /\ e = c
      BY <2>3
    <2>7. LossReasons(x) \cap {"ring_capacity_drop_oldest",
                               "freeze_byte_budget_truncated"} # {} <=> d > 0 \/ t > 0
      BY <2>2 DEF LossReasons
    <2>8. e = 0 => (c > 0 <=> d > 0 \/ t > 0)
      BY <2>3
    <2> QED BY <2>2, <2>4, <2>5, <2>6, <2>7, <2>8
  <1> QED BY <1>2, <1>3 DEF CoverageHonest, AbsenceDistinguished

(* A freeze exports as many of the newest samples as fit the byte budget.  *)
THEOREM FreezeExportsNewest == Spec => []ExportsNewest
  <1>1. TypeOK => ExportsNewest
    <2> SUFFICES ASSUME TypeOK PROVE ExportsNewest
      OBVIOUS
    <2>1. /\ Taken \in 0 .. Len(samples)
          /\ bytes[Taken] <= MaxBytes
          /\ Taken < Len(samples) => bytes[Taken + 1] > MaxBytes
      BY TakenIs
    <2>2. ASSUME NEW n \in 0 .. Len(samples),
                 TotalBytes(Newest(samples, n)) <= MaxBytes
          PROVE  n <= Taken
      <3>1. SUFFICES ASSUME n > Taken PROVE FALSE
        BY <2>1
      <3>2. Taken + 1 \in 0 .. Len(samples) /\ Taken + 1 <= n /\ Taken < Len(samples)
        BY <2>1, <3>1
      <3>3. bytes[Taken + 1] <= bytes[n]
        BY <3>2, BytesGrow
      <3>4. bytes[n] <= MaxBytes
        BY <2>2, TotalIsBytes
      <3>5. bytes[n] \in Nat /\ bytes[Taken + 1] \in Nat
        BY <3>2, BytesAre
      <3> QED BY <2>1, <3>2, <3>3, <3>4, <3>5, NumbersAssumption
    <2> QED BY <2>1, <2>2, TotalIsBytes DEF ExportsNewest
  <1> QED BY <1>1, RingTypeCorrect, PTL

(* A signal is called covered exactly if it was sampled and all of it is   *)
(* in the bundle; the numbers of the loss report add up.                   *)
THEOREM CoverageIsHonest == Spec => []CoverageHonest
  BY ReportsAreTrue, RingSafety, PTL

(* The loss reasons tell a signal that was never sampled from one whose    *)
(* samples were lost.                                                      *)
THEOREM AbsenceIsDistinguished == Spec => []AbsenceDistinguished
  BY ReportsAreTrue, RingSafety, PTL

=============================================================================
