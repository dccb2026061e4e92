------------------------- MODULE UnattendedRoundsProofs -------------------------
(***************************************************************************)
(* Proofs about UnattendedRounds.                                          *)
(***************************************************************************)
EXTENDS UnattendedRounds, FiniteSetTheorems, SequenceTheorems, WellFoundedInduction, TLAPS

-----------------------------------------------------------------------------
(* Sets, sequences and numbers.                                            *)

\* A set of numbers that is not empty has a least one.
LEMMA LeastNumber ==
  ASSUME NEW T \in SUBSET Nat, T # {}
  PROVE  \E n \in T : \A m \in T : n <= m
<1>1. PICK n \in T : \A m \in T : ~(<<m, n>> \in OpToRel(<, Nat))
  BY WFMin, NatLessThanWellFounded
<1>2. \A m \in T : ~(m < n)
  BY <1>1 DEF OpToRel
<1> QED BY <1>2

LEMMA SetToSeqListsTheSet ==
  ASSUME NEW S, IsFiniteSet(S)
  PROVE  /\ SetToSeq(S) \in [1..Cardinality(S) -> S]
         /\ IsInjective(SetToSeq(S))
         /\ Cardinality(S) \in Nat
         /\ \A x \in S : \E i \in 1..Cardinality(S) : SetToSeq(S)[i] = x
<1> DEFINE n == Cardinality(S)
           q == SetToSeq(S)
<1>1. n \in Nat /\ ExistsBijection(1..n, S)
  BY FS_CardinalityType
<1>2. PICK f : f \in [1..n -> S] /\ IsInjective(f)
  BY <1>1 DEF ExistsBijection, Bijection, Injection
<1>3. q \in [1..n -> S] /\ IsInjective(q)
  BY <1>2 DEF SetToSeq
<1> HIDE DEF q
<1>4. IsFiniteSet(1..n) /\ Cardinality(1..n) = n
  BY <1>1, FS_Interval
<1>5. q \in Surjection(1..n, S)
  BY <1>3, <1>4, FS_Injection DEF Injection
<1> QED BY <1>1, <1>3, <1>5 DEF q, Surjection

LEMMA Remainder ==
  ASSUME NEW a \in Nat, NEW n \in Nat \ {0}
  PROVE  a % n \in 0..(n - 1)
OBVIOUS

LEMMA RemainderOnce ==
  ASSUME NEW a \in Nat, NEW n \in Nat \ {0}, a < 2 * n
  PROVE  a % n = IF a < n THEN a ELSE a - n
OBVIOUS

-----------------------------------------------------------------------------
(* Choosing devices.                                                       *)

\* How many have been met grows by at most one with every device visited.
LEMMA MetOneMore ==
  ASSUME NEW order \in Seq(Devices), NEW wanted \in SUBSET Devices,
         NEW k \in 1..Len(order)
  PROVE  Cardinality({d \in wanted : \E i \in 1..k : order[i] = d})
           <= Cardinality({d \in wanted : \E i \in 1..(k - 1) : order[i] = d}) + 1
<1> DEFINE met(j) == {d \in wanted : \E i \in 1..j : order[i] = d}
<1>1. \A j : met(j) \subseteq Devices
  OBVIOUS
<1>2. IsFiniteSet(met(k)) /\ IsFiniteSet(met(k - 1))
  BY <1>1, ActorAssumption, FS_Subset
<1>3. met(k) \subseteq met(k - 1) \cup {order[k]}
  <2> SUFFICES ASSUME NEW d \in wanted, NEW i \in 1..k, order[i] = d, i # k
               PROVE  i \in 1..(k - 1)
    OBVIOUS
  <2> QED OBVIOUS
<1> HIDE DEF met
<1>4. IsFiniteSet(met(k - 1) \cup {order[k]})
      /\ Cardinality(met(k - 1) \cup {order[k]}) \in {Cardinality(met(k - 1)), Cardinality(met(k - 1)) + 1}
  BY <1>2, FS_AddElement
<1>5. Cardinality(met(k)) <= Cardinality(met(k - 1) \cup {order[k]})
  BY <1>3, <1>4, FS_Subset
<1>6. Cardinality(met(k)) \in Nat /\ Cardinality(met(k - 1)) \in Nat
  BY <1>2, FS_CardinalityType
<1>7. Cardinality(met(k)) <= Cardinality(met(k - 1)) + 1
  BY <1>4, <1>5, <1>6
<1> QED BY <1>7 DEF met

\* The visit goes on until enough of the wanted are met, and no further.
LEMMA VisitsUntilEnough ==
  ASSUME NEW order \in Seq(Devices), NEW n \in Nat, NEW wanted \in SUBSET Devices
  PROVE  /\ UpTo(order, n, wanted) \subseteq Range(order)
         /\ IsFiniteSet(UpTo(order, n, wanted) \cap wanted)
         /\ Cardinality(UpTo(order, n, wanted) \cap wanted) <= n
         /\ \/ UpTo(order, n, wanted) = Range(order)
            \/ Cardinality(UpTo(order, n, wanted) \cap wanted) = n
<1> DEFINE met(k) == {d \in wanted : \E i \in 1..k : order[i] = d}
           Stops(k) == /\ k = Len(order) \/ Cardinality(met(k)) = n
                       /\ \A j \in 0..(k - 1) : Cardinality(met(j)) < n
           last == CHOOSE k \in 0..Len(order) : Stops(k)
           T == {k \in 0..Len(order) : k = Len(order) \/ ~(Cardinality(met(k)) < n)}
<1>0. Len(order) \in Nat /\ DOMAIN order = 1..Len(order)
  BY LenProperties
<1>1. \A k : IsFiniteSet(met(k)) /\ Cardinality(met(k)) \in Nat
  BY ActorAssumption, FS_Subset, FS_CardinalityType
<1>2. Cardinality(met(0)) = 0
  <2>1. met(0) = {}
    OBVIOUS
  <2> QED BY <2>1, FS_EmptySet
<1>3. \A k \in 1..Len(order) : Cardinality(met(k)) <= Cardinality(met(k - 1)) + 1
  BY MetOneMore
<1>4. UpTo(order, n, wanted) = {order[i] : i \in 1..last}
  BY DEF UpTo
<1>5. \A k \in 0..Len(order) : {order[i] : i \in 1..k} \cap wanted = met(k)
  OBVIOUS
<1>6. {order[i] : i \in 1..Len(order)} = Range(order)
  BY <1>0 DEF Range
<1> HIDE DEF met
<1>7. \A k \in 0..Len(order) : (\A j \in 0..(k - 1) : Cardinality(met(j)) < n)
                                  => Cardinality(met(k)) <= n
  <2> SUFFICES ASSUME NEW k \in 0..Len(order), \A j \in 0..(k - 1) : Cardinality(met(j)) < n
               PROVE  Cardinality(met(k)) <= n
    OBVIOUS
  <2>1. CASE k = 0
    BY <2>1, <1>2
  <2>2. CASE k # 0
    <3>1. k \in 1..Len(order) /\ k - 1 \in 0..(k - 1)
      BY <2>2, <1>0
    <3> QED BY <3>1, <1>3, <1>1
  <2> QED BY <2>1, <2>2
<1>8. \E k \in 0..Len(order) : Stops(k)
  <2>1. T \in SUBSET Nat /\ Len(order) \in T
    BY <1>0
  <2>2. PICK k \in T : \A m \in T : k <= m
    BY <2>1, LeastNumber
  <2>3. k \in 0..Len(order)
    OBVIOUS
  <2>4. \A j \in 0..(k - 1) : Cardinality(met(j)) < n
    <3> SUFFICES ASSUME NEW j \in 0..(k - 1), ~(Cardinality(met(j)) < n)
                 PROVE  FALSE
      OBVIOUS
    <3> HIDE DEF T
    <3>1. j \in 0..Len(order) /\ ~(k <= j)
      BY <2>3, <1>0
    <3>2. j \in T
      BY <3>1 DEF T
    <3> QED BY <3>1, <3>2, <2>2
  <2>5. Cardinality(met(k)) <= n
    BY <2>3, <2>4, <1>7
  <2>6. k = Len(order) \/ Cardinality(met(k)) = n
    <3>1. k = Len(order) \/ ~(Cardinality(met(k)) < n)
      OBVIOUS
    <3> QED BY <3>1, <2>5, <1>1
  <2> QED BY <2>3, <2>4, <2>6
<1>9. last \in 0..Len(order) /\ Stops(last)
  BY <1>8
<1>14. last \in 0..Len(order)
  BY <1>9, Zenon
<1> HIDE DEF last
<1>10. UpTo(order, n, wanted) \cap wanted = met(last)
  BY <1>4, <1>5, <1>9
<1>11. {order[i] : i \in 1..last} \subseteq Range(order)
  <2> HIDE DEF Stops, T
  <2>1. 1..last \subseteq 1..Len(order)
    BY <1>14, <1>0
  <2>2. {order[i] : i \in 1..last} \subseteq {order[i] : i \in 1..Len(order)}
    BY <2>1, Zenon
  <2> QED BY <2>2, <1>6
<1>12. Cardinality(met(last)) <= n
  BY <1>9, <1>7
<1>13. last = Len(order) \/ Cardinality(met(last)) = n
  BY <1>9
<1> QED BY <1>1, <1>4, <1>6, <1>10, <1>11, <1>12, <1>13

LEMMA SettingFacts ==
  ASSUME NEW s \in Settings
  PROVE  /\ s.primary \in Seq(Devices) /\ Len(s.primary) \in Nat \ {0}
         /\ s.backup \in Seq(Devices) /\ s.desired \in Nat \ {0}
         /\ RotationStep(s) \in 1..Len(s.primary)
         /\ RotationStep(s) <= s.desired
<1>1. s \in AnySetting /\ s.primary # <<>>
  BY SettingAssumption
<1>2. /\ s.primary \in Seq(Devices) /\ s.backup \in Seq(Devices) /\ s.desired \in Nat \ {0}
  BY <1>1 DEF AnySetting
<1>3. Len(s.primary) \in Nat \ {0}
  BY <1>1, <1>2
<1> QED BY <1>2, <1>3 DEF RotationStep

\* A sequence read from one place to its end, and from its start to that place.
LEMMA TurnedAround ==
  ASSUME NEW S, NEW q \in Seq(S), NEW n \in Nat \ {0}, n = Len(q), NEW c \in 0..(n - 1)
  PROVE  LET r == SubSeq(q, c + 1, n) \o SubSeq(q, 1, c)
         IN  /\ r \in Seq(S) /\ Len(r) = n
             /\ \A i \in 1..n : r[i] = q[IF c + i <= n THEN c + i ELSE c + i - n]
<1>1. PICK a \in Seq(S) : a = SubSeq(q, c + 1, n) /\ Len(a) = n - c
                          /\ \A i \in 1..(n - c) : a[i] = q[c + i]
  <2> DEFINE m == c + 1
  <2>1. m \in Int /\ n \in Int /\ \A i \in m..n : q[i] \in S
    OBVIOUS
  <2>2. m <= n /\ n - m + 1 = n - c /\ \A i \in 1..(n - c) : m + i - 1 = c + i
    OBVIOUS
  <2> HIDE DEF m
  <2>3. /\ SubSeq(q, m, n) \in Seq(S)
        /\ Len(SubSeq(q, m, n)) = IF m <= n THEN n - m + 1 ELSE 0
        /\ \A i \in 1..(n - m + 1) : SubSeq(q, m, n)[i] = q[m + i - 1]
    BY <2>1, SubSeqProperties
  <2>4. Len(SubSeq(q, m, n)) = n - c /\ \A i \in 1..(n - c) : SubSeq(q, m, n)[i] = q[c + i]
    BY <2>2, <2>3
  <2> QED BY <2>3, <2>4, Zenon DEF m
<1>2. PICK b \in Seq(S) : b = SubSeq(q, 1, c) /\ Len(b) = c
                          /\ \A i \in 1..c : b[i] = q[i]
  <2>1. 1 \in Int /\ c \in Int /\ \A i \in 1..c : q[i] \in S
    OBVIOUS
  <2>2. /\ SubSeq(q, 1, c) \in Seq(S)
        /\ Len(SubSeq(q, 1, c)) = IF 1 <= c THEN c - 1 + 1 ELSE 0
        /\ \A i \in 1..(c - 1 + 1) : SubSeq(q, 1, c)[i] = q[1 + i - 1]
    BY <2>1, SubSeqProperties
  <2>3. c - 1 + 1 = c /\ (~(1 <= c) => c = 0) /\ \A i \in 1..c : 1 + i - 1 = i
    OBVIOUS
  <2>4. Len(SubSeq(q, 1, c)) = c /\ \A i \in 1..c : SubSeq(q, 1, c)[i] = q[i]
    BY <2>2, <2>3
  <2> QED BY <2>2, <2>4, Zenon
<1>3. /\ a \o b \in Seq(S) /\ Len(a \o b) = Len(a) + Len(b)
      /\ \A i \in 1..(Len(a) + Len(b)) :
            (a \o b)[i] = IF i <= Len(a) THEN a[i] ELSE b[i - Len(a)]
  BY ConcatProperties
<1>4. Len(a \o b) = n
  BY <1>1, <1>2, <1>3
<1>5. \A i \in 1..n : (a \o b)[i] = q[IF c + i <= n THEN c + i ELSE c + i - n]
  <2> SUFFICES ASSUME NEW i \in 1..n
               PROVE  (a \o b)[i] = q[IF c + i <= n THEN c + i ELSE c + i - n]
    OBVIOUS
  <2>0. (a \o b)[i] = IF i <= n - c THEN a[i] ELSE b[i - (n - c)]
    BY <1>1, <1>2, <1>3
  <2>1. CASE c + i <= n
    <3>1. i \in 1..(n - c)
      BY <2>1
    <3> QED BY <2>0, <2>1, <3>1, <1>1
  <2>2. CASE ~(c + i <= n)
    <3>1. i - (n - c) \in 1..c /\ ~(i <= n - c) /\ i - (n - c) = c + i - n
      BY <2>2
    <3> QED BY <3>1, <2>0, <2>2, <1>2
  <2> QED BY <2>1, <2>2
<1> QED BY <1>1, <1>2, <1>3, <1>4, <1>5

\* The primary devices in the order of the round.
LEMMA PreferredOrder ==
  ASSUME NEW t \in Task, NEW n \in Nat, n = Len(t.set.primary)
  PROVE  /\ n \in Nat \ {0} /\ Start(t) \in 0..(n - 1)
         /\ Preferred(t) \in Seq(Devices)
         /\ Len(Preferred(t)) = n
         /\ \A i \in 1..n : Preferred(t)[i] =
              t.set.primary[IF Start(t) + i <= n THEN Start(t) + i ELSE Start(t) + i - n]
<1>1. t.set \in Settings /\ t.cursor \in Nat
  BY DEF Task
<1>2. PICK q \in Seq(Devices) : q = t.set.primary
  BY <1>1, SettingFacts
<1>3. n \in Nat \ {0}
  BY <1>1, SettingFacts
<1>4. PICK k \in Nat : k = t.cursor
  BY <1>1
<1>5. Start(t) \in 0..(n - 1)
  <2>1. k % n \in 0..(n - 1)
    BY <1>3, Remainder, Zenon
  <2>3. 0 \in 0..(n - 1)
    BY <1>3
  <2>2. Start(t) = IF t.set.strategy = "round_robin" THEN k % n ELSE 0
    BY <1>4, Zenon DEF Start
  <2> QED BY <2>1, <2>2, <2>3
<1>6. PICK c \in 0..(n - 1) : c = Start(t)
  BY <1>5
<1>7. Preferred(t) = SubSeq(q, c + 1, n) \o SubSeq(q, 1, c)
  BY <1>2, <1>6, Zenon DEF Preferred
<1>8. LET r == SubSeq(q, c + 1, n) \o SubSeq(q, 1, c)
      IN  /\ r \in Seq(Devices) /\ Len(r) = n
          /\ \A i \in 1..n : r[i] = q[IF c + i <= n THEN c + i ELSE c + i - n]
  <2>1. n \in Nat \ {0} /\ n = Len(q)
    BY <1>2, <1>3
  <2> QED BY <2>1, TurnedAround
<1> QED BY <1>2, <1>3, <1>6, <1>7, <1>8

LEMMA PreferredRange ==
  ASSUME NEW t \in Task
  PROVE  Range(Preferred(t)) = Range(t.set.primary)
<1>1. PICK q \in Seq(Devices) : q = t.set.primary
  BY SettingFacts DEF Task
<1>2. PICK n \in Nat : n = Len(q)
  OBVIOUS
<1>3. PICK r \in Seq(Devices) : r = Preferred(t)
  BY <1>1, <1>2, PreferredOrder
<1>4. PICK c \in 0..(n - 1) :
        \A i \in 1..n : r[i] = q[IF c + i <= n THEN c + i ELSE c + i - n]
  <2>1. n = Len(t.set.primary)
    BY <1>1, <1>2
  <2>2. PICK c \in 0..(n - 1) : c = Start(t)
    BY <2>1, PreferredOrder
  <2>3. \A i \in 1..n : Preferred(t)[i] =
          t.set.primary[IF c + i <= n THEN c + i ELSE c + i - n]
    BY <2>1, <2>2, PreferredOrder
  <2> QED BY <2>3, <1>1, <1>3
<1>5. Len(r) = n /\ n \in Nat \ {0}
  BY <1>1, <1>2, <1>3, PreferredOrder
<1>6. \A i \in 1..n : \E j \in 1..n : r[i] = q[j]
  <2> SUFFICES ASSUME NEW i \in 1..n
               PROVE  \E j \in 1..n : r[i] = q[j]
    OBVIOUS
  <2>1. (IF c + i <= n THEN c + i ELSE c + i - n) \in 1..n
    OBVIOUS
  <2> QED BY <2>1, <1>4
<1>7. \A j \in 1..n : \E i \in 1..n : r[i] = q[j]
  <2> SUFFICES ASSUME NEW j \in 1..n
               PROVE  \E i \in 1..n : r[i] = q[j]
    OBVIOUS
  <2>1. PICK i \in 1..n : j = IF c + i <= n THEN c + i ELSE c + i - n
    <3>1. CASE j > c
      <4>1. j - c \in 1..n /\ j = IF c + (j - c) <= n THEN c + (j - c) ELSE c + (j - c) - n
        BY <3>1
      <4> QED BY <4>1
    <3>2. CASE ~(j > c)
      <4>1. j - c + n \in 1..n
            /\ j = IF c + (j - c + n) <= n THEN c + (j - c + n) ELSE c + (j - c + n) - n
        BY <3>2
      <4> QED BY <4>1
    <3> QED BY <3>1, <3>2
  <2> QED BY <2>1, <1>4
<1>8. \A x : x \in Range(r) <=> \E i \in 1..n : r[i] = x
  BY <1>5 DEF Range
<1>9. \A x : x \in Range(q) <=> \E j \in 1..n : q[j] = x
  BY <1>2 DEF Range
<1>10. \A x : x \in Range(r) <=> x \in Range(q)
  BY <1>6, <1>7, <1>8, <1>9
<1>11. Range(r) = Range(q)
  BY <1>10
<1> QED BY <1>11, <1>1, <1>3

\* The pool lists the backup devices and every fit device outside the task's.
LEMMA PoolLists ==
  ASSUME NEW t \in Task, NEW registry \in [Devices -> Row]
  PROVE  /\ Pool(t, registry) \in Seq(Devices)
         /\ Range(t.set.backup) \cup (Fit(registry) \ (Range(t.set.backup) \cup Range(t.set.primary)))
              \subseteq Range(Pool(t, registry))
<1> DEFINE S == Fit(registry) \ (Range(t.set.backup) \cup Range(t.set.primary))
           b == t.set.backup
           q == SetToSeq(S)
<1>1. b \in Seq(Devices)
  BY SettingFacts DEF Task
<1>2. S \subseteq Devices /\ IsFiniteSet(S)
  BY ActorAssumption, FS_Subset DEF Fit
<1>3. /\ q \in [1..Cardinality(S) -> S] /\ Cardinality(S) \in Nat
      /\ \A x \in S : \E i \in 1..Cardinality(S) : q[i] = x
  BY <1>2, SetToSeqListsTheSet
<1>4. Pool(t, registry) = b \o q
  BY DEF Pool
<1> HIDE DEF q, S
<1>5. q \in Seq(Devices) /\ Len(q) = Cardinality(S)
  <2>1. q \in [1..Cardinality(S) -> Devices]
    BY <1>3, <1>2
  <2> QED BY <2>1, <1>3
<1>6. b \o q \in Seq(Devices) /\ Len(b \o q) = Len(b) + Len(q)
      /\ DOMAIN (b \o q) = 1..(Len(b) + Len(q)) /\ DOMAIN b = 1..Len(b)
  <2> HIDE DEF b
  <2>1. b \o q \in Seq(Devices) /\ Len(b \o q) = Len(b) + Len(q)
    BY <1>1, <1>5
  <2> QED BY <2>1, <1>1
<1>7. \A x \in Range(b) : x \in Range(b \o q)
  <2> SUFFICES ASSUME NEW i \in 1..Len(b)
               PROVE  \E j \in DOMAIN (b \o q) : (b \o q)[j] = b[i]
    BY <1>6 DEF Range
  <2> QED BY <1>1, <1>5, <1>6
<1>8. \A x \in S : x \in Range(b \o q)
  <2> SUFFICES ASSUME NEW i \in 1..Cardinality(S)
               PROVE  \E j \in DOMAIN (b \o q) : (b \o q)[j] = q[i]
    BY <1>3 DEF Range
  <2>1. Len(b) + i \in DOMAIN (b \o q) /\ (b \o q)[Len(b) + i] = q[i]
    BY <1>1, <1>3, <1>5, <1>6
  <2> QED BY <2>1
<1> QED BY <1>4, <1>6, <1>7, <1>8 DEF S

\* Select chooses fit devices, enough or all of them, the task's primary devices first.
LEMMA SelectionServes ==
  ASSUME NEW t \in Task, NEW registry \in [Devices -> Row]
  PROVE  LET chosen == Assigned(t, registry)
             primary == Range(t.set.primary)
             fit == Fit(registry)
         IN  /\ chosen \subseteq fit
             /\ Cardinality(chosen) = IF Cardinality(fit) < t.set.desired THEN Cardinality(fit)
                                       ELSE t.set.desired
             /\ chosen \subseteq primary \/ fit \cap primary \subseteq chosen
<1>1. PICK fit \in SUBSET Devices : fit = Fit(registry)
  BY DEF Fit
<1>2. PICK n \in Nat \ {0} : n = t.set.desired
  BY SettingFacts DEF Task
<1>3. PICK primary : primary = Range(t.set.primary)
  OBVIOUS
<1>4. PICK visited : visited = Visited(t, registry)
  OBVIOUS
<1>5. /\ visited \subseteq primary
      /\ IsFiniteSet(visited \cap fit) /\ Cardinality(visited \cap fit) <= n
      /\ visited = primary \/ Cardinality(visited \cap fit) = n
  <2>1. PICK order \in Seq(Devices) : order = Preferred(t)
    <3>1. Len(t.set.primary) \in Nat
      BY SettingFacts DEF Task
    <3> QED BY <3>1, PreferredOrder
  <2>2. Range(order) = primary
    BY <2>1, <1>3, PreferredRange
  <2>3. visited = UpTo(order, n, fit)
    BY <2>1, <1>1, <1>2, <1>4, Zenon DEF Visited
  <2> QED BY <2>2, <2>3, VisitsUntilEnough
<1>6. PICK taken : taken = visited \cap fit
  OBVIOUS
<1>7. PICK spare : spare = fit \ taken
  OBVIOUS
<1>8. IsFiniteSet(taken) /\ Cardinality(taken) \in 0..n /\ IsFiniteSet(fit) /\ Cardinality(fit) \in Nat
  BY <1>5, <1>6, <1>1, ActorAssumption, FS_Subset, FS_CardinalityType
<1>9. PICK m \in Nat : m = n - Cardinality(taken)
  BY <1>8
<1>10. PICK pool \in Seq(Devices) : pool = Pool(t, registry)
  BY PoolLists
<1>11. PICK more : more = UpTo(pool, m, spare) \cap spare
  OBVIOUS
<1>12. /\ IsFiniteSet(more) /\ Cardinality(more) <= m
       /\ UpTo(pool, m, spare) = Range(pool) \/ Cardinality(more) = m
  BY <1>11, <1>7, <1>1, VisitsUntilEnough
<1>13. Cardinality(more) \in Nat
  BY <1>12, FS_CardinalityType
<1>14. Assigned(t, registry) = taken \cup more
  BY <1>1, <1>2, <1>4, <1>6, <1>7, <1>9, <1>10, <1>11, Zenon DEF Assigned
<1>15. taken \cap more = {} /\ taken \cup more \subseteq fit
  BY <1>6, <1>7, <1>11
<1>16. Cardinality(taken \cup more) = Cardinality(taken) + Cardinality(more)
  <2>1. Cardinality(taken \cap more) = 0
    BY <1>15, FS_EmptySet
  <2>2. Cardinality(taken \cup more)
          = Cardinality(taken) + Cardinality(more) - Cardinality(taken \cap more)
    BY <1>8, <1>12, FS_Union
  <2> QED BY <2>1, <2>2, <1>8, <1>13
<1>17. Cardinality(taken \cup more) <= Cardinality(fit)
  BY <1>8, <1>15, FS_Subset
<1>18. fit \subseteq primary \cup Range(pool)
  <2>1. fit \ primary \subseteq Range(pool)
    BY <1>1, <1>3, <1>10, PoolLists
  <2> QED BY <2>1
<1>19. CASE Cardinality(more) = m
  <2>1. Cardinality(taken \cup more) = n
    BY <1>19, <1>16, <1>9, <1>8
  <2>2. taken \cup more \subseteq primary \/ fit \cap primary \subseteq taken \cup more
    <3>1. CASE visited = primary
      BY <3>1, <1>6
    <3>2. CASE Cardinality(taken) = n
      <4>1. Cardinality(more) = 0
        BY <3>2, <1>19, <1>9
      <4>2. more = {}
        BY <4>1, <1>12, FS_EmptySet
      <4> QED BY <4>2, <1>5, <1>6
    <3> QED BY <3>1, <3>2, <1>5, <1>6
  <2>3. ~(Cardinality(fit) < n)
    BY <2>1, <1>17, <1>8
  <2> QED BY <2>1, <2>2, <2>3, <1>14, <1>15, <1>1, <1>2, <1>3
<1>20. CASE Cardinality(more) # m
  <2>1. UpTo(pool, m, spare) = Range(pool)
    BY <1>20, <1>12
  <2>2. visited = primary
    <3>1. Cardinality(taken) # n
      BY <1>20, <1>9, <1>12, <1>13, <1>8
    <3> QED BY <3>1, <1>5, <1>6
  <2>3. taken \cup more = fit
    BY <2>1, <2>2, <1>6, <1>7, <1>11, <1>18
  <2>4. Cardinality(fit) < n
    <3>1. Cardinality(fit) = Cardinality(taken) + Cardinality(more)
      BY <2>3, <1>16
    <3>2. Cardinality(more) < m
      BY <1>20, <1>12, <1>13
    <3> QED BY <3>1, <3>2, <1>13, <1>9, <1>8
  <2> QED BY <2>3, <2>4, <1>14, <1>1, <1>2, <1>3
<1> QED BY <1>19, <1>20

Distinct(q) == \A i, j \in 1..Len(q) : i # j => q[i][1] # q[j][1]
TellsOf(q, S, what) ==
  Distinct(q) /\ \A i \in 1..Len(q) : q[i][1] \in S /\ q[i][2] = what[q[i][1]]

\* The reports tell once of each device what became of it.
LEMMA ReportsTell ==
  ASSUME NEW S \in SUBSET Devices, NEW what
  PROVE  /\ TellsOf(Reports(S, what), S, what)
         /\ \A V : (\A d \in S : what[d] \in V) => Reports(S, what) \in Seq(Devices \X V)
<1>1. IsFiniteSet(S)
  BY ActorAssumption, FS_Subset
<1>2. PICK n \in Nat : n = Cardinality(S)
  BY <1>1, FS_CardinalityType
<1>3. PICK q \in [1..n -> S] : q = SetToSeq(S) /\ IsInjective(q)
  BY <1>1, <1>2, SetToSeqListsTheSet
<1>4. PICK r : r = [i \in 1..n |-> <<q[i], what[q[i]]>>]
  OBVIOUS
<1>5. Reports(S, what) = r
  BY <1>2, <1>3, <1>4, Zenon DEF Reports
<1>6. Len(r) = n
  BY <1>4
<1>7. ASSUME NEW V, \A d \in S : what[d] \in V
      PROVE  r \in Seq(Devices \X V)
  <2>1. r \in [1..n -> Devices \X V]
    BY <1>4, <1>7
  <2> QED BY <2>1
<1>8. \A i, j \in 1..n : i # j => q[i] # q[j]
  BY <1>3 DEF IsInjective
<1>9. \A i \in 1..n : r[i][1] = q[i] /\ r[i][2] = what[q[i]]
  BY <1>4
<1>10. TellsOf(r, S, what)
  BY <1>3, <1>6, <1>8, <1>9 DEF TellsOf, Distinct
<1> QED BY <1>5, <1>7, <1>10, Zenon

LEMMA UnavailableAreDevices ==
  ASSUME NEW t \in Task, NEW registry \in [Devices -> Row]
  PROVE  Unavailable(t, registry) \in SUBSET Devices
<1>1. PICK n \in Nat : n = t.set.desired
  BY SettingFacts DEF Task
<1>2. PICK order \in Seq(Devices) : order = Preferred(t)
  <2>1. Len(t.set.primary) \in Nat
    BY SettingFacts DEF Task
  <2> QED BY <2>1, PreferredOrder
<1>3. UpTo(order, n, Fit(registry)) \subseteq Range(order)
  BY VisitsUntilEnough DEF Fit
<1>4. Range(order) \subseteq Devices
  BY DEF Range
<1> QED BY <1>1, <1>2, <1>3, <1>4 DEF Unavailable, Visited

-----------------------------------------------------------------------------
(* Types.                                                                  *)

LEMMA RowFields ==
  ASSUME NEW row \in Row
  PROVE  /\ row.online \in BOOLEAN /\ row.state \in {"idle", "error", "quarantined"}
         /\ row.streak \in 0..Threshold /\ row.probeIn \in 0..ProbeInterval
         /\ \A online \in BOOLEAN : [row EXCEPT !.online = online] \in Row
         /\ \A state \in {"idle", "error", "quarantined"} : [row EXCEPT !.state = state] \in Row
         /\ \A n \in 0..Threshold : [row EXCEPT !.streak = n] \in Row
         /\ \A n \in 0..ProbeInterval : [row EXCEPT !.probeIn = n] \in Row
BY DEF Row

LEMMA HealthKeepsRow ==
  ASSUME NEW row \in Row, NEW seen
  PROVE  /\ Merged(row, seen) \in Row /\ Failed(row) \in Row /\ Succeeded(row) \in Row
         /\ Cleared(row) \in Row /\ AfterProbe(row, seen) \in Row /\ Sooner(row) \in Row
         /\ [row EXCEPT !.probeIn = ProbeInterval] \in Row
<1>0. /\ Threshold \in Nat /\ 0 \in 0..Threshold
      /\ ProbeInterval \in Nat /\ 0 \in 0..ProbeInterval /\ ProbeInterval \in 0..ProbeInterval
  BY RoundNumbers
<1>1. \A state \in {"idle", "error", "quarantined"}, on \in BOOLEAN :
        Availability(state, on) \in {"idle", "error", "quarantined"}
  BY DEF Availability
<1>2. \A r \in Row : \A to : Merged(r, to) \in Row
  <2> SUFFICES ASSUME NEW r \in Row, NEW to PROVE Merged(r, to) \in Row
    OBVIOUS
  <2>1. PICK on \in BOOLEAN : on = (to = "online")
    OBVIOUS
  <2>2. PICK state \in {"idle", "error", "quarantined"} : state = Availability(r.state, on)
    BY <1>1, RowFields
  <2>3. Merged(r, to) = [r EXCEPT !.online = on, !.state = state]
    BY <2>1, <2>2, Zenon DEF Merged
  <2>4. [r EXCEPT !.online = on, !.state = state] \in Row
    BY DEF Row
  <2> QED BY <2>3, <2>4
<1>3. Succeeded(row) \in Row
  <2>1. PICK state \in {"idle", "error", "quarantined"} : state = Availability(row.state, row.online)
    BY <1>1, RowFields
  <2>2. Succeeded(row) = [row EXCEPT !.streak = 0, !.state = state]
    BY <2>1, Zenon DEF Succeeded
  <2>3. [row EXCEPT !.streak = 0, !.state = state] \in Row
    BY <1>0 DEF Row
  <2> QED BY <2>2, <2>3
<1>4. Failed(row) \in Row
  <2>1. PICK n \in 0..Threshold : n = IF row.streak < Threshold THEN row.streak + 1 ELSE row.streak
    <3>1. PICK k \in 0..Threshold : k = row.streak
      BY RowFields
    <3>2. (IF k < Threshold THEN k + 1 ELSE k) \in 0..Threshold
      BY <1>0
    <3> QED BY <3>1, <3>2
  <2>2. PICK state \in {"idle", "error", "quarantined"} :
          state = IF row.streak + 1 >= Threshold THEN "quarantined" ELSE row.state
    BY RowFields
  <2>3. Failed(row) = [row EXCEPT !.streak = n, !.state = state]
    BY <2>1, <2>2, Zenon DEF Failed
  <2>4. [row EXCEPT !.streak = n, !.state = state] \in Row
    BY DEF Row
  <2> QED BY <2>3, <2>4
<1>5. \A r \in Row : Cleared(r) \in Row
  <2> SUFFICES ASSUME NEW r \in Row PROVE Cleared(r) \in Row
    OBVIOUS
  <2>1. PICK state \in {"idle", "error", "quarantined"} : state = IF r.online THEN "idle" ELSE "error"
    OBVIOUS
  <2>2. Cleared(r) = [r EXCEPT !.streak = 0, !.state = state]
    BY <2>1, Zenon DEF Cleared
  <2>3. [r EXCEPT !.streak = 0, !.state = state] \in Row
    BY <1>0 DEF Row
  <2> QED BY <2>2, <2>3
<1>6. \A r \in Row : [r EXCEPT !.probeIn = ProbeInterval] \in Row
  BY <1>0, RowFields
<1>7. AfterProbe(row, seen) \in Row
  <2>1. PICK m \in Row : m = [Merged(row, seen) EXCEPT !.probeIn = ProbeInterval]
    BY <1>2, <1>6
  <2>2. AfterProbe(row, seen) = IF m.online THEN Cleared(m) ELSE m
    BY <2>1, Zenon DEF AfterProbe
  <2> QED BY <2>2, <1>5
<1>8. Sooner(row) \in Row
  <2>1. PICK k \in 0..ProbeInterval : k = row.probeIn
    BY RowFields
  <2>2. Less(k) \in 0..ProbeInterval
    BY <1>0 DEF Less
  <2> QED BY <2>1, <2>2, RowFields DEF Sooner
<1> QED BY <1>2, <1>3, <1>4, <1>5, <1>6, <1>7, <1>8

Copies == UNION {[S -> Row] : S \in SUBSET Devices}
Underway(p) == pc[p] \in {"select", "execute", "record"} => call[p].copy \in Task
AskedAll(s) == pc[s] = "asked" => rows[s] \in [Devices -> Row]

TInv ==
  /\ regime \in Regimes
  /\ physical \in [Devices -> {"online", "offline", "gone"}]
  /\ device \in [Devices -> Row]
  /\ task \in Task
  /\ pc \in [Actors -> Pcs]
  /\ rows \in [Actors -> Copies]
  /\ call \in [Callers -> Call]
  /\ unserved \in [Devices -> 0..Cardinality(Devices)]
  /\ \A p \in Callers : Underway(p)
  /\ \A s \in Syncers : AskedAll(s)

LEMMA TInvIsTypeOK == TInv => TypeOK
BY DEF TInv, TypeOK, Copies

LEMMA DeviceCount == Cardinality(Devices) \in Nat
BY ActorAssumption, FS_CardinalityType

LEMMA IdleCallIsCall == IdleCall \in Call
<1>1. Interval \in Nat
  BY RoundNumbers
<1> QED BY <1>1 DEF IdleCall, Call

Results == Seq(Devices \X {"success", "failed", "cancelled"})

LEMMA CallFields ==
  ASSUME NEW c \in Call
  PROVE  /\ c.probes \in SUBSET Devices /\ c.copy \in Task \cup {NoCopy}
         /\ c.age \in 0..Interval /\ c.assigned \in SUBSET Devices /\ c.results \in Results
         /\ \A t \in Task : [c EXCEPT !.copy = t] \in Call /\ [c EXCEPT !.copy = t].copy = t
         /\ \A n \in 0..Interval :
              [c EXCEPT !.age = n] \in Call /\ [c EXCEPT !.age = n].copy = c.copy
BY DEF Call, Results

LEMMA ProbesOnly ==
  ASSUME NEW c \in Call, NEW d
  PROVE  /\ [c EXCEPT !.probes = @ \ {d}] \in Call
         /\ [c EXCEPT !.probes = @ \ {d}].copy = c.copy
BY DEF Call

\* The updates of the results.
LEMMA ResultsOnly ==
  ASSUME NEW c \in Call, NEW q \in Results
  PROVE  [c EXCEPT !.results = q] \in Call /\ [c EXCEPT !.results = q].copy = c.copy
BY DEF Call, Results

LEMMA ResultsAndBad ==
  ASSUME NEW c \in Call, NEW q \in Results, NEW b \in BOOLEAN
  PROVE  /\ [c EXCEPT !.results = q, !.bad = b] \in Call
         /\ [c EXCEPT !.results = q, !.bad = b].copy = c.copy
BY DEF Call, Results

LEMMA ResultsAndAssigned ==
  ASSUME NEW c \in Call, NEW q \in Results, NEW S \in SUBSET Devices
  PROVE  /\ [c EXCEPT !.results = q, !.assigned = S] \in Call
         /\ [c EXCEPT !.results = q, !.assigned = S].copy = c.copy
BY DEF Call, Results

LEMMA ResultsConcat ==
  ASSUME NEW r \in Results, NEW u \in Results
  PROVE  r \o u \in Results
<1>1. ASSUME NEW S, NEW a \in Seq(S), NEW b \in Seq(S)
      PROVE  a \o b \in Seq(S)
  OBVIOUS
<1> QED BY <1>1, Zenon DEF Results

LEMMA NothingIsCopies == Nothing \in Copies
<1>1. Nothing \in [{} -> Row] /\ {} \in SUBSET Devices
  BY DEF Nothing
<1> QED BY <1>1 DEF Copies

LEMMA TInvInit == Init => TInv
<1> SUFFICES ASSUME Init PROVE TInv
  OBVIOUS
<1> USE DEF Init
<1>1. regime \in Regimes /\ physical \in [Devices -> {"online", "offline", "gone"}]
  OBVIOUS
<1>2. device \in [Devices -> Row]
  <2>1. 0 \in 0..Threshold /\ 0 \in 0..ProbeInterval
    BY RoundNumbers
  <2> QED BY <2>1 DEF Row
<1>3. task \in Task
  <2>1. 0 \in 0..Interval
    BY RoundNumbers
  <2>2. /\ task = [enabled |-> task.enabled, wait |-> task.wait,
                   cursor |-> task.cursor, set |-> task.set]
        /\ task.enabled = TRUE /\ task.wait = 0 /\ task.cursor = 0 /\ task.set \in Settings
    OBVIOUS
  <2>3. PICK s \in Settings : task = [enabled |-> TRUE, wait |-> 0, cursor |-> 0, set |-> s]
    BY <2>2
  <2> QED BY <2>1, <2>3 DEF Task
<1>4. pc \in [Actors -> Pcs]
  BY DEF Pcs
<1>5. rows \in [Actors -> Copies]
  BY NothingIsCopies
<1>6. call \in [Callers -> Call]
  BY IdleCallIsCall
<1>7. unserved \in [Devices -> 0..Cardinality(Devices)]
  BY DeviceCount
<1>8. \A p \in Actors : pc[p] = "idle"
  OBVIOUS
<1>9. (\A p \in Callers : Underway(p)) /\ (\A s \in Syncers : AskedAll(s))
  BY <1>8 DEF Underway, AskedAll, Actors
<1> QED BY <1>1, <1>2, <1>3, <1>4, <1>5, <1>6, <1>7, <1>9 DEF TInv

\* What the steps of a call, of a patrol or an operator, change at most.
LEMMA CallerFacts ==
  ASSUME NEW p \in Callers
  PROVE  p \in Actors /\ p \notin Syncers /\ p \notin Admins
BY ActorAssumption DEF Actors

\* A step that moves one caller and only changes its call.
LEMMA CallMoves ==
  ASSUME TInv, NEW p \in Callers, NEW to \in Pcs, NEW c \in Call,
         pc' = [pc EXCEPT ![p] = to], call' = [call EXCEPT ![p] = c],
         to \in {"select", "execute", "record"} => c.copy \in Task,
         rows' \in [Actors -> Copies],
         \A q \in Actors : q # p => rows'[q] = rows[q]
  PROVE  /\ pc' \in [Actors -> Pcs] /\ call' \in [Callers -> Call]
         /\ \A q \in Callers : Underway(q)'
         /\ \A s \in Syncers : AskedAll(s)'
<1>1. p \in Actors /\ p \notin Syncers
  BY CallerFacts
<1>2. pc \in [Actors -> Pcs] /\ call \in [Callers -> Call]
      /\ (\A q \in Callers : Underway(q)) /\ (\A s \in Syncers : AskedAll(s))
  BY DEF TInv
<1>3. pc' \in [Actors -> Pcs] /\ call' \in [Callers -> Call]
  BY <1>1, <1>2
<1>4. \A q \in Callers : Underway(q)'
  <2> SUFFICES ASSUME NEW q \in Callers, pc'[q] \in {"select", "execute", "record"}
               PROVE  call'[q].copy \in Task
    BY DEF Underway
  <2>1. CASE q = p
    BY <2>1, <1>1, <1>2
  <2>2. CASE q # p
    <3>1. pc'[q] = pc[q] /\ call'[q] = call[q]
      BY <2>2, <1>2 DEF Actors
    <3> QED BY <3>1, <1>2 DEF Underway
  <2> QED BY <2>1, <2>2
<1>5. \A s \in Syncers : AskedAll(s)'
  <2> SUFFICES ASSUME NEW s \in Syncers, pc'[s] = "asked"
               PROVE  rows'[s] \in [Devices -> Row]
    BY DEF AskedAll
  <2>1. pc'[s] = pc[s] /\ rows'[s] = rows[s]
    BY <1>1, <1>2 DEF Actors
  <2> QED BY <2>1, <1>2 DEF AskedAll
<1> QED BY <1>3, <1>4, <1>5

LEMMA TInvBegin ==
  ASSUME TInv, NEW p \in Callers, NEW scope, NEW force \in BOOLEAN, Begin(p, scope, force)
  PROVE  TInv'
<1> USE DEF Begin
<1>1. PICK c : c = [IdleCall EXCEPT !.forced = force, !.due = Due(task),
                                    !.probes = Quarantined \cap scope]
  OBVIOUS
<1>2. c \in Call
  <2>1. Due(task) \in BOOLEAN
    BY DEF Due, TInv, Task
  <2>2. Quarantined \cap scope \in SUBSET Devices
    BY DEF Quarantined
  <2>3. PICK b \in BOOLEAN : b = Due(task)
    BY <2>1
  <2>4. PICK P \in SUBSET Devices : P = Quarantined \cap scope
    BY <2>2
  <2>5. c = [IdleCall EXCEPT !.forced = force, !.due = b, !.probes = P]
    BY <1>1, <2>3, <2>4, Zenon
  <2> QED BY <2>5, IdleCallIsCall DEF Call
<1>3. call' = [call EXCEPT ![p] = c] /\ pc' = [pc EXCEPT ![p] = "probe"]
  BY <1>1, Zenon DEF Goto
<1>4. "probe" \in Pcs /\ "probe" \notin {"select", "execute", "record"}
  BY DEF Pcs
<1>5. rows' \in [Actors -> Copies] /\ rows' = rows
  BY DEF TInv
<1>6. /\ pc' \in [Actors -> Pcs] /\ call' \in [Callers -> Call]
      /\ \A q \in Callers : Underway(q)'
      /\ \A s \in Syncers : AskedAll(s)'
  BY <1>2, <1>3, <1>4, <1>5, CallMoves
<1>7. UNCHANGED <<regime, physical, device, task, unserved>>
  BY DEF world
<1> QED BY <1>5, <1>6, <1>7 DEF TInv

LEMMA TInvProbe ==
  ASSUME TInv, NEW p \in Callers,
         RunRoundNow(p) \/ ProbeSkip(p) \/ ProbeAsk(p) \/ ProbeAnswer(p) \/ ProbesDone(p)
  PROVE  TInv'
<1>0. call[p] \in Call /\ call \in [Callers -> Call] /\ rows \in [Actors -> Copies]
      /\ pc \in [Actors -> Pcs] /\ device \in [Devices -> Row] /\ p \in Actors
  BY CallerFacts DEF TInv
<1>1. CASE RunRoundNow(p)
  <2> USE <1>1 DEF RunRoundNow
  <2>1. PICK c \in Call : c = [call[p] EXCEPT !.forced = TRUE]
    BY <1>0 DEF Call
  <2>2. call' = [call EXCEPT ![p] = c] /\ pc' = [pc EXCEPT ![p] = "load"]
    BY <2>1, <1>0 DEF Goto
  <2>3. "load" \in Pcs /\ "load" \notin {"select", "execute", "record"}
    BY DEF Pcs
  <2>4. rows' \in [Actors -> Copies] /\ rows' = rows
    BY DEF TInv
  <2>5. /\ pc' \in [Actors -> Pcs] /\ call' \in [Callers -> Call]
        /\ \A q \in Callers : Underway(q)'
        /\ \A s \in Syncers : AskedAll(s)'
    BY <2>1, <2>2, <2>3, <2>4, CallMoves
  <2>6. UNCHANGED <<regime, physical, device, task, unserved>>
    BY DEF world
  <2> QED BY <2>4, <2>5, <2>6 DEF TInv
<1>2. CASE ProbeSkip(p)
  <2> USE <1>2 DEF ProbeSkip
  <2>1. PICK d \in call[p].probes : call' = [call EXCEPT ![p].probes = @ \ {d}]
    OBVIOUS
  <2>2. PICK c \in Call : c = [call[p] EXCEPT !.probes = @ \ {d}] /\ c.copy = call[p].copy
    <3>1. PICK k \in Call : k = call[p]
      BY <1>0
    <3> QED BY <3>1, ProbesOnly
  <2>3. call' = [call EXCEPT ![p] = c] /\ pc' = [pc EXCEPT ![p] = pc[p]]
    BY <2>1, <2>2, <1>0
  <2>4. pc[p] = "probe" /\ pc[p] \in Pcs
    BY <1>0
  <2>5. rows' \in [Actors -> Copies] /\ rows' = rows
    BY DEF TInv
  <2>6. /\ pc' \in [Actors -> Pcs] /\ call' \in [Callers -> Call]
        /\ \A q \in Callers : Underway(q)'
        /\ \A s \in Syncers : AskedAll(s)'
    BY <2>2, <2>3, <2>4, <2>5, CallMoves
  <2>7. UNCHANGED <<regime, physical, device, task, unserved>>
    BY DEF world
  <2> QED BY <2>5, <2>6, <2>7 DEF TInv
<1>3. CASE ProbeAsk(p)
  <2> USE <1>3 DEF ProbeAsk
  <2>1. PICK d \in call[p].probes :
          /\ rows' = [rows EXCEPT ![p] = [e \in {d} |-> [device[d] EXCEPT !.probeIn = ProbeInterval]]]
          /\ call' = [call EXCEPT ![p].probes = @ \ {d}]
    OBVIOUS
  <2>2. PICK c \in Call : c = [call[p] EXCEPT !.probes = @ \ {d}] /\ c.copy = call[p].copy
    <3>1. PICK k \in Call : k = call[p]
      BY <1>0
    <3> QED BY <3>1, ProbesOnly
  <2>3. call' = [call EXCEPT ![p] = c] /\ pc' = [pc EXCEPT ![p] = "asked"]
    BY <2>1, <2>2, <1>0 DEF Goto
  <2>4. "asked" \in Pcs /\ "asked" \notin {"select", "execute", "record"}
    BY DEF Pcs
  <2>5. d \in Devices
    BY <1>0 DEF Call
  <2>6. PICK row \in Row : row = [device[d] EXCEPT !.probeIn = ProbeInterval]
    BY <2>5, <1>0, HealthKeepsRow
  <2>7. [e \in {d} |-> row] \in Copies
    <3>1. [e \in {d} |-> row] \in [{d} -> Row] /\ {d} \in SUBSET Devices
      BY <2>5
    <3> QED BY <3>1 DEF Copies
  <2>8. rows' = [rows EXCEPT ![p] = [e \in {d} |-> row]]
    BY <2>1, <2>6
  <2>9. rows' \in [Actors -> Copies] /\ \A q \in Actors : q # p => rows'[q] = rows[q]
    BY <2>7, <2>8, <1>0
  <2>10. /\ pc' \in [Actors -> Pcs] /\ call' \in [Callers -> Call]
         /\ \A q \in Callers : Underway(q)'
         /\ \A s \in Syncers : AskedAll(s)'
    BY <2>2, <2>3, <2>4, <2>9, CallMoves
  <2>11. UNCHANGED <<regime, physical, device, task, unserved>>
    BY DEF world
  <2> QED BY <2>9, <2>10, <2>11 DEF TInv
<1>4. CASE ProbeAnswer(p)
  <2> USE <1>4 DEF ProbeAnswer
  <2>1. PICK d \in DOMAIN rows[p] :
          device' = [device EXCEPT ![d] =
                       IF physical[d] = "gone" THEN rows[p][d] ELSE AfterProbe(@, physical[d])]
    OBVIOUS
  <2>2. d \in Devices /\ rows[p][d] \in Row
    BY <1>0 DEF Copies
  <2>3. PICK row \in Row :
          row = IF physical[d] = "gone" THEN rows[p][d] ELSE AfterProbe(device[d], physical[d])
    BY <2>2, <1>0, HealthKeepsRow
  <2>4. device' = [device EXCEPT ![d] = row]
    BY <2>1, <2>2, <2>3, <1>0
  <2>5. device' \in [Devices -> Row]
    BY <2>4, <1>0
  <2>6. call' = [call EXCEPT ![p] = call[p]] /\ pc' = [pc EXCEPT ![p] = "probe"]
    BY <1>0 DEF Goto
  <2>7. "probe" \in Pcs /\ "probe" \notin {"select", "execute", "record"}
    BY DEF Pcs
  <2>8. rows' \in [Actors -> Copies] /\ \A q \in Actors : q # p => rows'[q] = rows[q]
    BY NothingIsCopies, <1>0
  <2>9. /\ pc' \in [Actors -> Pcs] /\ call' \in [Callers -> Call]
        /\ \A q \in Callers : Underway(q)'
        /\ \A s \in Syncers : AskedAll(s)'
    BY <2>6, <2>7, <2>8, <1>0, CallMoves
  <2>10. UNCHANGED <<regime, physical, task, unserved>>
    BY DEF world
  <2> QED BY <2>5, <2>8, <2>9, <2>10 DEF TInv
<1>5. CASE ProbesDone(p)
  <2> USE <1>5 DEF ProbesDone
  <2>1. PICK c \in Call : call' = [call EXCEPT ![p] = c]
    <3>1. CASE call[p].forced \/ call[p].due
      <4>1. call' = [call EXCEPT ![p] = call[p]]
        BY <3>1, <1>0
      <4> QED BY <4>1, <1>0
    <3>2. CASE ~(call[p].forced \/ call[p].due)
      BY <3>2, IdleCallIsCall DEF Return
    <3> QED BY <3>1, <3>2
  <2>2. PICK to \in {"load", "idle"} : pc' = [pc EXCEPT ![p] = to]
    BY DEF Goto, Return
  <2>3. to \in Pcs /\ to \notin {"select", "execute", "record"}
    BY DEF Pcs
  <2>4. rows' \in [Actors -> Copies] /\ rows' = rows
    BY <1>0
  <2>5. /\ pc' \in [Actors -> Pcs] /\ call' \in [Callers -> Call]
        /\ \A q \in Callers : Underway(q)'
        /\ \A s \in Syncers : AskedAll(s)'
    BY <2>1, <2>2, <2>3, <2>4, CallMoves
  <2>6. UNCHANGED <<regime, physical, device, task, unserved>>
    BY DEF world
  <2> QED BY <2>4, <2>5, <2>6 DEF TInv
<1> QED BY <1>1, <1>2, <1>3, <1>4, <1>5

\* The reports of devices that were not fit.
LEMMA AbsentReports ==
  ASSUME NEW t \in Task, NEW registry \in [Devices -> Row]
  PROVE  Reports(Unavailable(t, registry), [d \in Devices |-> "failed"]) \in Results
<1>1. PICK what \in [Devices -> {"success", "failed", "cancelled"}] : what = [d \in Devices |-> "failed"]
  OBVIOUS
<1>2. PICK S \in SUBSET Devices : S = Unavailable(t, registry)
  BY UnavailableAreDevices
<1>3. \A d \in S : what[d] \in {"success", "failed", "cancelled"}
  OBVIOUS
<1>4. Reports(S, what) \in Results
  BY <1>3, ReportsTell DEF Results
<1> QED BY <1>1, <1>2, <1>4

LEMMA OutcomeReports ==
  ASSUME NEW S \in SUBSET Devices, NEW what \in [S -> Outcomes]
  PROVE  Reports(S, what) \in Results
<1>1. \A d \in S : what[d] \in {"success", "failed", "cancelled"}
  BY RoundNumbers
<1> QED BY <1>1, ReportsTell DEF Results

LEMMA CursorIsNumber ==
  ASSUME NEW t \in Task, NEW failed
  PROVE  NextCursor(t, failed) \in Nat
<1>1. PICK n \in Nat \ {0} : n = Len(t.set.primary)
  BY SettingFacts DEF Task
<1>2. PICK c \in Nat : c = t.cursor
  BY DEF Task
<1>3. PICK k \in Nat : k = RotationStep(t.set)
  BY SettingFacts DEF Task
<1>4. c % n \in Nat
  BY Remainder
<1>5. (c + k) % n \in Nat
  <2>1. c + k \in Nat
    OBVIOUS
  <2> QED BY <2>1, Remainder
<1> QED BY <1>1, <1>2, <1>3, <1>4, <1>5 DEF NextCursor

LEMMA TInvRound ==
  ASSUME TInv, NEW p \in Callers, RoundStep(p)
  PROVE  TInv'
<1>0. /\ call[p] \in Call /\ call \in [Callers -> Call] /\ rows \in [Actors -> Copies]
      /\ pc \in [Actors -> Pcs] /\ device \in [Devices -> Row] /\ p \in Actors /\ task \in Task
      /\ Underway(p)
  BY CallerFacts DEF TInv
<1>1. CASE Load(p)
  <2> USE <1>1 DEF Load
  <2>4. rows' \in [Actors -> Copies] /\ rows' = rows
    BY <1>0
  <2>5. /\ pc' \in [Actors -> Pcs] /\ call' \in [Callers -> Call]
        /\ \A q \in Callers : Underway(q)'
        /\ \A s \in Syncers : AskedAll(s)'
    <3>1. CASE task.enabled /\ (call[p].forced \/ task.wait = 0)
      <4>1. PICK c \in Call : c = [call[p] EXCEPT !.copy = task] /\ c.copy = task
        <5>1. PICK k \in Call, t \in Task : k = call[p] /\ t = task
          BY <1>0
        <5>2. [k EXCEPT !.copy = t] \in Call /\ [k EXCEPT !.copy = t].copy = t
          BY CallFields
        <5> QED BY <5>1, <5>2
      <4>2. call' = [call EXCEPT ![p] = c] /\ pc' = [pc EXCEPT ![p] = "select"]
        BY <3>1, <4>1, <1>0 DEF Goto
      <4>3. "select" \in Pcs
        BY DEF Pcs
      <4> QED BY <4>1, <4>2, <4>3, <2>4, <1>0, CallMoves
    <3>2. CASE ~(task.enabled /\ (call[p].forced \/ task.wait = 0))
      <4>1. call' = [call EXCEPT ![p] = IdleCall] /\ pc' = [pc EXCEPT ![p] = "idle"]
        BY <3>2 DEF Return, Goto
      <4>2. "idle" \in Pcs /\ "idle" \notin {"select", "execute", "record"}
        BY DEF Pcs
      <4> QED BY <4>1, <4>2, <2>4, IdleCallIsCall, CallMoves
    <3> QED BY <3>1, <3>2
  <2>6. UNCHANGED <<regime, physical, device, task, unserved>>
    BY DEF world
  <2> QED BY <2>4, <2>5, <2>6 DEF TInv
<1>2. CASE Select(p)
  <2> USE <1>2 DEF Select
  <2>1. call[p].copy \in Task
    BY <1>0 DEF Underway
  <2>2. PICK absent \in Results :
          absent = Reports(Unavailable(call[p].copy, device), [d \in Devices |-> "failed"])
    BY <2>1, <1>0, AbsentReports
  <2>3. PICK S : S = Assigned(call[p].copy, device)
    OBVIOUS
  <2>4. S \in SUBSET Devices
    BY <2>1, <2>3, <1>0, SelectionServes DEF Fit
  <2>5. PICK c \in Call, to \in {"record", "execute"} :
          /\ call' = [call EXCEPT ![p] = c] /\ pc' = [pc EXCEPT ![p] = to]
          /\ c.copy = call[p].copy
    <3>1. CASE S = {}
      <4>1. PICK c \in Call : c = [call[p] EXCEPT !.results = absent, !.bad = TRUE]
                              /\ c.copy = call[p].copy
        <5>1. PICK k \in Call, b \in BOOLEAN : k = call[p] /\ b = TRUE
          BY <1>0
        <5>2. /\ [k EXCEPT !.results = absent, !.bad = b] \in Call
              /\ [k EXCEPT !.results = absent, !.bad = b].copy = k.copy
          BY ResultsAndBad
        <5> QED BY <5>1, <5>2
      <4>2. call' = [call EXCEPT ![p] = c]
        BY <3>1, <4>1, <2>2, <2>3, <1>0
      <4>3. pc' = [pc EXCEPT ![p] = "record"]
        BY <3>1, <2>3 DEF Goto
      <4> QED BY <4>1, <4>2, <4>3
    <3>2. CASE S # {}
      <4>1. PICK c \in Call : c = [call[p] EXCEPT !.results = absent, !.assigned = S]
                              /\ c.copy = call[p].copy
        <5>1. PICK k \in Call, D \in SUBSET Devices : k = call[p] /\ D = S
          BY <1>0, <2>4
        <5>2. /\ [k EXCEPT !.results = absent, !.assigned = D] \in Call
              /\ [k EXCEPT !.results = absent, !.assigned = D].copy = k.copy
          BY ResultsAndAssigned
        <5> QED BY <5>1, <5>2
      <4>2. call' = [call EXCEPT ![p] = c]
        BY <3>2, <4>1, <2>2, <2>3, <1>0
      <4>3. pc' = [pc EXCEPT ![p] = "execute"]
        BY <3>2, <2>3 DEF Goto
      <4> QED BY <4>1, <4>2, <4>3
    <3> QED BY <3>1, <3>2
  <2>6. to \in Pcs
    BY DEF Pcs
  <2>7. rows' \in [Actors -> Copies] /\ rows' = rows
    BY <1>0
  <2>8. /\ pc' \in [Actors -> Pcs] /\ call' \in [Callers -> Call]
        /\ \A q \in Callers : Underway(q)'
        /\ \A s \in Syncers : AskedAll(s)'
    BY <2>1, <2>5, <2>6, <2>7, CallMoves
  <2>9. UNCHANGED <<regime, physical, device, task, unserved>>
    BY DEF world
  <2> QED BY <2>7, <2>8, <2>9 DEF TInv
<1>3. CASE Execute(p)
  <2> USE <1>3 DEF Execute
  <2>1. call[p].copy \in Task
    BY <1>0 DEF Underway
  <2>2. PICK what \in [call[p].assigned -> Outcomes] :
          call' = [call EXCEPT ![p].results = @ \o Reports(call[p].assigned, what),
                               ![p].bad = \E d \in call[p].assigned : what[d] = "failed",
                               ![p].assigned = {}]
    OBVIOUS
  <2>3. PICK q \in Results : q = call[p].results \o Reports(call[p].assigned, what)
    <3>1. call[p].assigned \in SUBSET Devices /\ call[p].results \in Results
      BY <1>0, CallFields
    <3>2. Reports(call[p].assigned, what) \in Results
      BY <3>1, OutcomeReports
    <3>3. PICK r \in Results, u \in Results :
            r = call[p].results /\ u = Reports(call[p].assigned, what)
      BY <3>1, <3>2
    <3>4. r \o u \in Results
      BY ResultsConcat
    <3> QED BY <3>3, <3>4
  <2>4. PICK b \in BOOLEAN : b = \E d \in call[p].assigned : what[d] = "failed"
    OBVIOUS
  <2>5. PICK c \in Call : c = [call[p] EXCEPT !.results = q, !.bad = b, !.assigned = {}]
                          /\ c.copy = call[p].copy
    <3>1. PICK k \in Call, D \in SUBSET Devices : k = call[p] /\ D = {}
      BY <1>0
    <3>2. /\ [k EXCEPT !.results = q, !.bad = b, !.assigned = D] \in Call
          /\ [k EXCEPT !.results = q, !.bad = b, !.assigned = D].copy = k.copy
      BY DEF Call, Results
    <3> QED BY <3>1, <3>2
  <2>6. call' = [call EXCEPT ![p] = c] /\ pc' = [pc EXCEPT ![p] = "record"]
    BY <2>2, <2>3, <2>4, <2>5, <1>0 DEF Goto
  <2>7. "record" \in Pcs
    BY DEF Pcs
  <2>8. rows' \in [Actors -> Copies] /\ rows' = rows
    BY <1>0
  <2>9. /\ pc' \in [Actors -> Pcs] /\ call' \in [Callers -> Call]
        /\ \A r \in Callers : Underway(r)'
        /\ \A s \in Syncers : AskedAll(s)'
    BY <2>1, <2>5, <2>6, <2>7, <2>8, CallMoves
  <2>10. UNCHANGED <<regime, physical, device, task, unserved>>
    BY DEF world
  <2> QED BY <2>8, <2>9, <2>10 DEF TInv
<1>4. CASE ExecuteRaises(p)
  <2> USE <1>4 DEF ExecuteRaises
  <2>1. call' = [call EXCEPT ![p] = IdleCall] /\ pc' = [pc EXCEPT ![p] = "idle"]
    BY DEF Return, Goto
  <2>2. "idle" \in Pcs /\ "idle" \notin {"select", "execute", "record"}
    BY DEF Pcs
  <2>3. rows' \in [Actors -> Copies] /\ rows' = rows
    BY <1>0
  <2>4. /\ pc' \in [Actors -> Pcs] /\ call' \in [Callers -> Call]
        /\ \A r \in Callers : Underway(r)'
        /\ \A s \in Syncers : AskedAll(s)'
    BY <2>1, <2>2, <2>3, IdleCallIsCall, CallMoves
  <2>5. UNCHANGED <<regime, physical, device, task, unserved>>
    BY DEF world
  <2> QED BY <2>3, <2>4, <2>5 DEF TInv
<1>5. CASE Record(p)
  <2> USE <1>5 DEF Record
  <2>1. PICK q \in Results : q = call[p].results /\ q # <<>>
    BY <1>0, CallFields
  <2>2. Tail(q) \in Results /\ Head(q)[1] \in Devices
    BY <2>1 DEF Results
  <2>3. PICK d \in Devices : d = Head(q)[1]
    BY <2>2
  <2>4. PICK row \in Row :
          row = IF Head(q)[2] = "success" THEN Succeeded(device[d]) ELSE Failed(device[d])
    BY <1>0, HealthKeepsRow
  <2>5. device' = [device EXCEPT ![d] = row]
    BY <2>1, <2>3, <2>4, <1>0
  <2>6. device' \in [Devices -> Row]
    BY <2>5, <1>0
  <2>7. PICK c \in Call : c = [call[p] EXCEPT !.results = Tail(q)] /\ c.copy = call[p].copy
    <3>1. PICK k \in Call, u \in Results : k = call[p] /\ u = Tail(q)
      BY <1>0, <2>2
    <3>2. [k EXCEPT !.results = u] \in Call /\ [k EXCEPT !.results = u].copy = k.copy
      BY ResultsOnly
    <3> QED BY <3>1, <3>2
  <2>8. call' = [call EXCEPT ![p] = c] /\ pc' = [pc EXCEPT ![p] = pc[p]]
    BY <2>1, <2>7, <1>0
  <2>9. pc[p] \in Pcs /\ pc[p] = "record" /\ call[p].copy \in Task
    BY <1>0 DEF Underway
  <2>10. rows' \in [Actors -> Copies] /\ rows' = rows
    BY <1>0
  <2>11. UNCHANGED <<regime, physical, task, unserved>>
    BY DEF world
  <2> HIDE <1>5 DEF Record
  <2>12. /\ pc' \in [Actors -> Pcs] /\ call' \in [Callers -> Call]
         /\ \A r \in Callers : Underway(r)'
         /\ \A s \in Syncers : AskedAll(s)'
    BY <2>7, <2>8, <2>9, <2>10, CallMoves
  <2> QED BY <2>6, <2>10, <2>11, <2>12 DEF TInv
<1>6. CASE SaveState(p)
  <2> USE <1>6 DEF SaveState
  <2>1. PICK t \in Task : t = call[p].copy
    BY <1>0 DEF Underway
  <2>2. PICK w \in 0..Interval : w = Interval - call[p].age
    <3>1. call[p].age \in 0..Interval /\ Interval \in Nat
      BY <1>0, CallFields, RoundNumbers
    <3> QED BY <3>1
  <2>3. PICK k \in Nat : k = NextCursor(t, call[p].bad)
    BY CursorIsNumber
  <2>4. task' = [t EXCEPT !.wait = w, !.cursor = k]
    BY <2>1, <2>2, <2>3
  <2>5. task' \in Task
    BY <2>4 DEF Task
  <2>6. unserved' = [d \in Devices |->
          IF d \in Window(t) \/ ~regime.serial THEN 0
          ELSE IF unserved[d] < Cardinality(Devices) THEN unserved[d] + 1 ELSE unserved[d]]
    BY <2>1
  <2>7. unserved' \in [Devices -> 0..Cardinality(Devices)]
    <3>1. \A d \in Devices : unserved[d] \in 0..Cardinality(Devices)
      BY DEF TInv
    <3>2. \A d \in Devices :
            (IF unserved[d] < Cardinality(Devices) THEN unserved[d] + 1 ELSE unserved[d])
              \in 0..Cardinality(Devices)
      BY <3>1, DeviceCount
    <3>3. 0 \in 0..Cardinality(Devices)
      BY DeviceCount
    <3> QED BY <2>6, <3>2, <3>3
  <2>8. call' = [call EXCEPT ![p] = IdleCall] /\ pc' = [pc EXCEPT ![p] = "idle"]
    BY DEF Return, Goto
  <2>9. "idle" \in Pcs /\ "idle" \notin {"select", "execute", "record"}
    BY DEF Pcs
  <2>10. rows' \in [Actors -> Copies] /\ rows' = rows
    BY <1>0
  <2>11. /\ pc' \in [Actors -> Pcs] /\ call' \in [Callers -> Call]
         /\ \A r \in Callers : Underway(r)'
         /\ \A s \in Syncers : AskedAll(s)'
    BY <2>8, <2>9, <2>10, IdleCallIsCall, CallMoves
  <2>12. UNCHANGED <<regime, physical, device>>
    BY DEF world
  <2> QED BY <2>5, <2>7, <2>10, <2>11, <2>12 DEF TInv
<1> QED BY <1>1, <1>2, <1>3, <1>4, <1>5, <1>6 DEF RoundStep

\* What time does to the calls, and to a set of rows.
LEMMA TickAges ==
  ASSUME TInv, Tick
  PROVE  /\ device' \in [Devices -> Row] /\ task' \in Task
         /\ rows' \in [Actors -> Copies] /\ call' \in [Callers -> Call]
         /\ \A p \in Callers : call'[p] = call[p]
              \/ \E n \in 0..Interval : call'[p] = [call[p] EXCEPT !.age = n]
         /\ \A p \in Actors : DOMAIN rows'[p] = DOMAIN rows[p]
                 /\ \A d \in DOMAIN rows[p] : rows'[p][d] = Sooner(rows[p][d])
         /\ \A d \in Devices : device'[d] = Sooner(device[d])
<1> USE DEF Tick
<1>0. /\ call \in [Callers -> Call] /\ rows \in [Actors -> Copies]
      /\ device \in [Devices -> Row] /\ task \in Task /\ Interval \in Nat
  BY RoundNumbers DEF TInv
<1>1. device' \in [Devices -> Row] /\ \A d \in Devices : device'[d] = Sooner(device[d])
  BY <1>0, HealthKeepsRow
<1>2. task' \in Task
  <2>1. PICK w \in 0..Interval : w = task.wait
    BY <1>0 DEF Task
  <2>2. PICK v \in 0..Interval : v = Less(w)
    BY <1>0 DEF Less
  <2>3. task' = [task EXCEPT !.wait = v]
    BY <2>1, <2>2
  <2> QED BY <2>3, <1>0 DEF Task
<1>3. rows' \in [Actors -> Copies]
      /\ \A p \in Actors : DOMAIN rows'[p] = DOMAIN rows[p]
           /\ \A d \in DOMAIN rows[p] : rows'[p][d] = Sooner(rows[p][d])
  <2>1. \A p \in Actors : [d \in DOMAIN rows[p] |-> Sooner(rows[p][d])] \in Copies
    <3> SUFFICES ASSUME NEW p \in Actors
                 PROVE  [d \in DOMAIN rows[p] |-> Sooner(rows[p][d])] \in Copies
      OBVIOUS
    <3>1. PICK S \in SUBSET Devices : rows[p] \in [S -> Row]
      BY <1>0 DEF Copies
    <3>2. [d \in S |-> Sooner(rows[p][d])] \in [S -> Row] /\ DOMAIN rows[p] = S
      BY <3>1, HealthKeepsRow
    <3> QED BY <3>2 DEF Copies
  <2>2. rows' = [p \in Actors |-> [d \in DOMAIN rows[p] |-> Sooner(rows[p][d])]]
    OBVIOUS
  <2>3. \A p \in Actors : rows'[p] = [d \in DOMAIN rows[p] |-> Sooner(rows[p][d])]
    BY <2>2
  <2> QED BY <2>1, <2>2, <2>3
<1>4. \A p \in Callers : call'[p] = call[p]
         \/ \E n \in 0..Interval : call'[p] = [call[p] EXCEPT !.age = n]
  <2> SUFFICES ASSUME NEW p \in Callers, call'[p] # call[p]
               PROVE  \E n \in 0..Interval : call'[p] = [call[p] EXCEPT !.age = n]
    OBVIOUS
  <2>1. call'[p] = [call[p] EXCEPT !.age = @ + 1] /\ call[p].age # Interval
    OBVIOUS
  <2>2. PICK k \in 0..Interval : k = call[p].age
    BY <1>0, CallFields
  <2>3. k # Interval
    BY <2>1, <2>2
  <2>4. k + 1 \in 0..Interval
    <3>1. Interval \in Nat
      BY RoundNumbers
    <3>2. k <= Interval
      OBVIOUS
    <3> QED BY ONLY <2>3, <3>1, <3>2, k \in 0..Interval
  <2> QED BY <2>1, <2>2, <2>4
<1>5. call' \in [Callers -> Call]
  <2>1. \A p \in Callers : call'[p] \in Call
    <3> SUFFICES ASSUME NEW p \in Callers PROVE call'[p] \in Call
      OBVIOUS
    <3>1. PICK c \in Call : c = call[p]
      BY <1>0
    <3>2. \A n \in 0..Interval : [c EXCEPT !.age = n] \in Call
      BY CallFields
    <3> QED BY <3>1, <3>2, <1>4
  <2>2. call' = [p \in Callers |-> call'[p]]
    OBVIOUS
  <2> QED BY <2>1, <2>2
<1> QED BY <1>1, <1>2, <1>3, <1>4, <1>5

\* What a synchronisation saves next is a row it holds.
LEMMA NextToSave ==
  ASSUME NEW s \in Syncers, SyncSave(s), NEW S \in SUBSET Devices, rows[s] \in [S -> Row]
  PROVE  \E d \in S : /\ device' = [device EXCEPT ![d] = rows[s][d]]
                       /\ rows' = [rows EXCEPT ![s] = [e \in S \ {d} |-> rows[s][e]]]
<1>1. rows[s] # Nothing
  BY DEF SyncSave
<1>2. S # {}
  <2>1. S = {} => rows[s] = Nothing
    BY DEF Nothing
  <2> QED BY <1>1, <2>1
<1>3. PICK d : d = CHOOSE e \in S : TRUE
  OBVIOUS
<1>4. d \in S
  BY <1>2, <1>3
<1> QED BY <1>3, <1>4 DEF SyncSave

LEMMA TInvRest ==
  ASSUME TInv,
         \/ \E a \in Admins : Configure(a)
         \/ \E s \in Syncers : SyncRead(s) \/ SyncAsk(s) \/ SyncSave(s) \/ SyncDone(s)
         \/ Change \/ Tick
         \/ UNCHANGED vars
  PROVE  TInv'
<1>0. /\ call \in [Callers -> Call] /\ rows \in [Actors -> Copies]
      /\ pc \in [Actors -> Pcs] /\ device \in [Devices -> Row] /\ task \in Task
      /\ (\A q \in Callers : Underway(q)) /\ (\A s \in Syncers : AskedAll(s))
      /\ regime \in Regimes /\ physical \in [Devices -> {"online", "offline", "gone"}]
      /\ unserved \in [Devices -> 0..Cardinality(Devices)]
  BY DEF TInv
<1>1. ASSUME NEW a \in Admins, Configure(a)
      PROVE  TInv'
  <2> USE <1>1 DEF Configure
  <2>1. PICK s \in Settings, on \in BOOLEAN, startNow \in BOOLEAN :
          task' = [enabled |-> on, wait |-> IF startNow THEN 0 ELSE Interval, set |-> s,
                   cursor |-> IF s.strategy = "round_robin" THEN task.cursor % Len(s.primary) ELSE 0]
    OBVIOUS
  <2>2. PICK w \in 0..Interval : w = IF startNow THEN 0 ELSE Interval
    <3>1. 0 \in 0..Interval /\ Interval \in 0..Interval
      BY RoundNumbers
    <3> QED BY <3>1
  <2>3. PICK k \in Nat : k = IF s.strategy = "round_robin" THEN task.cursor % Len(s.primary) ELSE 0
    <3>1. PICK c \in Nat, n \in Nat \ {0} : c = task.cursor /\ n = Len(s.primary)
      BY <1>0, SettingFacts DEF Task
    <3>2. c % n \in Nat
      BY Remainder
    <3> QED BY <3>1, <3>2
  <2>4. task' = [enabled |-> on, wait |-> w, set |-> s, cursor |-> k]
    BY <2>1, <2>2, <2>3
  <2>5. task' \in Task
    BY <2>4 DEF Task
  <2>6. unserved' \in [Devices -> 0..Cardinality(Devices)]
    BY DeviceCount
  <2>7. UNCHANGED <<regime, physical, device, pc, rows, call>>
    BY DEF world
  <2>8. (\A q \in Callers : Underway(q)') /\ (\A q \in Syncers : AskedAll(q)')
    BY <2>7, <1>0 DEF Underway, AskedAll
  <2> QED BY <2>5, <2>6, <2>7, <2>8, <1>0 DEF TInv
<1>2. ASSUME NEW s \in Syncers, SyncRead(s)
      PROVE  TInv'
  <2> USE <1>2 DEF SyncRead
  <2>1. s \in Actors /\ s \notin Callers
    BY ActorAssumption DEF Actors
  <2>2. pc' = [pc EXCEPT ![s] = "asked"] /\ rows' = [rows EXCEPT ![s] = device] /\ call' = call
    BY DEF Goto
  <2>3. pc' \in [Actors -> Pcs]
    BY <2>2, <1>0 DEF Pcs
  <2>4. device \in Copies
    BY <1>0 DEF Copies
  <2>5. rows' \in [Actors -> Copies]
    BY <2>2, <2>4, <1>0
  <2>6. \A q \in Callers : Underway(q)'
    <3> SUFFICES ASSUME NEW q \in Callers PROVE Underway(q)'
      OBVIOUS
    <3>1. pc'[q] = pc[q] /\ call'[q] = call[q]
      BY <2>1, <2>2, <1>0 DEF Actors
    <3> QED BY <3>1, <1>0 DEF Underway
  <2>7. \A q \in Syncers : AskedAll(q)'
    <3> SUFFICES ASSUME NEW q \in Syncers PROVE AskedAll(q)'
      OBVIOUS
    <3>0. q \in Actors
      BY DEF Actors
    <3>1. CASE q = s
      BY <3>1, <2>1, <2>2, <1>0 DEF AskedAll
    <3>2. CASE q # s
      <4>1. pc'[q] = pc[q] /\ rows'[q] = rows[q]
        BY <3>0, <3>2, <2>2, <1>0
      <4> QED BY <4>1, <1>0 DEF AskedAll
    <3> QED BY <3>1, <3>2
  <2>8. UNCHANGED <<regime, physical, device, task, call, unserved>>
    BY DEF world
  <2> QED BY <2>3, <2>5, <2>6, <2>7, <2>8, <1>0 DEF TInv
<1>3. ASSUME NEW s \in Syncers, SyncAsk(s) \/ SyncSave(s) \/ SyncDone(s)
      PROVE  TInv'
  <2>1. s \in Actors /\ s \notin Callers
    BY ActorAssumption DEF Actors
  <2>2. /\ \E to \in {"saving", "idle"} : pc' = [pc EXCEPT ![s] = to]
        /\ \E copy : rows' = [rows EXCEPT ![s] = copy]
        /\ UNCHANGED <<regime, physical, task, call, unserved>>
    <3>1. CASE SyncAsk(s)
      BY <3>1 DEF SyncAsk, Goto, world
    <3>2. CASE SyncSave(s)
      <4>1. pc' = [pc EXCEPT ![s] = "saving"]
        BY <3>2, <2>1, <1>0 DEF SyncSave
      <4> QED BY <3>2, <4>1 DEF SyncSave, world
    <3>3. CASE SyncDone(s)
      <4>1. rows' = [rows EXCEPT ![s] = rows[s]]
        BY <3>3, <2>1, <1>0 DEF SyncDone
      <4> QED BY <3>3, <4>1 DEF SyncDone, Goto, world
    <3> QED BY <1>3, <3>1, <3>2, <3>3
  <2>3. pc' \in [Actors -> Pcs]
    BY <2>2, <1>0 DEF Pcs
  <2>4. device' \in [Devices -> Row] /\ rows'[s] \in Copies
    <3>0. PICK S \in SUBSET Devices : rows[s] \in [S -> Row]
      BY <2>1, <1>0 DEF Copies
    <3>1. CASE SyncAsk(s)
      <4>1. PICK T \in SUBSET S : rows'[s] = [d \in T |-> Merged(rows[s][d], physical[d])]
        BY <3>0, <3>1, <2>1, <1>0 DEF SyncAsk
      <4>2. \A d \in T : Merged(rows[s][d], physical[d]) \in Row
        BY <3>0, HealthKeepsRow
      <4>3. rows'[s] \in [T -> Row] /\ T \in SUBSET Devices
        BY <4>1, <4>2
      <4> QED BY <4>3, <3>1, <1>0 DEF Copies, SyncAsk
    <3>2. CASE SyncSave(s)
      <4>1. PICK d \in S : /\ device' = [device EXCEPT ![d] = rows[s][d]]
                           /\ rows' = [rows EXCEPT ![s] = [e \in S \ {d} |-> rows[s][e]]]
        BY <3>0, <3>2, NextToSave
      <4>2. rows'[s] \in [S \ {d} -> Row] /\ S \ {d} \in SUBSET Devices
        BY <3>0, <4>1, <2>1, <1>0
      <4>3. rows[s][d] \in Row
        BY <3>0, <4>1
      <4> QED BY <4>1, <4>2, <4>3, <1>0 DEF Copies
    <3>3. CASE SyncDone(s)
      BY <3>3, <2>1, <1>0 DEF SyncDone
    <3> QED BY <1>3, <3>1, <3>2, <3>3
  <2>5. rows' \in [Actors -> Copies]
    BY <2>1, <2>2, <2>4, <1>0
  <2>6. \A q \in Callers : Underway(q)'
    <3> SUFFICES ASSUME NEW q \in Callers PROVE Underway(q)'
      OBVIOUS
    <3>1. pc'[q] = pc[q] /\ call'[q] = call[q]
      BY <2>1, <2>2, <1>0 DEF Actors
    <3> QED BY <3>1, <1>0 DEF Underway
  <2>7. \A q \in Syncers : AskedAll(q)'
    <3> SUFFICES ASSUME NEW q \in Syncers, pc'[q] = "asked" PROVE rows'[q] \in [Devices -> Row]
      BY DEF AskedAll
    <3>0. q \in Actors /\ q # s
      BY <2>1, <2>2, <1>0 DEF Actors
    <3>1. pc'[q] = pc[q] /\ rows'[q] = rows[q]
      BY <3>0, <2>2, <1>0
    <3> QED BY <3>1, <1>0 DEF AskedAll
  <2> QED BY <2>2, <2>3, <2>4, <2>5, <2>6, <2>7, <1>0 DEF TInv
<1>4. CASE Change
  <2> USE <1>4 DEF Change
  <2>1. physical' \in [Devices -> {"online", "offline", "gone"}]
    BY <1>0, ActorAssumption
  <2>2. (\A q \in Callers : Underway(q)') /\ (\A s \in Syncers : AskedAll(s)')
    BY <1>0 DEF Underway, AskedAll
  <2> QED BY <2>1, <2>2, <1>0 DEF TInv
<1>5. CASE Tick
  <2>1. UNCHANGED <<regime, physical, pc, unserved>>
    BY <1>5 DEF Tick, world
  <2>2. \A q \in Callers : Underway(q)'
    <3> SUFFICES ASSUME NEW q \in Callers PROVE Underway(q)'
      OBVIOUS
    <3>1. call'[q].copy = call[q].copy
      <4>1. PICK c \in Call : c = call[q]
        BY <1>0
      <4>2. \A n \in 0..Interval : [c EXCEPT !.age = n].copy = c.copy
        BY CallFields
      <4> QED BY <4>1, <4>2, <1>5, TickAges
    <3> QED BY <3>1, <2>1, <1>0 DEF Underway
  <2>3. \A s \in Syncers : AskedAll(s)'
    <3> SUFFICES ASSUME NEW s \in Syncers, pc[s] = "asked" PROVE rows'[s] \in [Devices -> Row]
      BY <2>1 DEF AskedAll
    <3>1. rows[s] \in [Devices -> Row] /\ s \in Actors
      BY <1>0 DEF AskedAll, Actors
    <3>2. rows'[s] \in Copies /\ DOMAIN rows'[s] = Devices
      BY <3>1, <1>5, TickAges
    <3> QED BY <3>2 DEF Copies
  <2> QED BY <2>1, <2>2, <2>3, <1>0, <1>5, TickAges DEF TInv
<1>6. CASE UNCHANGED vars
  BY <1>6 DEF vars, world, TInv, Underway, AskedAll
<1> QED BY <1>1, <1>2, <1>3, <1>4, <1>5, <1>6

LEMMA TInvNext ==
  ASSUME TInv, [Next]_vars
  PROVE  TInv'
<1>1. ASSUME NEW p \in Callers, Patrol(p)
      PROVE  TInv'
  BY <1>1, TInvBegin DEF Patrol
<1>2. ASSUME NEW p \in Callers, RunDueTask(p)
      PROVE  TInv'
  BY <1>2, TInvBegin DEF RunDueTask
<1>3. ASSUME NEW p \in Callers, RunRoundNow(p) \/ CallStep(p)
      PROVE  TInv'
  BY <1>3, TInvProbe, TInvRound DEF CallStep
<1> QED BY <1>1, <1>2, <1>3, TInvRest DEF Next

\* The rows, the copies of them that calls hold and the task are what their types say
\* (TypeOK), whatever devices, settings and actors there are.
THEOREM TypeCorrect == Spec => []TypeOK
<1>1. TInv /\ [Next]_vars => TInv'
  BY TInvNext
<1> QED BY TInvInit, TInvIsTypeOK, <1>1, PTL DEF Spec

-----------------------------------------------------------------------------
(* One at a time.                                                          *)

AtWork(p) == pc[p] # "idle"
OneAtWork == \A p, q \in Actors : AtWork(p) /\ AtWork(q) => p = q

\* Whoever moves was at work, or free to start.
LEMMA WhoMoves ==
  ASSUME TInv, [Next]_vars
  PROVE  /\ regime' = regime
         /\ \/ pc' = pc
            \/ \E p \in Actors : \E to \in Pcs :
                 /\ pc' = [pc EXCEPT ![p] = to]
                 /\ AtWork(p) \/ Free(p)
<1>0. pc \in [Actors -> Pcs] /\ Callers \subseteq Actors /\ Syncers \subseteq Actors
  BY DEF TInv, Actors
<1>1. ASSUME NEW p \in Callers, Patrol(p) \/ RunDueTask(p) \/ RunRoundNow(p)
      PROVE  regime' = regime /\ (\E to \in Pcs : pc' = [pc EXCEPT ![p] = to]) /\ Free(p)
  <2>1. ASSUME NEW scope, NEW force, Begin(p, scope, force)
        PROVE  regime' = regime /\ pc' = [pc EXCEPT ![p] = "probe"] /\ Free(p)
    BY <2>1 DEF Begin, Goto, world
  <2>2. CASE Patrol(p) \/ RunDueTask(p)
    BY <2>1, <2>2 DEF Patrol, RunDueTask, Pcs
  <2>3. CASE RunRoundNow(p)
    BY <2>3 DEF RunRoundNow, Goto, world, Pcs
  <2> QED BY <2>2, <2>3, <1>1
<1>2. ASSUME NEW p \in Callers, CallStep(p)
      PROVE  regime' = regime /\ (\E to \in Pcs : pc' = [pc EXCEPT ![p] = to]) /\ AtWork(p)
  <2>0. \A to : to = pc[p] => [pc EXCEPT ![p] = to] = pc
    BY <1>0
  <2>1. CASE ProbeSkip(p)
    BY <2>1, <2>0, <1>0 DEF ProbeSkip, world, AtWork, Pcs
  <2>2. CASE ProbeAsk(p) \/ ProbeAnswer(p)
    BY <2>2 DEF ProbeAsk, ProbeAnswer, Goto, world, AtWork, Pcs
  <2>3. CASE ProbesDone(p) \/ Load(p)
    BY <2>3 DEF ProbesDone, Load, Return, Goto, world, AtWork, Pcs
  <2>4. CASE Select(p)
    BY <2>4 DEF Select, Goto, world, AtWork, Pcs
  <2>5. CASE Execute(p) \/ ExecuteRaises(p) \/ SaveState(p)
    BY <2>5 DEF Execute, ExecuteRaises, SaveState, Return, Goto, world, AtWork, Pcs
  <2>6. CASE Record(p)
    BY <2>6, <2>0, <1>0 DEF Record, world, AtWork, Pcs
  <2> QED BY <2>1, <2>2, <2>3, <2>4, <2>5, <2>6, <1>2 DEF CallStep, RoundStep
<1>3. ASSUME NEW s \in Syncers, SyncRead(s)
      PROVE  regime' = regime /\ (\E to \in Pcs : pc' = [pc EXCEPT ![s] = to]) /\ Free(s)
  BY <1>3 DEF SyncRead, Goto, world, Pcs
<1>4. ASSUME NEW s \in Syncers, SyncAsk(s) \/ SyncSave(s) \/ SyncDone(s)
      PROVE  regime' = regime /\ (\E to \in Pcs : pc' = [pc EXCEPT ![s] = to]) /\ AtWork(s)
  <2>1. CASE SyncAsk(s) \/ SyncDone(s)
    BY <2>1 DEF SyncAsk, SyncDone, Goto, world, AtWork, Pcs
  <2>2. CASE SyncSave(s)
    <3>1. pc' = [pc EXCEPT ![s] = pc[s]]
      BY <2>2, <1>0 DEF SyncSave
    <3> QED BY <2>2, <3>1 DEF SyncSave, world, AtWork, Pcs
  <2> QED BY <1>4, <2>1, <2>2
<1>5. ASSUME (\E a \in Admins : Configure(a)) \/ Change \/ Tick \/ UNCHANGED vars
      PROVE  regime' = regime /\ pc' = pc
  BY <1>5 DEF Configure, Change, Tick, vars, world
<1> QED BY <1>0, <1>1, <1>2, <1>3, <1>4, <1>5 DEF Next

LEMMA OneAtWorkInit == Init => OneAtWork
BY DEF Init, OneAtWork, AtWork

LEMMA OneAtWorkNext ==
  ASSUME TInv, regime.serial => OneAtWork, [Next]_vars
  PROVE  (regime.serial => OneAtWork)'
<1> SUFFICES ASSUME regime.serial
             PROVE  OneAtWork'
  BY WhoMoves
<1>1. CASE pc' = pc
  BY <1>1 DEF OneAtWork, AtWork
<1>2. ASSUME NEW p \in Actors, NEW to \in Pcs, pc' = [pc EXCEPT ![p] = to], AtWork(p) \/ Free(p)
      PROVE  OneAtWork'
  <2>0. pc \in [Actors -> Pcs]
    BY DEF TInv
  <2>1. \A q \in Actors : q # p => ~AtWork(q)
    <3>1. CASE AtWork(p)
      BY <3>1 DEF OneAtWork
    <3>2. CASE Free(p)
      BY <3>2 DEF Free, AtWork
    <3> QED BY <3>1, <3>2, <1>2
  <2>2. \A q \in Actors : q # p => pc'[q] = pc[q]
    BY <1>2, <2>0
  <2> QED BY <2>1, <2>2 DEF OneAtWork, AtWork
<1> QED BY <1>1, <1>2, WhoMoves

\* While somebody acts nobody else is at work, and where nobody is, nobody was.
LEMMA OthersIdle ==
  ASSUME regime.serial, OneAtWork, NEW p \in Actors, AtWork(p) \/ Free(p)
  PROVE  \A q \in Actors : q # p => pc[q] = "idle"
BY DEF OneAtWork, AtWork, Free

-----------------------------------------------------------------------------
(* The rotation.                                                           *)

\* How many places after the start of the next round a primary device stands.
Ahead(i, c, n) == IF i > c THEN i - 1 - c ELSE i - 1 - c + n

\* After a round that took step devices everybody is step places nearer to the start.
LEMMA RoundMovesOn ==
  ASSUME NEW n \in Nat \ {0}, NEW c \in 0..(n - 1), NEW step \in 1..n, NEW i \in 1..n
  PROVE  /\ (c + step) % n \in 0..(n - 1)
         /\ Ahead(i, c, n) \in 0..(n - 1)
         /\ Ahead(i, (c + step) % n, n) \in 0..(n - 1)
         /\ Ahead(i, c, n) >= step => Ahead(i, (c + step) % n, n) = Ahead(i, c, n) - step
<1>1. c + step \in Nat /\ c + step < 2 * n
  OBVIOUS
<1>2. (c + step) % n = IF c + step < n THEN c + step ELSE c + step - n
  <2>1. PICK m \in Nat : m = c + step
    BY <1>1
  <2>2. m % n = IF m < n THEN m ELSE m - n
    BY <1>1, <2>1, RemainderOnce
  <2> QED BY <2>1, <2>2
<1>3. PICK k \in 0..(n - 1) : k = (c + step) % n
                             /\ k = IF c + step < n THEN c + step ELSE c + step - n
  <2>1. (IF c + step < n THEN c + step ELSE c + step - n) \in 0..(n - 1)
    OBVIOUS
  <2> QED BY <2>1, <1>2
<1>4. Ahead(i, c, n) \in 0..(n - 1) /\ Ahead(i, k, n) \in 0..(n - 1)
  BY DEF Ahead
<1>5. Ahead(i, c, n) >= step => Ahead(i, k, n) = Ahead(i, c, n) - step
  <2>1. CASE c + step < n
    <3>1. k = c + step
      BY <2>1, <1>3
    <3> QED BY <3>1 DEF Ahead
  <2>2. CASE ~(c + step < n)
    <3>1. k = c + step - n
      BY <2>2, <1>3
    <3> QED BY <3>1 DEF Ahead
  <2> QED BY <2>1, <2>2
<1> QED BY <1>3, <1>4, <1>5

\* What a device has waited, with what it has still to wait, is less than once round.
LEMMA WaitsNoLonger ==
  ASSUME NEW n \in Nat, NEW step \in Nat, NEW u \in Nat, NEW v \in Nat, NEW a \in Nat, NEW b \in Nat,
         u * step + a < n, v <= u + 1, a = b + step
  PROVE  v * step + b < n
<1>1. (u + 1) * step = u * step + step
  OBVIOUS
<1>2. v * step <= (u + 1) * step
  <2>1. PICK w \in Nat : u + 1 = v + w
    OBVIOUS
  <2>2. (v + w) * step = v * step + w * step /\ w * step \in Nat /\ v * step \in Nat
    OBVIOUS
  <2> QED BY <2>1, <2>2
<1> QED BY <1>1, <1>2

Plan(p) == pc[p] \in {"select", "execute", "record"}
CopyCurrent(p) == Plan(p) => call[p].copy.set = task.set /\ call[p].copy.cursor = task.cursor

EveryRound(s) == s.strategy = "round_robin" /\ s.policy = "every_round"

\* The wait of the device at place i, done and to come.
Turn(i) ==
  unserved[task.set.primary[i]] * RotationStep(task.set)
    + Ahead(i, task.cursor, Len(task.set.primary)) < Len(task.set.primary)
Turns ==
  EveryRound(task.set) =>
    /\ task.cursor \in 0..(Len(task.set.primary) - 1)
    /\ \A i \in 1..Len(task.set.primary) : Turn(i)

SerialInv ==
  regime.serial => OneAtWork /\ (\A p \in Callers : CopyCurrent(p)) /\ Turns

LEMMA TurnsServe ==
  ASSUME TInv, SerialInv
  PROVE  RotationReachesEveryone
<1> SUFFICES ASSUME regime.serial, EveryRound(task.set), NEW d \in Range(task.set.primary)
             PROVE  unserved[d] * RotationStep(task.set) < Len(task.set.primary)
  BY DEF RotationReachesEveryone, EveryRound
<1>1. PICK q \in Seq(Devices) : q = task.set.primary
  BY SettingFacts DEF TInv, Task
<1>2. PICK n \in Nat \ {0}, step \in Nat : n = Len(q) /\ step = RotationStep(task.set)
  BY <1>1, SettingFacts DEF TInv, Task
<1>3. PICK i \in 1..n : q[i] = d
  BY <1>1, <1>2 DEF Range
<1>4. PICK c \in 0..(n - 1) : c = task.cursor
  BY <1>1, <1>2 DEF SerialInv, Turns
<1>5. PICK u \in Nat : u = unserved[d]
  <2>1. d \in Devices
    BY <1>1, <1>2, <1>3
  <2>2. unserved[d] \in 0..Cardinality(Devices)
    BY <2>1 DEF TInv
  <2> QED BY <2>2, DeviceCount
<1>6. u * step + Ahead(i, c, n) < n
  BY <1>1, <1>2, <1>3, <1>4, <1>5 DEF SerialInv, Turns, Turn
<1>7. Ahead(i, c, n) \in Nat /\ u * step \in Nat
  BY DEF Ahead
<1>8. u * step < n
  BY <1>6, <1>7
<1> QED BY <1>8, <1>1, <1>2, <1>5

\* Who has not waited yet is less than once round away.
LEMMA FreshTurn ==
  ASSUME NEW s \in Settings, NEW k \in 0..(Len(s.primary) - 1), NEW i \in 1..Len(s.primary)
  PROVE  0 * RotationStep(s) + Ahead(i, k, Len(s.primary)) < Len(s.primary)
<1>1. PICK n \in Nat \ {0}, step \in Nat : n = Len(s.primary) /\ step = RotationStep(s)
  BY SettingFacts
<1>2. i \in 1..n /\ k \in 0..(n - 1)
  BY <1>1
<1>3. Ahead(i, k, n) \in Nat /\ Ahead(i, k, n) < n
  BY <1>2 DEF Ahead
<1>4. 0 * step = 0
  OBVIOUS
<1> QED BY <1>1, <1>3, <1>4

\* A place of the primary devices holds a device.
LEMMA PrimaryDevice ==
  ASSUME NEW s \in Settings, NEW i \in 1..Len(s.primary)
  PROVE  s.primary[i] \in Devices
BY SettingFacts

LEMMA SerialInit == Init => SerialInv
<1> SUFFICES ASSUME Init PROVE SerialInv
  OBVIOUS
<1>1. TInv /\ OneAtWork
  BY TInvInit, OneAtWorkInit
<1>2. task.set \in Settings /\ task.cursor = 0 /\ \A d \in Devices : unserved[d] = 0
  BY DEF Init
<1>3. 0 \in 0..(Len(task.set.primary) - 1)
  <2>1. Len(task.set.primary) \in Nat \ {0}
    BY <1>2, SettingFacts
  <2> QED BY <2>1
<1>4. Turns
  BY <1>2, <1>3, FreshTurn, PrimaryDevice DEF Turns, Turn
<1>5. \A p \in Callers : CopyCurrent(p)
  BY DEF Init, CopyCurrent, Plan, Actors
<1> QED BY <1>1, <1>4, <1>5 DEF SerialInv

\* A step that leaves the rotation alone, and the copies that rounds hold.
KeepsPlans ==
  /\ task'.set = task.set /\ task'.cursor = task.cursor /\ unserved' = unserved
  /\ \A p \in Callers : Plan(p)' => Plan(p) /\ call'[p].copy = call[p].copy

LEMMA KeptPlans ==
  ASSUME regime.serial, SerialInv, KeepsPlans
  PROVE  (\A p \in Callers : CopyCurrent(p)') /\ Turns'
<1>1. \A p \in Callers : CopyCurrent(p)'
  <2> SUFFICES ASSUME NEW p \in Callers, Plan(p)'
               PROVE  call'[p].copy.set = task'.set /\ call'[p].copy.cursor = task'.cursor
    BY DEF CopyCurrent
  <2>1. Plan(p) /\ call'[p].copy = call[p].copy
    BY DEF KeepsPlans
  <2>2. call[p].copy.set = task.set /\ call[p].copy.cursor = task.cursor
    BY <2>1 DEF SerialInv, CopyCurrent
  <2> QED BY <2>1, <2>2 DEF KeepsPlans
<1>2. Turns'
  <2>1. PICK s, c : s = task.set /\ c = task.cursor /\ s = task'.set /\ c = task'.cursor
    BY DEF KeepsPlans
  <2>2. unserved' = unserved
    BY DEF KeepsPlans
  <2>3. Turns
    BY DEF SerialInv
  <2> QED BY <2>1, <2>2, <2>3 DEF Turns, Turn
<1> QED BY <1>1, <1>2

\* Only Load takes a copy, and only SaveState and Configure turn the rotation.
LEMMA WhoKeepsPlans ==
  ASSUME TInv, [Next]_vars,
         ~\E p \in Callers : Load(p) \/ SaveState(p),
         ~\E a \in Admins : Configure(a)
  PROVE  KeepsPlans
<1>0. /\ pc \in [Actors -> Pcs] /\ call \in [Callers -> Call] /\ task \in Task
      /\ Callers \subseteq Actors
      /\ \A s \in Syncers : s \in Actors /\ s \notin Callers
  BY ActorAssumption DEF TInv, Actors
<1>a. /\ "probe" \notin {"select", "execute", "record"} /\ "asked" \notin {"select", "execute", "record"}
      /\ "load" \notin {"select", "execute", "record"} /\ "idle" \notin {"select", "execute", "record"}
  OBVIOUS
<1>1. ASSUME NEW p \in Callers, NEW to, pc' = [pc EXCEPT ![p] = to],
             NEW c, call' = [call EXCEPT ![p] = c],
             to \in {"select", "execute", "record"} => Plan(p) /\ c.copy = call[p].copy,
             UNCHANGED <<task, unserved>>
      PROVE  KeepsPlans
  <2>1. \A q \in Callers : Plan(q)' => Plan(q) /\ call'[q].copy = call[q].copy
    <3> SUFFICES ASSUME NEW q \in Callers, Plan(q)'
                 PROVE  Plan(q) /\ call'[q].copy = call[q].copy
      OBVIOUS
    <3>1. CASE q = p
      <4>1. pc'[p] = to /\ call'[p] = c
        BY <1>1, <1>0
      <4> QED BY <3>1, <4>1, <1>1 DEF Plan
    <3>2. CASE q # p
      <4>1. pc'[q] = pc[q] /\ call'[q] = call[q]
        BY <3>2, <1>1, <1>0
      <4> QED BY <4>1 DEF Plan
    <3> QED BY <3>1, <3>2
  <2> QED BY <2>1, <1>1 DEF KeepsPlans
<1>2. ASSUME NEW p \in Callers, NEW scope, NEW force, Begin(p, scope, force)
      PROVE  KeepsPlans
  <2>1. PICK c : call' = [call EXCEPT ![p] = c]
    BY <1>2 DEF Begin
  <2>2. pc' = [pc EXCEPT ![p] = "probe"] /\ UNCHANGED <<task, unserved>>
    BY <1>2 DEF Begin, Goto
  <2> QED BY <1>1, <1>a, <2>1, <2>2
<1>3. ASSUME NEW p \in Callers, RunRoundNow(p)
      PROVE  KeepsPlans
  <2>1. call' = [call EXCEPT ![p] = [call[p] EXCEPT !.forced = TRUE]]
    BY <1>3, <1>0 DEF RunRoundNow
  <2>2. pc' = [pc EXCEPT ![p] = "load"] /\ UNCHANGED <<task, unserved>>
    BY <1>3 DEF RunRoundNow, Goto
  <2> QED BY <1>1, <1>a, <2>1, <2>2
<1>4. ASSUME NEW p \in Callers, ProbeSkip(p)
      PROVE  KeepsPlans
  <2>1. PICK c : call' = [call EXCEPT ![p] = c]
    BY <1>4, <1>0 DEF ProbeSkip
  <2>2. pc' = [pc EXCEPT ![p] = "probe"] /\ UNCHANGED <<task, unserved>>
    BY <1>4, <1>0 DEF ProbeSkip
  <2> QED BY <1>1, <1>a, <2>1, <2>2
<1>5. ASSUME NEW p \in Callers, ProbeAsk(p)
      PROVE  KeepsPlans
  <2>1. PICK c : call' = [call EXCEPT ![p] = c]
    BY <1>5, <1>0 DEF ProbeAsk
  <2>2. pc' = [pc EXCEPT ![p] = "asked"] /\ UNCHANGED <<task, unserved>>
    BY <1>5 DEF ProbeAsk, Goto
  <2> QED BY <1>1, <1>a, <2>1, <2>2
<1>6. ASSUME NEW p \in Callers, ProbeAnswer(p)
      PROVE  KeepsPlans
  <2>1. call' = [call EXCEPT ![p] = call[p]]
    BY <1>6, <1>0 DEF ProbeAnswer
  <2>2. pc' = [pc EXCEPT ![p] = "probe"] /\ UNCHANGED <<task, unserved>>
    BY <1>6 DEF ProbeAnswer, Goto
  <2> QED BY <1>1, <1>a, <2>1, <2>2
<1>7. ASSUME NEW p \in Callers, ProbesDone(p)
      PROVE  KeepsPlans
  <2>1. PICK c : call' = [call EXCEPT ![p] = c]
    <3>1. call = [call EXCEPT ![p] = call[p]]
      BY <1>0
    <3> QED BY <3>1, <1>7 DEF ProbesDone, Return
  <2>2. PICK to \in {"load", "idle"} : pc' = [pc EXCEPT ![p] = to]
    BY <1>7 DEF ProbesDone, Return, Goto
  <2>3. UNCHANGED <<task, unserved>>
    BY <1>7 DEF ProbesDone
  <2> QED BY <1>1, <2>1, <2>2, <2>3
<1>8. ASSUME NEW p \in Callers, Select(p)
      PROVE  KeepsPlans
  <2>1. PICK c : call' = [call EXCEPT ![p] = c] /\ c.copy = call[p].copy
    <3>1. PICK absent, S : /\ absent = Reports(Unavailable(call[p].copy, device), [d \in Devices |-> "failed"])
                           /\ S = Assigned(call[p].copy, device)
      OBVIOUS
    <3>2. \/ call' = [call EXCEPT ![p] = [call[p] EXCEPT !.results = absent, !.bad = TRUE]]
          \/ call' = [call EXCEPT ![p] = [call[p] EXCEPT !.results = absent, !.assigned = S]]
      BY <1>8, <3>1, <1>0 DEF Select
    <3>3. /\ [call[p] EXCEPT !.results = absent, !.bad = TRUE].copy = call[p].copy
          /\ [call[p] EXCEPT !.results = absent, !.assigned = S].copy = call[p].copy
      BY <1>0 DEF Call
    <3> QED BY <3>2, <3>3
  <2>2. PICK to : pc' = [pc EXCEPT ![p] = to]
    BY <1>8 DEF Select, Goto
  <2>3. UNCHANGED <<task, unserved>> /\ Plan(p)
    BY <1>8 DEF Select, Plan
  <2> QED BY <1>1, <2>1, <2>2, <2>3
<1>9. ASSUME NEW p \in Callers, Execute(p)
      PROVE  KeepsPlans
  <2>1. PICK what : call' = [call EXCEPT ![p].results = @ \o Reports(call[p].assigned, what),
                               ![p].bad = \E d \in call[p].assigned : what[d] = "failed",
                               ![p].assigned = {}]
    BY <1>9 DEF Execute
  <2>2. call' = [call EXCEPT ![p] = call'[p]] /\ call'[p].copy = call[p].copy
    BY <2>1, <1>0 DEF Call
  <2>3. pc' = [pc EXCEPT ![p] = "record"] /\ UNCHANGED <<task, unserved>> /\ Plan(p)
    BY <1>9 DEF Execute, Goto, Plan
  <2> QED BY <1>1, <2>2, <2>3
<1>10. ASSUME NEW p \in Callers, ExecuteRaises(p)
       PROVE  KeepsPlans
  <2>1. call' = [call EXCEPT ![p] = IdleCall] /\ pc' = [pc EXCEPT ![p] = "idle"]
        /\ UNCHANGED <<task, unserved>>
    BY <1>10 DEF ExecuteRaises, Return, Goto
  <2> QED BY <1>1, <1>a, <2>1
<1>11. ASSUME NEW p \in Callers, Record(p)
       PROVE  KeepsPlans
  <2>1. call' = [call EXCEPT ![p] = [call[p] EXCEPT !.results = Tail(call[p].results)]]
        /\ pc' = [pc EXCEPT ![p] = pc[p]] /\ UNCHANGED <<task, unserved>> /\ Plan(p)
    BY <1>11, <1>0 DEF Record, Plan
  <2>2. [call[p] EXCEPT !.results = Tail(call[p].results)].copy = call[p].copy
    BY <1>0 DEF Call
  <2> QED BY <1>1, <2>1, <2>2
<1>12. ASSUME NEW s \in Syncers, SyncRead(s) \/ SyncAsk(s) \/ SyncSave(s) \/ SyncDone(s)
       PROVE  KeepsPlans
  <2>1. UNCHANGED <<task, call, unserved>> /\ \E to : pc' = [pc EXCEPT ![s] = to]
    <3>1. CASE SyncSave(s)
      <4>1. pc' = [pc EXCEPT ![s] = pc[s]]
        BY <3>1, <1>0 DEF SyncSave
      <4> QED BY <3>1, <4>1 DEF SyncSave
    <3>2. CASE SyncRead(s) \/ SyncAsk(s) \/ SyncDone(s)
      BY <3>2 DEF SyncRead, SyncAsk, SyncDone, Goto
    <3> QED BY <1>12, <3>1, <3>2
  <2>2. \A p \in Callers : pc'[p] = pc[p]
    BY <2>1, <1>0
  <2> QED BY <2>1, <2>2 DEF KeepsPlans, Plan
<1>13. CASE Change \/ UNCHANGED vars
  BY <1>13 DEF Change, vars, world, KeepsPlans, Plan
<1>14. CASE Tick
  <2>1. UNCHANGED <<pc, unserved>>
    BY <1>14 DEF Tick
  <2>2. task' = [task EXCEPT !.wait = Less(@)]
    BY <1>14 DEF Tick
  <2>3. task'.set = task.set /\ task'.cursor = task.cursor
    BY <2>2, <1>0 DEF Task
  <2>4. \A p \in Callers : call'[p].copy = call[p].copy
    <3> SUFFICES ASSUME NEW p \in Callers PROVE call'[p].copy = call[p].copy
      OBVIOUS
    <3>1. PICK c \in Call : c = call[p]
      BY <1>0
    <3>2. \A n \in 0..Interval : [c EXCEPT !.age = n].copy = c.copy
      BY CallFields
    <3> QED BY <3>1, <3>2, <1>14, TickAges
  <2> QED BY <2>1, <2>3, <2>4 DEF KeepsPlans, Plan
<1> QED
  BY <1>2, <1>3, <1>4, <1>5, <1>6, <1>7, <1>8, <1>9, <1>10, <1>11, <1>12, <1>13, <1>14
     DEF Next, Patrol, RunDueTask, CallStep, RoundStep

\* A round of the rotation is saved.
LEMMA SaveTurns ==
  ASSUME TInv, SerialInv, regime.serial, NEW p \in Callers, SaveState(p)
  PROVE  Turns'
<1> USE DEF SaveState
<1>0. pc[p] = "record" /\ Plan(p) /\ call[p].copy \in Task
  BY DEF TInv, Underway, Plan
<1>1. PICK t \in Task : t = call[p].copy
  BY <1>0
<1>2. PICK s \in Settings : s = task.set /\ s = t.set
  BY <1>0, <1>1 DEF SerialInv, CopyCurrent, TInv, Task
<1>3. t.cursor = task.cursor
  BY <1>0, <1>1 DEF SerialInv, CopyCurrent
<1>4. task' = [t EXCEPT !.wait = Interval - call[p].age, !.cursor = NextCursor(t, call[p].bad)]
  BY <1>1
<1>5. task'.set = s /\ task'.cursor = NextCursor(t, call[p].bad)
  BY <1>4, <1>2 DEF Task
<1> SUFFICES ASSUME EveryRound(s)
             PROVE  /\ task'.cursor \in 0..(Len(s.primary) - 1)
                    /\ \A i \in 1..Len(s.primary) : Turn(i)'
  BY <1>5 DEF Turns
<1>6. PICK q \in Seq(Devices) : q = s.primary
  BY SettingFacts
<1>7. PICK n \in Nat \ {0} : n = Len(q)
  BY <1>6, SettingFacts
<1>8. PICK step \in 1..n : step = RotationStep(s)
  BY <1>6, <1>7, SettingFacts
<1>9. PICK c \in 0..(n - 1) : c = task.cursor
  BY <1>2, <1>6, <1>7 DEF SerialInv, Turns
<1>10. PICK k \in 0..(n - 1) : k = (c + step) % n
  <2>1. c + step \in Nat
    OBVIOUS
  <2> QED BY <2>1, Remainder
<1>11. task'.cursor = k
  BY <1>2, <1>3, <1>5, <1>6, <1>7, <1>8, <1>9, <1>10 DEF NextCursor, EveryRound
<1>12. ASSUME NEW i \in 1..n
       PROVE  Turn(i)'
  <2>1. PICK d \in Devices : d = q[i]
    BY <1>6, <1>7
  <2>2. PICK u \in Nat : u = unserved[d]
    <3>1. unserved[d] \in 0..Cardinality(Devices)
      BY DEF TInv
    <3> QED BY <3>1, DeviceCount
  <2>3. PICK a \in 0..(n - 1) : a = Ahead(i, c, n)
    BY RoundMovesOn
  <2>4. PICK b \in 0..(n - 1) : b = Ahead(i, k, n)
    BY <1>10, RoundMovesOn
  <2>5. u * step + a < n
    BY <1>2, <1>6, <1>7, <1>8, <1>9, <2>1, <2>2, <2>3 DEF SerialInv, Turns, Turn
  <2>6. unserved'[d] = IF d \in Window(t) THEN 0
                       ELSE IF unserved[d] < Cardinality(Devices) THEN unserved[d] + 1 ELSE unserved[d]
    BY <1>1
  <2>7. PICK v \in Nat : v = unserved'[d] /\ v <= u + 1 /\ (d \in Window(t) => v = 0)
    BY <2>2, <2>6
  <2>8. v * step + b < n
    <3>1. CASE d \in Window(t)
      <4>1. v * step = 0
        BY <3>1, <2>7
      <4> QED BY <4>1
    <3>2. CASE d \notin Window(t)
      <4>1. a >= step
        <5> SUFFICES ASSUME a < step PROVE d \in Window(t)
          BY <3>2
        <5>1. Start(t) = c
          <6>1. c % n = c
            BY RemainderOnce
          <6> QED BY <6>1, <1>2, <1>3, <1>6, <1>7, <1>9 DEF Start, EveryRound
        <5>2. PICK j \in 1..n : j = a + 1
          OBVIOUS
        <5>3. i = IF c + j <= n THEN c + j ELSE c + j - n
          <6>1. CASE i > c
            <7>1. a = i - 1 - c
              BY <6>1, <2>3 DEF Ahead
            <7> QED BY ONLY <7>1, <6>1, <5>2, n \in Nat, i \in 1..n, c \in 0..(n - 1), a \in 0..(n - 1), j \in 1..n
          <6>2. CASE ~(i > c)
            <7>1. a = i - 1 - c + n
              BY <6>2, <2>3 DEF Ahead
            <7> QED BY ONLY <7>1, <6>2, <5>2, n \in Nat, i \in 1..n, c \in 0..(n - 1), a \in 0..(n - 1), j \in 1..n
          <6> QED BY <6>1, <6>2
        <5>4. Preferred(t)[j] = q[IF Start(t) + j <= n THEN Start(t) + j ELSE Start(t) + j - n]
          <6>1. q = t.set.primary /\ n = Len(t.set.primary) /\ n \in Nat
            BY <1>2, <1>6, <1>7
          <6> QED BY <6>1, PreferredOrder
        <5>5. Preferred(t)[j] = d
          BY <5>1, <5>3, <5>4, <2>1
        <5>6. j \in 1..step
          BY <5>2
        <5> QED BY <5>5, <5>6, <1>2, <1>8 DEF Window
      <4>2. b = a - step
        BY <4>1, <1>10, <2>3, <2>4, RoundMovesOn
      <4>3. a = b + step /\ a \in Nat /\ b \in Nat /\ step \in Nat /\ n \in Nat
        BY <4>2
      <4> QED BY <4>3, <2>5, <2>7, WaitsNoLonger
    <3> QED BY <3>1, <3>2
  <2> QED BY <2>1, <2>4, <2>7, <2>8, <1>5, <1>6, <1>7, <1>8, <1>11 DEF Turn
<1> QED BY <1>5, <1>6, <1>7, <1>11, <1>12

LEMMA SerialNext ==
  ASSUME TInv, SerialInv, [Next]_vars
  PROVE  SerialInv'
<1>1. TInv' /\ regime' = regime
  BY TInvNext, WhoMoves
<1> SUFFICES ASSUME regime.serial
             PROVE  OneAtWork' /\ (\A p \in Callers : CopyCurrent(p)') /\ Turns'
  BY <1>1 DEF SerialInv
<1>2. OneAtWork'
  BY <1>1, OneAtWorkNext DEF SerialInv
<1>3. /\ pc \in [Actors -> Pcs] /\ call \in [Callers -> Call] /\ task \in Task
      /\ Callers \subseteq Actors
  BY DEF TInv, Actors
<1>4. ASSUME NEW p \in Callers, SaveState(p)
      PROVE  (\A q \in Callers : CopyCurrent(q)') /\ Turns'
  <2>1. pc' = [pc EXCEPT ![p] = "idle"] /\ AtWork(p) /\ p \in Actors
    BY <1>4, <1>3 DEF SaveState, Return, Goto, AtWork
  <2>2. \A q \in Callers : pc'[q] = "idle"
    BY <2>1, <1>3, OthersIdle DEF SerialInv
  <2>3. \A q \in Callers : CopyCurrent(q)'
    BY <2>2 DEF CopyCurrent, Plan
  <2> QED BY <2>3, <1>4, SaveTurns
<1>5. ASSUME NEW p \in Callers, Load(p)
      PROVE  (\A q \in Callers : CopyCurrent(q)') /\ Turns'
  <2>1. /\ AtWork(p) /\ p \in Actors /\ UNCHANGED <<task, unserved>>
        /\ \E to : pc' = [pc EXCEPT ![p] = to]
        /\ \E c : call' = [call EXCEPT ![p] = c]
        /\ Plan(p)' => call'[p].copy = task
    <3>1. CASE task.enabled /\ (call[p].forced \/ task.wait = 0)
      <4>1. call' = [call EXCEPT ![p] = [call[p] EXCEPT !.copy = task]]
            /\ pc' = [pc EXCEPT ![p] = "select"]
        BY <3>1, <1>5, <1>3 DEF Load, Goto
      <4>2. [call[p] EXCEPT !.copy = task].copy = task
        BY <1>3 DEF Call
      <4>3. call'[p].copy = task
        BY <4>1, <4>2, <1>3
      <4> QED BY <4>1, <4>3, <1>5, <1>3 DEF Load, AtWork
    <3>2. CASE ~(task.enabled /\ (call[p].forced \/ task.wait = 0))
      <4>1. call' = [call EXCEPT ![p] = IdleCall] /\ pc' = [pc EXCEPT ![p] = "idle"]
        BY <3>2, <1>5 DEF Load, Return, Goto
      <4>2. ~Plan(p)'
        BY <4>1, <1>3 DEF Plan
      <4> QED BY <4>1, <4>2, <1>5, <1>3 DEF Load, AtWork
    <3> QED BY <3>1, <3>2
  <2>2. \A q \in Callers : q # p => ~Plan(q)'
    <3> SUFFICES ASSUME NEW q \in Callers, q # p PROVE ~Plan(q)'
      OBVIOUS
    <3>1. pc[q] = "idle"
      BY <2>1, <1>3, OthersIdle DEF SerialInv
    <3>2. pc'[q] = pc[q]
      BY <2>1, <1>3
    <3> QED BY <3>1, <3>2 DEF Plan
  <2>3. \A q \in Callers : CopyCurrent(q)'
    BY <2>1, <2>2 DEF CopyCurrent
  <2>4. Turns'
    BY <2>1 DEF SerialInv, Turns, Turn
  <2> QED BY <2>3, <2>4
<1>6. ASSUME NEW a \in Admins, Configure(a)
      PROVE  (\A q \in Callers : CopyCurrent(q)') /\ Turns'
  <2>1. PICK s \in Settings :
          task'.set = s /\ task'.cursor = IF s.strategy = "round_robin" THEN task.cursor % Len(s.primary) ELSE 0
    BY <1>6 DEF Configure
  <2>2. EveryRound(s) => task'.cursor \in 0..(Len(s.primary) - 1)
    <3>1. PICK c \in Nat, n \in Nat \ {0} : c = task.cursor /\ n = Len(s.primary)
      BY <1>3, SettingFacts DEF Task
    <3>2. c % n \in 0..(n - 1)
      BY Remainder
    <3> QED BY <3>1, <3>2, <2>1 DEF EveryRound
  <2>3. \A d \in Devices : unserved'[d] = 0
    BY <1>6 DEF Configure
  <2>4. Turns'
    <3>1. PICK k : k = task'.cursor
      OBVIOUS
    <3>2. EveryRound(s) => k \in 0..(Len(s.primary) - 1)
      BY <3>1, <2>2
    <3>3. ASSUME EveryRound(s), NEW i \in 1..Len(s.primary)
          PROVE  unserved'[s.primary[i]] * RotationStep(s) + Ahead(i, k, Len(s.primary)) < Len(s.primary)
      <4>1. unserved'[s.primary[i]] = 0
        BY <2>3, PrimaryDevice
      <4>2. 0 * RotationStep(s) + Ahead(i, k, Len(s.primary)) < Len(s.primary)
        BY <3>2, <3>3, FreshTurn
      <4> QED BY <4>1, <4>2
    <3> QED BY <3>1, <3>2, <3>3, <2>1 DEF Turns, Turn
  <2>5. \A q \in Callers : ~Plan(q)'
    BY <1>6, <1>3 DEF Configure, Free, Plan
  <2> QED BY <2>4, <2>5 DEF CopyCurrent
<1>7. CASE (~\E p \in Callers : Load(p) \/ SaveState(p)) /\ (~\E a \in Admins : Configure(a))
  <2>1. KeepsPlans
    BY <1>7, WhoKeepsPlans
  <2> QED BY <2>1, <1>2, KeptPlans
<1> QED BY <1>2, <1>4, <1>5, <1>6, <1>7

\* A round gets the devices it wants, fit ones, its task's own first; and in a rotation no
\* device waits longer than once round (select_devices, advance_rotation).
THEOREM DevicesServed == Spec => []DevicesAreServed
<1>1. TInv => SelectionServesDemand
  <2> SUFFICES ASSUME TInv PROVE SelectionServesDemand
    OBVIOUS
  <2>1. task \in Task /\ device \in [Devices -> Row]
    BY DEF TInv
  <2> QED BY <2>1, SelectionServes DEF SelectionServesDemand
<1>2. Init => TInv /\ SerialInv
  BY TInvInit, SerialInit
<1>3. TInv /\ SerialInv /\ [Next]_vars => (TInv /\ SerialInv)'
  BY TInvNext, SerialNext
<1>4. TInv /\ SerialInv => DevicesAreServed
  BY <1>1, TurnsServe DEF DevicesAreServed
<1> QED BY <1>2, <1>3, <1>4, PTL DEF Spec

-----------------------------------------------------------------------------
(* Quarantine.                                                             *)

Jailed(row) == row.state = "quarantined"
Sound(row) == Jailed(row) <=> row.streak = Threshold
Same(a, b) == (Jailed(a) <=> Jailed(b)) /\ a.streak = b.streak

\* Reports and time: the last of a full streak of failures jails, nothing here frees.
LEMMA ReportJudges ==
  ASSUME NEW row \in Row
  PROVE  /\ Jailed(row) => Jailed(Failed(row))
         /\ Sound(row) => Sound(Failed(row))
         /\ Jailed(row) => Jailed(Succeeded(row))
         /\ ~Jailed(row) => Sound(Succeeded(row))
         /\ Same(Sooner(row), row)
         /\ Same([row EXCEPT !.probeIn = ProbeInterval], row)
<1>0. Threshold \in Nat \ {0} /\ Threshold # 0
  BY RoundNumbers
<1>2. Jailed(row) => Jailed(Failed(row))
  BY DEF Row, Jailed, Failed
<1>3. Sound(row) => Sound(Failed(row))
  <2> SUFFICES ASSUME Sound(row) PROVE Sound(Failed(row))
    OBVIOUS
  <2>1. PICK k \in 0..Threshold : k = row.streak
    BY RowFields
  <2>2. /\ Failed(row).streak = IF k < Threshold THEN k + 1 ELSE k
        /\ Failed(row).state = IF k + 1 >= Threshold THEN "quarantined" ELSE row.state
    BY <2>1 DEF Failed, Row
  <2>3. CASE k = Threshold
    <3>1. k + 1 >= Threshold /\ ~(k < Threshold)
      BY <2>3, <1>0
    <3> QED BY <3>1, <2>2, <2>3 DEF Sound, Jailed
  <2>4. CASE k # Threshold
    <3>1. k < Threshold /\ (k + 1 >= Threshold <=> k + 1 = Threshold) /\ ~Jailed(row)
      BY <2>4, <2>1, <1>0 DEF Sound
    <3> QED BY <3>1, <2>2 DEF Sound, Jailed
  <2> QED BY <2>3, <2>4
<1>4. (Jailed(row) => Jailed(Succeeded(row))) /\ (~Jailed(row) => ~Jailed(Succeeded(row)))
      /\ Succeeded(row).streak = 0
  BY DEF Row, Jailed, Succeeded, Availability
<1>5. ~Jailed(row) => Sound(Succeeded(row))
  BY <1>0, <1>4 DEF Sound
<1>6. Same(Sooner(row), row) /\ Same([row EXCEPT !.probeIn = ProbeInterval], row)
  BY DEF Row, Same, Jailed, Sooner
<1> QED BY <1>2, <1>3, <1>4, <1>5, <1>6

\* What adb says: it jails nobody, and only a device that is online is freed.
LEMMA HealthJudges ==
  ASSUME NEW row \in Row, NEW seen
  PROVE  /\ Jailed(Merged(row, seen)) <=> Jailed(row)
         /\ Merged(row, seen).streak = row.streak
         /\ Sound(row) => Sound(AfterProbe(row, seen))
         /\ Jailed(row) /\ ~Jailed(AfterProbe(row, seen)) => seen = "online"
<1>0. Threshold \in Nat \ {0} /\ Threshold # 0
  BY RoundNumbers
<1>1. \A r \in Row : (Jailed(Merged(r, seen)) <=> Jailed(r)) /\ Merged(r, seen).streak = r.streak
  BY DEF Row, Jailed, Merged, Availability
<1>2. PICK m \in Row : m = [Merged(row, seen) EXCEPT !.probeIn = ProbeInterval]
  BY HealthKeepsRow
<1>3. (Jailed(m) <=> Jailed(row)) /\ m.streak = row.streak
  <2>1. PICK r \in Row : r = Merged(row, seen)
    BY HealthKeepsRow
  <2>2. m.state = r.state /\ m.streak = r.streak
    BY <2>1, <1>2 DEF Row
  <2> QED BY <2>1, <2>2, <1>1 DEF Jailed
<1>4. m.online => seen = "online"
  <2>1. PICK r \in Row : r = Merged(row, seen)
    BY HealthKeepsRow
  <2>2. m.online = r.online
    BY <2>1, <1>2 DEF Row
  <2>3. r.online = (seen = "online")
    BY <2>1 DEF Merged, Row
  <2> QED BY <2>2, <2>3
<1>5. AfterProbe(row, seen) = IF m.online THEN Cleared(m) ELSE m
  BY <1>2 DEF AfterProbe
<1>6. ~Jailed(Cleared(m)) /\ Cleared(m).streak = 0
  BY DEF Row, Jailed, Cleared
<1>7. Sound(row) => Sound(AfterProbe(row, seen))
  BY <1>0, <1>3, <1>5, <1>6 DEF Sound
<1>8. Jailed(row) /\ ~Jailed(AfterProbe(row, seen)) => seen = "online"
  BY <1>3, <1>4, <1>5
<1> QED BY <1>1, <1>7, <1>8

\* What the results of a round say of the devices, until they are recorded.
ToRun(p) ==
  pc[p] = "execute" =>
    /\ Distinct(call[p].results)
    /\ \A i \in 1..Len(call[p].results) :
         call[p].results[i][1] \notin call[p].assigned /\ call[p].results[i][2] # "success"
    /\ \A d \in call[p].assigned : ~Jailed(device[d])
ToRecord(p) ==
  pc[p] = "record" =>
    /\ Distinct(call[p].results)
    /\ \A i \in 1..Len(call[p].results) :
         call[p].results[i][2] = "success" => ~Jailed(device[call[p].results[i][1]])
CopiesTrue(p) ==
  pc[p] \in {"asked", "saving"} => \A d \in DOMAIN rows[p] : Same(rows[p][d], device[d])

JailInv ==
  regime.serial =>
    /\ \A d \in Devices : Sound(device[d])
    /\ \A p \in Actors : CopiesTrue(p)
    /\ \A p \in Callers : ToRun(p) /\ ToRecord(p)

Released == \A d \in Devices : Jailed(device[d]) /\ ~Jailed(device'[d]) => physical[d] = "online"

LEMMA JailInit == Init => JailInv
<1> SUFFICES ASSUME Init PROVE JailInv
  OBVIOUS
<1>1. \A p \in Actors : pc[p] = "idle"
  BY DEF Init
<1>2. \A d \in Devices : Sound(device[d])
  <2>1. 0 # Threshold
    BY RoundNumbers
  <2> QED BY <2>1 DEF Init, Sound, Jailed
<1> QED BY <1>1, <1>2 DEF JailInv, CopiesTrue, ToRun, ToRecord, Actors

\* Of one who moves alone only his own affairs are to be looked at.
LEMMA JailAlone ==
  ASSUME TInv, SerialInv, regime.serial, regime' = regime,
         NEW p \in Actors, NEW to, pc' = [pc EXCEPT ![p] = to], AtWork(p) \/ Free(p),
         \A d \in Devices : Sound(device'[d]),
         to \in {"asked", "saving"} => \A d \in DOMAIN rows'[p] : Same(rows'[p][d], device'[d]),
         p \in Callers /\ to = "execute" => ToRun(p)',
         p \in Callers /\ to = "record" => ToRecord(p)'
  PROVE  JailInv'
<1>0. pc \in [Actors -> Pcs] /\ Callers \subseteq Actors
  BY DEF TInv, Actors
<1>1. pc'[p] = to
  BY <1>0
<1>2. \A q \in Actors : q # p => pc'[q] = "idle"
  <2>1. \A q \in Actors : q # p => pc[q] = "idle"
    BY OthersIdle DEF SerialInv
  <2> QED BY <2>1, <1>0
<1>3. \A q \in Actors : CopiesTrue(q)'
  BY <1>1, <1>2 DEF CopiesTrue
<1>4. \A q \in Callers : ToRun(q)' /\ ToRecord(q)'
  <2> SUFFICES ASSUME NEW q \in Callers PROVE ToRun(q)' /\ ToRecord(q)'
    OBVIOUS
  <2>1. CASE q = p
    BY <2>1, <1>1 DEF ToRun, ToRecord
  <2>2. CASE q # p
    BY <2>2, <1>0, <1>2 DEF ToRun, ToRecord
  <2> QED BY <2>1, <2>2
<1> QED BY <1>3, <1>4 DEF JailInv

\* Steps that leave the registry alone and neither hold copies nor start to judge.
LEMMA JailIdle ==
  ASSUME TInv, SerialInv, JailInv, regime.serial, regime' = regime, device' = device,
         NEW p \in Actors, NEW to, pc' = [pc EXCEPT ![p] = to], AtWork(p) \/ Free(p),
         to \notin {"asked", "saving", "execute", "record"}
  PROVE  JailInv' /\ Released
<1>1. \A d \in Devices : Sound(device'[d])
  BY DEF JailInv
<1>2. to \notin {"asked", "saving"} /\ to # "execute" /\ to # "record"
  OBVIOUS
<1> QED BY <1>1, <1>2, JailAlone DEF Released

\* A probe asks with a copy of the row it found, and judges by the answer.
LEMMA JailProbe ==
  ASSUME TInv, SerialInv, JailInv, regime.serial, NEW p \in Callers, ProbeAsk(p) \/ ProbeAnswer(p)
  PROVE  JailInv' /\ Released
<1>0. /\ device \in [Devices -> Row] /\ rows \in [Actors -> Copies] /\ p \in Actors
      /\ call[p] \in Call
      /\ AtWork(p) /\ regime' = regime /\ \A d \in Devices : Sound(device[d])
  BY CallerFacts DEF TInv, AtWork, ProbeAsk, ProbeAnswer, world, JailInv
<1>1. CASE ProbeAsk(p)
  <2>1. PICK d \in call[p].probes :
          rows' = [rows EXCEPT ![p] = [e \in {d} |-> [device[d] EXCEPT !.probeIn = ProbeInterval]]]
    BY <1>1 DEF ProbeAsk
  <2>2. d \in Devices
    BY <1>0, CallFields
  <2>3. rows'[p] = [e \in {d} |-> [device[d] EXCEPT !.probeIn = ProbeInterval]]
    BY <2>1, <1>0
  <2>4. Same([device[d] EXCEPT !.probeIn = ProbeInterval], device[d])
    BY <2>2, <1>0, ReportJudges
  <2>5. \A e \in DOMAIN rows'[p] : Same(rows'[p][e], device[e])
    BY <2>3, <2>4
  <2>6. device' = device /\ pc' = [pc EXCEPT ![p] = "asked"]
    BY <1>1 DEF ProbeAsk, Goto
  <2>7. "asked" # "execute" /\ "asked" # "record"
    OBVIOUS
  <2> QED BY <1>0, <2>5, <2>6, <2>7, JailAlone DEF Released
<1>2. CASE ProbeAnswer(p)
  <2>1. PICK d \in DOMAIN rows[p] :
          device' = [device EXCEPT ![d] =
                       IF physical[d] = "gone" THEN rows[p][d] ELSE AfterProbe(@, physical[d])]
    BY <1>2 DEF ProbeAnswer
  <2>2. d \in Devices /\ Same(rows[p][d], device[d])
    <3>1. pc[p] = "asked"
      BY <1>2 DEF ProbeAnswer
    <3>2. d \in Devices
      BY <1>0 DEF Copies
    <3> QED BY <3>1, <3>2, <1>0 DEF JailInv, CopiesTrue
  <2>3. \A e \in Devices : e # d => device'[e] = device[e]
    BY <2>1, <1>0
  <2>4. device'[d] = IF physical[d] = "gone" THEN rows[p][d] ELSE AfterProbe(device[d], physical[d])
    BY <2>1, <2>2, <1>0
  <2>5. /\ Sound(device[d]) => Sound(device'[d])
        /\ Jailed(device[d]) /\ ~Jailed(device'[d]) => physical[d] = "online"
    <3>1. CASE physical[d] = "gone"
      <4>1. device'[d] = rows[p][d]
        BY <3>1, <2>4
      <4> QED BY <4>1, <2>2 DEF Same, Sound, Jailed
    <3>2. CASE physical[d] # "gone"
      <4>1. device'[d] = AfterProbe(device[d], physical[d])
        BY <3>2, <2>4
      <4>2. PICK row \in Row : row = device[d]
        BY <2>2, <1>0
      <4>3. PICK seen : seen = physical[d]
        OBVIOUS
      <4>4. /\ Sound(row) => Sound(AfterProbe(row, seen))
            /\ Jailed(row) /\ ~Jailed(AfterProbe(row, seen)) => seen = "online"
        BY HealthJudges
      <4> QED BY <4>1, <4>2, <4>3, <4>4
    <3> QED BY <3>1, <3>2
  <2>6. \A e \in Devices : Sound(device'[e])
    BY <2>3, <2>5, <2>2, <1>0
  <2>7. Released
    BY <2>3, <2>5 DEF Released
  <2>8. pc' = [pc EXCEPT ![p] = "probe"]
    BY <1>2 DEF ProbeAnswer, Goto
  <2>9. "probe" \notin {"asked", "saving"} /\ "probe" # "execute" /\ "probe" # "record"
    OBVIOUS
  <2> QED BY <1>0, <2>6, <2>7, <2>8, <2>9, JailAlone
<1> QED BY <1>1, <1>2

\* A synchronisation saves what it read, merged with what adb says, and judges nobody.
LEMMA JailSync ==
  ASSUME TInv, SerialInv, JailInv, regime.serial, NEW s \in Syncers,
         SyncRead(s) \/ SyncAsk(s) \/ SyncSave(s) \/ SyncDone(s)
  PROVE  JailInv' /\ Released
<1>0. /\ device \in [Devices -> Row] /\ rows \in [Actors -> Copies] /\ s \in Actors
      /\ pc \in [Actors -> Pcs] /\ s \notin Callers
      /\ regime' = regime /\ \A d \in Devices : Sound(device[d])
  BY ActorAssumption DEF TInv, Actors, SyncRead, SyncAsk, SyncSave, SyncDone, world, JailInv
<1>a. PICK S \in SUBSET Devices : rows[s] \in [S -> Row]
  BY <1>0 DEF Copies
<1>b. pc[s] \in {"asked", "saving"} => \A d \in S : Same(rows[s][d], device[d])
  BY <1>0, <1>a DEF JailInv, CopiesTrue
<1>1. CASE SyncRead(s)
  <2>1. rows'[s] = device /\ device' = device /\ pc' = [pc EXCEPT ![s] = "asked"] /\ Free(s)
    BY <1>1, <1>0 DEF SyncRead, Goto
  <2>2. \A e \in DOMAIN rows'[s] : Same(rows'[s][e], device'[e])
    BY <2>1 DEF Same
  <2> QED BY <1>0, <2>1, <2>2, JailAlone DEF Released
<1>2. CASE SyncAsk(s)
  <2>1. /\ AtWork(s) /\ device' = device /\ pc' = [pc EXCEPT ![s] = "saving"]
        /\ pc[s] \in {"asked", "saving"}
    BY <1>2 DEF SyncAsk, Goto, AtWork
  <2>2. PICK T \in SUBSET S : rows'[s] = [d \in T |-> Merged(rows[s][d], physical[d])]
    BY <1>2, <1>0, <1>a DEF SyncAsk
  <2>3. ASSUME NEW d \in T PROVE Same(rows'[s][d], device'[d])
    <3>1. PICK row \in Row : row = rows[s][d]
      BY <1>a
    <3>2. Merged(row, physical[d]).streak = row.streak
          /\ (Jailed(Merged(row, physical[d])) <=> Jailed(row))
      BY HealthJudges
    <3> QED BY <3>1, <3>2, <2>1, <2>2, <1>b DEF Same
  <2> QED BY <1>0, <2>1, <2>2, <2>3, JailAlone DEF Released
<1>3. CASE SyncSave(s)
  <2>1. /\ AtWork(s) /\ pc[s] \in {"asked", "saving"} /\ pc' = [pc EXCEPT ![s] = "saving"]
    BY <1>3, <1>0 DEF SyncSave, AtWork
  <2>2. PICK d \in S : /\ device' = [device EXCEPT ![d] = rows[s][d]]
                       /\ rows' = [rows EXCEPT ![s] = [e \in S \ {d} |-> rows[s][e]]]
    BY <1>3, <1>a, NextToSave
  <2>3. rows'[s] = [e \in S \ {d} |-> rows[s][e]]
    BY <2>2, <1>0
  <2>4. \A e \in Devices : Same(device'[e], device[e])
    BY <2>1, <2>2, <1>b, <1>0 DEF Same
  <2>5. (\A e \in Devices : Sound(device'[e])) /\ Released
    BY <2>4, <1>0 DEF Same, Sound, Jailed, Released
  <2>6. \A e \in DOMAIN rows'[s] : Same(rows'[s][e], device'[e])
    BY <2>1, <2>3, <2>4, <1>b DEF Same
  <2>7. "saving" # "execute" /\ "saving" # "record"
    OBVIOUS
  <2> QED BY <1>0, <2>1, <2>5, <2>6, <2>7, JailAlone
<1>4. CASE SyncDone(s)
  <2>1. AtWork(s) /\ device' = device /\ pc' = [pc EXCEPT ![s] = "idle"]
    BY <1>4 DEF SyncDone, Goto, AtWork
  <2>2. "idle" \notin {"asked", "saving", "execute", "record"}
    OBVIOUS
  <2> QED BY <1>0, <2>1, <2>2, JailIdle
<1> QED BY <1>1, <1>2, <1>3, <1>4

\* Time passes: nobody is judged.
LEMMA JailTick ==
  ASSUME TInv, JailInv, regime.serial, Tick
  PROVE  JailInv' /\ Released
<1>0. /\ device \in [Devices -> Row] /\ rows \in [Actors -> Copies] /\ call \in [Callers -> Call]
      /\ Callers \subseteq Actors
      /\ UNCHANGED <<regime, pc>>
  BY DEF TInv, Tick, world, Actors
<1>1. \A d \in Devices : Same(device'[d], device[d])
  BY <1>0, TickAges, ReportJudges
<1>2. \A d \in Devices : Jailed(device'[d]) <=> Jailed(device[d])
  BY <1>1 DEF Same, Jailed
<1>3. (\A d \in Devices : Sound(device'[d])) /\ Released
  BY <1>1, <1>2 DEF Same, Sound, Released, JailInv
<1>4. \A p \in Actors : CopiesTrue(p)'
  <2> SUFFICES ASSUME NEW p \in Actors, pc[p] \in {"asked", "saving"}, NEW d \in DOMAIN rows'[p]
               PROVE  Same(rows'[p][d], device'[d])
    BY <1>0 DEF CopiesTrue
  <2>1. d \in DOMAIN rows[p] /\ rows'[p][d] = Sooner(rows[p][d])
    BY TickAges
  <2>2. d \in Devices /\ rows[p][d] \in Row
    BY <2>1, <1>0 DEF Copies
  <2>3. Same(rows'[p][d], rows[p][d])
    BY <2>1, <2>2, ReportJudges
  <2>4. Same(rows[p][d], device[d])
    BY <2>1 DEF JailInv, CopiesTrue
  <2> QED BY <2>2, <2>3, <2>4, <1>1 DEF Same
<1>5. \A p \in Callers : ToRun(p)' /\ ToRecord(p)'
  <2> SUFFICES ASSUME NEW p \in Callers PROVE ToRun(p)' /\ ToRecord(p)'
    OBVIOUS
  <2>1. call'[p].results = call[p].results /\ call'[p].assigned = call[p].assigned
    <3>1. PICK c \in Call : c = call[p]
      BY <1>0
    <3>2. \A n \in 0..Interval : [c EXCEPT !.age = n].results = c.results
                                 /\ [c EXCEPT !.age = n].assigned = c.assigned
      BY DEF Call
    <3> QED BY <3>1, <3>2, TickAges
  <2>2. call[p].assigned \in SUBSET Devices /\ call[p].results \in Results
    BY <1>0, CallFields
  <2>3. \A i \in 1..Len(call[p].results) : call[p].results[i][1] \in Devices
    BY <2>2 DEF Results
  <2>4. ToRun(p) /\ ToRecord(p)
    BY DEF JailInv
  <2>5. ToRun(p)'
    BY <2>1, <2>2, <2>4, <1>0, <1>2 DEF ToRun, Distinct
  <2>6. ToRecord(p)'
    BY <2>1, <2>3, <2>4, <1>0, <1>2 DEF ToRecord, Distinct
  <2> QED BY <2>5, <2>6
<1> QED BY <1>0, <1>3, <1>4, <1>5 DEF JailInv

\* The devices chosen are fit; those reported absent are not, and each once.
LEMMA JailSelect ==
  ASSUME TInv, SerialInv, JailInv, regime.serial, NEW p \in Callers, Select(p)
  PROVE  JailInv' /\ Released
<1>0. /\ device \in [Devices -> Row] /\ p \in Actors /\ call[p] \in Call /\ call \in [Callers -> Call]
      /\ AtWork(p) /\ regime' = regime /\ device' = device
      /\ (\A d \in Devices : Sound(device[d])) /\ call[p].copy \in Task
      /\ pc \in [Actors -> Pcs]
  BY CallerFacts DEF Select, TInv, AtWork, world, JailInv, Underway
<1>1. PICK t \in Task : t = call[p].copy
  BY <1>0
<1>2. PICK U \in SUBSET Devices : U = Unavailable(t, device)
  BY <1>0, UnavailableAreDevices
<1>3. PICK what \in [Devices -> {"success", "failed", "cancelled"}] : what = [d \in Devices |-> "failed"]
  OBVIOUS
<1>4. PICK absent : absent = Reports(U, what)
  OBVIOUS
<1>5. /\ Distinct(absent)
      /\ \A i \in 1..Len(absent) : absent[i][1] \in U /\ absent[i][2] = "failed"
  <2>1. TellsOf(Reports(U, what), U, what)
    BY ReportsTell
  <2>2. TellsOf(absent, U, what)
    BY <2>1, <1>4
  <2> QED BY <2>2, <1>3 DEF TellsOf
<1>6. PICK S : S = Assigned(t, device)
  OBVIOUS
<1>7. S \subseteq Fit(device) /\ U \cap Fit(device) = {}
  BY <1>0, <1>2, <1>6, SelectionServes DEF Unavailable
<1>8. \A d \in S : d \notin U /\ ~Jailed(device[d])
  BY <1>7 DEF Fit, Schedulable, Jailed
<1>9. absent = Reports(Unavailable(call[p].copy, device), [d \in Devices |-> "failed"])
  BY <1>1, <1>2, <1>3, <1>4
<1>10. CASE S = {}
  <2>1. call' = [call EXCEPT ![p].results = absent, ![p].bad = TRUE]
    BY <1>10, <1>1, <1>6, <1>9 DEF Select
  <2>2. call'[p].results = absent
    BY <2>1, <1>0 DEF Call
  <2>3. pc' = [pc EXCEPT ![p] = "record"]
    BY <1>10, <1>1, <1>6 DEF Select, Goto
  <2>4. ToRecord(p)'
    BY <2>2, <1>5 DEF ToRecord
  <2>5. "record" \notin {"asked", "saving"} /\ "record" # "execute"
    OBVIOUS
  <2> QED BY <1>0, <2>3, <2>4, <2>5, JailAlone DEF Released
<1>11. CASE S # {}
  <2>1. call' = [call EXCEPT ![p].results = absent, ![p].assigned = S]
    BY <1>11, <1>1, <1>6, <1>9 DEF Select
  <2>2. call'[p].results = absent /\ call'[p].assigned = S
    BY <2>1, <1>0 DEF Call
  <2>3. pc' = [pc EXCEPT ![p] = "execute"]
    BY <1>11, <1>1, <1>6 DEF Select, Goto
  <2>4. ToRun(p)'
    BY <2>2, <1>5, <1>8, <1>0 DEF ToRun
  <2>5. "execute" \notin {"asked", "saving"} /\ "execute" # "record"
    OBVIOUS
  <2> QED BY <1>0, <2>3, <2>4, <2>5, JailAlone DEF Released
<1> QED BY <1>10, <1>11

\* The reports of two disjoint sets of devices, one after the other.
LEMMA DistinctConcat ==
  ASSUME NEW V, NEW q \in Seq(V), NEW r \in Seq(V), Distinct(q), Distinct(r),
         NEW A, \A i \in 1..Len(q) : q[i][1] \notin A, \A i \in 1..Len(r) : r[i][1] \in A
  PROVE  Distinct(q \o r)
<1>0. Len(q) \in Nat /\ Len(r) \in Nat /\ Len(q \o r) = Len(q) + Len(r)
  OBVIOUS
<1>1. \A i \in 1..Len(q \o r) : (q \o r)[i] = IF i <= Len(q) THEN q[i] ELSE r[i - Len(q)]
  BY ConcatProperties
<1> SUFFICES ASSUME NEW i \in 1..Len(q \o r), NEW j \in 1..Len(q \o r), i # j
             PROVE  (q \o r)[i][1] # (q \o r)[j][1]
  BY DEF Distinct
<1>2. CASE i <= Len(q) /\ j <= Len(q)
  <2>1. i \in 1..Len(q) /\ j \in 1..Len(q)
    BY <1>0, <1>2
  <2> QED BY <2>1, <1>1, <1>2 DEF Distinct
<1>3. CASE i <= Len(q) /\ ~(j <= Len(q))
  <2>1. i \in 1..Len(q) /\ j - Len(q) \in 1..Len(r)
    BY <1>0, <1>3
  <2> QED BY <2>1, <1>1, <1>3
<1>4. CASE ~(i <= Len(q)) /\ j <= Len(q)
  <2>1. i - Len(q) \in 1..Len(r) /\ j \in 1..Len(q)
    BY <1>0, <1>4
  <2> QED BY <2>1, <1>1, <1>4
<1>5. CASE ~(i <= Len(q)) /\ ~(j <= Len(q))
  <2>1. i - Len(q) \in 1..Len(r) /\ j - Len(q) \in 1..Len(r) /\ i - Len(q) # j - Len(q)
    BY <1>0, <1>5
  <2> QED BY <2>1, <1>1, <1>5 DEF Distinct
<1> QED BY <1>2, <1>3, <1>4, <1>5

LEMMA ConcatParts ==
  ASSUME NEW V, NEW q \in Seq(V), NEW r \in Seq(V)
  PROVE  \A i \in 1..Len(q \o r) :
           \/ i \in 1..Len(q) /\ (q \o r)[i] = q[i]
           \/ \E j \in 1..Len(r) : (q \o r)[i] = r[j]
<1> SUFFICES ASSUME NEW i \in 1..Len(q \o r)
             PROVE  \/ i \in 1..Len(q) /\ (q \o r)[i] = q[i]
                    \/ \E j \in 1..Len(r) : (q \o r)[i] = r[j]
  OBVIOUS
<1>0. Len(q) \in Nat /\ Len(r) \in Nat /\ Len(q \o r) = Len(q) + Len(r)
  OBVIOUS
<1>1. (q \o r)[i] = IF i <= Len(q) THEN q[i] ELSE r[i - Len(q)]
  BY ConcatProperties
<1>2. CASE i <= Len(q)
  BY <1>0, <1>1, <1>2
<1>3. CASE ~(i <= Len(q))
  <2>1. i - Len(q) \in 1..Len(r)
    BY <1>0, <1>3
  <2> QED BY <2>1, <1>1, <1>3
<1> QED BY <1>2, <1>3

\* The run reports of devices that were fit when they were chosen, and still are.
LEMMA JailExecute ==
  ASSUME TInv, SerialInv, JailInv, regime.serial, NEW p \in Callers, Execute(p)
  PROVE  JailInv' /\ Released
<1>0. /\ device \in [Devices -> Row] /\ p \in Actors /\ call[p] \in Call /\ call \in [Callers -> Call]
      /\ AtWork(p) /\ regime' = regime /\ device' = device
      /\ (\A d \in Devices : Sound(device[d])) /\ pc[p] = "execute" /\ ToRun(p)
      /\ pc \in [Actors -> Pcs]
  BY CallerFacts DEF Execute, TInv, AtWork, world, JailInv
<1>1. PICK what \in [call[p].assigned -> Outcomes] :
        call' = [call EXCEPT ![p].results = @ \o Reports(call[p].assigned, what),
                             ![p].bad = \E d \in call[p].assigned : what[d] = "failed",
                             ![p].assigned = {}]
  BY DEF Execute
<1>2. PICK S \in SUBSET Devices, q \in Results : S = call[p].assigned /\ q = call[p].results
  BY <1>0, CallFields
<1>3. PICK r \in Results : r = Reports(S, what)
  BY <1>2, OutcomeReports
<1>4. /\ Distinct(r) /\ \A i \in 1..Len(r) : r[i][1] \in S
  <2>1. TellsOf(Reports(S, what), S, what)
    BY ReportsTell
  <2>2. TellsOf(r, S, what)
    BY <2>1, <1>3
  <2> QED BY <2>2 DEF TellsOf
<1>5. /\ Distinct(q) /\ \A i \in 1..Len(q) : q[i][1] \notin S /\ q[i][2] # "success"
      /\ \A d \in S : ~Jailed(device[d])
  BY <1>0, <1>2 DEF ToRun
<1>6. Distinct(q \o r)
  BY <1>4, <1>5, DistinctConcat DEF Results
<1>7. \A i \in 1..Len(q \o r) : (q \o r)[i][2] = "success" => ~Jailed(device[(q \o r)[i][1]])
  <2> SUFFICES ASSUME NEW i \in 1..Len(q \o r), (q \o r)[i][2] = "success"
               PROVE  ~Jailed(device[(q \o r)[i][1]])
    OBVIOUS
  <2>1. CASE i \in 1..Len(q) /\ (q \o r)[i] = q[i]
    BY <2>1, <1>5
  <2>2. ASSUME NEW j \in 1..Len(r), (q \o r)[i] = r[j]
        PROVE  ~Jailed(device[(q \o r)[i][1]])
    BY <2>2, <1>4, <1>5
  <2>3. \/ i \in 1..Len(q) /\ (q \o r)[i] = q[i]
        \/ \E j \in 1..Len(r) : (q \o r)[i] = r[j]
    <3>1. PICK V : V = Devices \X {"success", "failed", "cancelled"}
      OBVIOUS
    <3>2. q \in Seq(V) /\ r \in Seq(V)
      BY <3>1 DEF Results
    <3>3. \A k \in 1..Len(q \o r) :
            \/ k \in 1..Len(q) /\ (q \o r)[k] = q[k]
            \/ \E j \in 1..Len(r) : (q \o r)[k] = r[j]
      BY <3>2, ConcatParts
    <3> QED BY <3>3
  <2> QED BY <2>1, <2>2, <2>3
<1>8. call'[p].results = q \o r
  BY <1>1, <1>2, <1>3, <1>0 DEF Call
<1>9. pc' = [pc EXCEPT ![p] = "record"]
  BY DEF Execute, Goto
<1>10. ToRecord(p)'
  BY <1>0, <1>6, <1>7, <1>8 DEF ToRecord
<1>11. "record" \notin {"asked", "saving"} /\ "record" # "execute"
  OBVIOUS
<1> QED BY <1>0, <1>9, <1>10, <1>11, JailAlone DEF Released

\* A report is recorded: only now, and only of the device reported, is judged.
LEMMA JailRecord ==
  ASSUME TInv, SerialInv, JailInv, regime.serial, NEW p \in Callers, Record(p)
  PROVE  JailInv' /\ Released
<1> USE DEF Record
<1>0. /\ device \in [Devices -> Row] /\ p \in Actors /\ call[p] \in Call /\ call \in [Callers -> Call]
      /\ AtWork(p) /\ regime' = regime
      /\ (\A d \in Devices : Sound(device[d])) /\ pc[p] = "record" /\ ToRecord(p)
      /\ pc \in [Actors -> Pcs]
  BY CallerFacts DEF TInv, AtWork, world, JailInv
<1>1. PICK q \in Results : q = call[p].results
  BY <1>0, CallFields
<1>2. q # <<>> /\ Len(q) \in Nat \ {0} /\ Head(q) = q[1] /\ q[1][1] \in Devices
      /\ Len(Tail(q)) = Len(q) - 1 /\ \A i \in 1..(Len(q) - 1) : Tail(q)[i] = q[i + 1]
  BY <1>1 DEF Results
<1>3. PICK d \in Devices : d = q[1][1]
  BY <1>2
<1>4. /\ Distinct(q)
      /\ \A i \in 1..Len(q) : q[i][2] = "success" => ~Jailed(device[q[i][1]])
  BY <1>0, <1>1 DEF ToRecord
<1>5. PICK row \in Row : row = device[d]
  BY <1>0
<1>6. device' = [device EXCEPT ![d] = IF q[1][2] = "success" THEN Succeeded(@) ELSE Failed(@)]
  BY <1>1, <1>2, <1>3
<1>7. /\ device'[d] = IF q[1][2] = "success" THEN Succeeded(row) ELSE Failed(row)
      /\ \A e \in Devices : e # d => device'[e] = device[e]
  BY <1>6, <1>5, <1>0
<1>8. Sound(row) /\ (q[1][2] = "success" => ~Jailed(row))
  BY <1>0, <1>2, <1>3, <1>4, <1>5
<1>9. Sound(device'[d]) /\ (Jailed(row) => Jailed(device'[d]))
  <2> HIDE DEF Record
  <2>1. CASE q[1][2] = "success"
    <3>1. device'[d] = Succeeded(row)
      BY <2>1, <1>7
    <3> QED BY <3>1, <2>1, <1>8, ReportJudges
  <2>2. CASE q[1][2] # "success"
    <3>1. device'[d] = Failed(row)
      BY <2>2, <1>7
    <3> QED BY <3>1, <1>8, ReportJudges
  <2> QED BY <2>1, <2>2
<1>10. (\A e \in Devices : Sound(device'[e])) /\ Released
  BY <1>0, <1>5, <1>7, <1>9 DEF Released
<1>11. call'[p].results = Tail(q) /\ pc' = [pc EXCEPT ![p] = "record"]
  BY <1>0, <1>1 DEF Call
<1>12. Distinct(Tail(q))
  <2> SUFFICES ASSUME NEW i \in 1..Len(Tail(q)), NEW j \in 1..Len(Tail(q)), i # j
               PROVE  Tail(q)[i][1] # Tail(q)[j][1]
    BY DEF Distinct
  <2>1. i + 1 \in 1..Len(q) /\ j + 1 \in 1..Len(q) /\ i + 1 # j + 1
        /\ i \in 1..(Len(q) - 1) /\ j \in 1..(Len(q) - 1)
    BY <1>2
  <2> QED BY <2>1, <1>2, <1>4 DEF Distinct
<1>13. \A i \in 1..Len(Tail(q)) : Tail(q)[i][2] = "success" => ~Jailed(device'[Tail(q)[i][1]])
  <2> SUFFICES ASSUME NEW i \in 1..Len(Tail(q)), Tail(q)[i][2] = "success"
               PROVE  ~Jailed(device'[Tail(q)[i][1]])
    OBVIOUS
  <2>1. i + 1 \in 1..Len(q) /\ 1 \in 1..Len(q) /\ i + 1 # 1 /\ Tail(q)[i] = q[i + 1]
    BY <1>2
  <2>2. q[i + 1][1] # d
    BY <2>1, <1>3, <1>4 DEF Distinct
  <2>3. q[i + 1][1] \in Devices
    BY <2>1 DEF Results
  <2> QED BY <2>1, <2>2, <2>3, <1>4, <1>7
<1>14. ToRecord(p)'
  BY <1>11, <1>12, <1>13 DEF ToRecord
<1>15. "record" \notin {"asked", "saving"} /\ "record" # "execute"
  OBVIOUS
<1> QED BY <1>0, <1>10, <1>11, <1>14, <1>15, JailAlone

LEMMA JailNext ==
  ASSUME TInv, SerialInv, JailInv, regime.serial, [Next]_vars
  PROVE  JailInv' /\ Released
<1>0. pc \in [Actors -> Pcs] /\ Callers \subseteq Actors /\ regime' = regime
  BY WhoMoves DEF TInv, Actors
<1>a. /\ "probe" \notin {"asked", "saving", "execute", "record"} /\ "load" \notin {"asked", "saving", "execute", "record"}
      /\ "select" \notin {"asked", "saving", "execute", "record"} /\ "idle" \notin {"asked", "saving", "execute", "record"}
  OBVIOUS
<1>1. ASSUME NEW p \in Callers, NEW scope, NEW force, Begin(p, scope, force)
      PROVE  JailInv' /\ Released
  <2>1. Free(p) /\ device' = device /\ pc' = [pc EXCEPT ![p] = "probe"] /\ p \in Actors
    BY <1>0, <1>1 DEF Begin, Goto
  <2> QED BY <2>1, <1>0, <1>a, JailIdle
<1>2. ASSUME NEW p \in Callers, RunRoundNow(p)
      PROVE  JailInv' /\ Released
  <2>1. Free(p) /\ device' = device /\ pc' = [pc EXCEPT ![p] = "load"] /\ p \in Actors
    BY <1>0, <1>2 DEF RunRoundNow, Goto
  <2> QED BY <2>1, <1>0, <1>a, JailIdle
<1>3. ASSUME NEW p \in Callers, ProbeSkip(p)
      PROVE  JailInv' /\ Released
  <2>1. AtWork(p) /\ device' = device /\ pc' = [pc EXCEPT ![p] = "probe"] /\ p \in Actors
    BY <1>0, <1>3 DEF ProbeSkip, AtWork
  <2> QED BY <2>1, <1>0, <1>a, JailIdle
<1>4. ASSUME NEW p \in Callers, ProbesDone(p)
      PROVE  JailInv' /\ Released
  <2>1. AtWork(p) /\ device' = device /\ p \in Actors
        /\ (pc' = [pc EXCEPT ![p] = "load"] \/ pc' = [pc EXCEPT ![p] = "idle"])
    BY <1>0, <1>4 DEF ProbesDone, Return, Goto, AtWork
  <2> QED BY <2>1, <1>0, <1>a, JailIdle
<1>5. ASSUME NEW p \in Callers, Load(p)
      PROVE  JailInv' /\ Released
  <2>1. AtWork(p) /\ device' = device /\ p \in Actors
        /\ (pc' = [pc EXCEPT ![p] = "select"] \/ pc' = [pc EXCEPT ![p] = "idle"])
    BY <1>0, <1>5 DEF Load, Return, Goto, AtWork
  <2> QED BY <2>1, <1>0, <1>a, JailIdle
<1>6. ASSUME NEW p \in Callers, ExecuteRaises(p) \/ SaveState(p)
      PROVE  JailInv' /\ Released
  <2>1. AtWork(p) /\ device' = device /\ p \in Actors /\ pc' = [pc EXCEPT ![p] = "idle"]
    BY <1>0, <1>6 DEF ExecuteRaises, SaveState, Return, Goto, AtWork
  <2> QED BY <2>1, <1>0, <1>a, JailIdle
<1>7. CASE (\E a \in Admins : Configure(a)) \/ Change \/ UNCHANGED vars
  <2>1. UNCHANGED <<device, pc, rows, call>>
    BY <1>7 DEF Configure, Change, vars
  <2> QED BY <2>1, <1>0 DEF JailInv, CopiesTrue, ToRun, ToRecord, Released
<1>8. ASSUME NEW p \in Callers, Patrol(p) \/ RunDueTask(p)
      PROVE  JailInv' /\ Released
  BY <1>8, <1>1 DEF Patrol, RunDueTask
<1>9. ASSUME NEW p \in Callers, CallStep(p)
      PROVE  JailInv' /\ Released
  BY <1>9, <1>3, <1>4, <1>5, <1>6, JailProbe, JailSelect, JailExecute, JailRecord
     DEF CallStep, RoundStep
<1> QED BY <1>2, <1>7, <1>8, <1>9, JailSync, JailTick DEF Next

\* A quarantine begins with the last failure of a full streak, and no device leaves it but
\* one that adb has just listed as online, while one acts at a time (record_failure,
\* _probe_quarantined_device, sync_devices).
THEOREM QuarantineJudged == Spec => QuarantineOnEvidence
<1>1. Init => TInv /\ SerialInv /\ JailInv
  BY TInvInit, SerialInit, JailInit
<1>2. TInv /\ SerialInv /\ JailInv /\ [Next]_vars => (TInv /\ SerialInv /\ JailInv)'
  <2> SUFFICES ASSUME TInv, SerialInv, JailInv, [Next]_vars
               PROVE  (TInv /\ SerialInv /\ JailInv)'
    OBVIOUS
  <2>1. TInv' /\ SerialInv' /\ regime' = regime
    BY TInvNext, SerialNext, WhoMoves
  <2>2. CASE regime.serial
    BY <2>1, <2>2, JailNext
  <2>3. CASE ~regime.serial
    BY <2>1, <2>3 DEF JailInv
  <2> QED BY <2>1, <2>2, <2>3
<1>3. TInv /\ JailInv => QuarantineMatchesStreak
  BY DEF JailInv, QuarantineMatchesStreak, Sound, Jailed
<1>4. TInv /\ SerialInv /\ JailInv /\ [Next]_vars =>
        [regime.serial => \A d \in Devices :
           device[d].state = "quarantined" /\ device'[d].state # "quarantined" =>
             physical[d] = "online"]_vars
  <2> SUFFICES ASSUME TInv, SerialInv, JailInv, [Next]_vars, regime.serial
               PROVE  \A d \in Devices :
                        device[d].state = "quarantined" /\ device'[d].state # "quarantined" =>
                          physical[d] = "online"
    OBVIOUS
  <2>1. Released
    BY JailNext
  <2> QED BY <2>1 DEF Released, Jailed
<1> QED BY <1>1, <1>2, <1>3, <1>4, PTL DEF Spec, QuarantineOnEvidence, ReleasedOnEvidence
=============================================================================
