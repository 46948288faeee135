-------------------------- MODULE MonitoringProofs --------------------------
(***************************************************************************)
(* Proofs about the operators of Monitoring, for any limit, any retention  *)
(* and any samples: what a filter by age returns, what enforcing the limit *)
(* leaves, and what is true of the lists, the summary and the alerts after *)
(* every call.  ServerProofs applies them to the process that makes these  *)
(* calls.                                                                  *)
(***************************************************************************)
EXTENDS Monitoring, FiniteSetTheorems, SequenceTheorems, WellFoundedInduction, TLAPS

(* No later sample is older, and none is of the future.                    *)
InOrder(s, h) ==
  /\ \A i \in 1 .. Len(s) : s[i].at <= h
  /\ \A i, j \in 1 .. Len(s) : i <= j => s[i].at <= s[j].at

(* s is the end of r.                                                      *)
Ends(s, r) ==
  /\ Len(s) <= Len(r)
  /\ \A i \in 1 .. Len(s) : s[i] = r[i + Len(r) - Len(s)]

(* The first n samples of s are not younger than the cutoff, the others    *)
(* are.                                                                    *)
Splits(n, s, cutoff) ==
  /\ n \in 0 .. Len(s)
  /\ \A i \in 1 .. n : s[i].at <= cutoff
  /\ \A i \in n + 1 .. Len(s) : s[i].at > cutoff

-----------------------------------------------------------------------------
(* Induction                                                               *)

(* A set of natural numbers has a least element.                           *)
LEMMA LeastOf ==
  ASSUME NEW T \in SUBSET Nat, T # {}
  PROVE  \E k \in T : \A j \in T : k <= j
<1>. DEFINE D == {0 .. k : k \in T}
<1>1. IsWellFoundedOn(StrictSubsetOrdering(Nat), FiniteSubsetsOf(Nat))
  BY FS_StrictSubsetOrderingWellFounded
<1>2. D \subseteq FiniteSubsetsOf(Nat) /\ D # {}
  <2>1. \A k \in T : 0 .. k \in SUBSET Nat /\ IsFiniteSet(0 .. k)
    BY FS_Interval
  <2>. QED  BY <2>1 DEF FiniteSubsetsOf
<1>3. PICK x \in D : \A y \in D : ~ (<<y, x>> \in StrictSubsetOrdering(Nat))
  <2>. HIDE DEF D
  <2>. QED  BY <1>1, <1>2, WFMin
<1>4. PICK k \in T : x = 0 .. k
  BY <1>3
<1>5. ASSUME NEW j \in T, j < k PROVE FALSE
  <2>1. 0 .. j \in D
    OBVIOUS
  <2>2. 0 .. j \subseteq 0 .. k /\ k \in 0 .. k /\ k \notin 0 .. j
    BY <1>5
  <2>3. <<0 .. j, 0 .. k>> \in StrictSubsetOrdering(Nat)
    BY <2>2 DEF StrictSubsetOrdering
  <2>. QED  BY <1>3, <1>4, <2>1, <2>3
<1>. QED  BY <1>5

(* What holds of 0 and passes on up to n holds up to n.                    *)
LEMMA UpTo ==
  ASSUME NEW n \in Nat, NEW S, 0 \in S, \A i \in 1 .. n : i - 1 \in S => i \in S
  PROVE  0 .. n \subseteq S
<1>. DEFINE T == {i \in 0 .. n : i \notin S}
<1>1. ASSUME T # {} PROVE FALSE
  <2>1. PICK k \in T : \A j \in T : k <= j
    <3>1. T \in SUBSET Nat
      OBVIOUS
    <3>. HIDE DEF T
    <3>. QED  BY <1>1, <3>1, LeastOf
  <2>2. k \in 1 .. n /\ k - 1 \notin T
    BY <2>1
  <2>. QED  BY <2>1, <2>2
<1>. QED  BY <1>1

-----------------------------------------------------------------------------
(* Filtering by age                                                        *)

LEMMA SplitExists ==
  ASSUME NEW s \in Seq(Sample), NEW h \in Nat, InOrder(s, h), NEW cutoff \in Int
  PROVE  \E n : Splits(n, s, cutoff)
<1>. DEFINE T == {i \in 1 .. Len(s) : s[i].at > cutoff}
<1>1. Len(s) \in Nat /\ \A i \in 1 .. Len(s) : s[i].at \in Nat
  <2>1. Len(s) \in Nat /\ \A i \in 1 .. Len(s) : s[i] \in Sample
    OBVIOUS
  <2>. QED  BY <2>1 DEF Sample
<1>2. CASE T = {}
  <2>1. \A i \in 1 .. Len(s) : s[i].at <= cutoff
    BY <1>1, <1>2
  <2>2. Splits(Len(s), s, cutoff)
    BY <1>1, <2>1 DEF Splits
  <2>. QED  BY <2>2
<1>3. CASE T # {}
  <2>1. PICK k \in T : \A j \in T : k <= j
    <3>1. T \in SUBSET Nat
      OBVIOUS
    <3>. HIDE DEF T
    <3>. QED  BY <1>3, <3>1, LeastOf
  <2>2. \A i \in 1 .. k - 1 : s[i].at <= cutoff
    BY <1>1, <2>1
  <2>3. \A i \in k .. Len(s) : s[i].at > cutoff
    BY <1>1, <2>1 DEF InOrder
  <2>4. Splits(k - 1, s, cutoff)
    BY <1>1, <2>1, <2>2, <2>3 DEF Splits
  <2>. QED  BY <2>4
<1>. QED  BY <1>2, <1>3

(* One unfolding of the filter, and the function it defines.               *)
KeepBody(s, cutoff, f) ==
  [i \in 0 .. Len(s) |->
     IF i = 0 THEN <<>>
     ELSE IF s[i].at > cutoff THEN Append(f[i - 1], s[i]) ELSE f[i - 1]]
Keep(s, cutoff) == CHOOSE f : f = KeepBody(s, cutoff, f)

LEMMA YoungerKeep ==
  ASSUME NEW s, NEW cutoff
  PROVE  Younger(s, cutoff) = Keep(s, cutoff)[Len(s)]
BY Zenon DEF Younger, Keep, KeepBody

(* Whatever satisfies the unfolding is the function of the filter.         *)
LEMMA KeepUnique ==
  ASSUME NEW s \in Seq(Sample), NEW cutoff \in Int, NEW g,
         g = KeepBody(s, cutoff, g)
  PROVE  Keep(s, cutoff)[Len(s)] = g[Len(s)]
<1>. DEFINE k == Keep(s, cutoff)
            S == {i \in 0 .. Len(s) : k[i] = g[i]}
<1>1. k = KeepBody(s, cutoff, k)
  BY DEF Keep
<1>2. Len(s) \in Nat
  OBVIOUS
<1>. HIDE DEF k
<1>3. 0 \in S
  <2>1. k[0] = <<>>
    BY <1>1, <1>2 DEF KeepBody
  <2>2. g[0] = <<>>
    BY <1>2 DEF KeepBody
  <2>. QED  BY <1>2, <2>1, <2>2
<1>4. ASSUME NEW i \in 1 .. Len(s), i - 1 \in S PROVE i \in S
  <2>1. i \in 0 .. Len(s) /\ i # 0
    BY <1>2
  <2>2. k[i] = IF s[i].at > cutoff THEN Append(k[i - 1], s[i]) ELSE k[i - 1]
    BY ONLY <1>1, <2>1 DEF KeepBody
  <2>3. g[i] = IF s[i].at > cutoff THEN Append(g[i - 1], s[i]) ELSE g[i - 1]
    BY <2>1 DEF KeepBody
  <2>4. k[i - 1] = g[i - 1]
    BY <1>4
  <2>5. k[i] = g[i]
    BY ONLY <2>2, <2>3, <2>4, SMT
  <2>. QED  BY <2>1, <2>5
<1>. HIDE DEF S
<1>5. 0 .. Len(s) \subseteq S
  BY <1>2, <1>3, <1>4, UpTo
<1>. QED  BY <1>2, <1>5, YoungerKeep DEF S, k

(* The filter keeps the end of a list that is in order.                    *)
LEMMA YoungerIsEnd ==
  ASSUME NEW s \in Seq(Sample), NEW cutoff \in Int, NEW n, Splits(n, s, cutoff)
  PROVE  Younger(s, cutoff) = SubSeq(s, n + 1, Len(s))
<1>. DEFINE g == [i \in 0 .. Len(s) |-> SubSeq(s, n + 1, i)]
<1>1. n \in 0 .. Len(s) /\ Len(s) \in Nat /\ \A i \in 1 .. Len(s) : s[i] \in Sample
  BY DEF Splits
<1>2. \A i \in 0 .. n : SubSeq(s, n + 1, i) = <<>>
  BY <1>1, SubSeqEmpty
<1>3. ASSUME NEW i \in 1 .. Len(s)
      PROVE  SubSeq(s, n + 1, i) = IF s[i].at > cutoff
                                   THEN Append(SubSeq(s, n + 1, i - 1), s[i])
                                   ELSE SubSeq(s, n + 1, i - 1)
  <2>0. i \in Nat /\ i - 1 \in 0 .. Len(s) /\ s[i].at \in Nat
    BY <1>1 DEF Sample
  <2>1. CASE i <= n
    <3>1. ~(s[i].at > cutoff)
      BY <1>1, <2>0, <2>1 DEF Splits
    <3>2. SubSeq(s, n + 1, i) = <<>> /\ SubSeq(s, n + 1, i - 1) = <<>>
      BY <1>1, <1>2, <2>0, <2>1
    <3>. QED  BY <3>1, <3>2, Zenon
  <2>2. CASE i > n
    <3>1. SubSeq(s, n + 1, i) = SubSeq(s, n + 1, i - 1) \o <<s[i]>>
      BY <1>1, <2>2, SubSeqRecursiveSecond
    <3>2. SubSeq(s, n + 1, i - 1) \in Seq(Sample)
      BY <1>1, SubSeqProperties
    <3>3. SubSeq(s, n + 1, i) = Append(SubSeq(s, n + 1, i - 1), s[i])
      BY <1>1, <3>1, <3>2, AppendIsConcat
    <3>4. s[i].at > cutoff
      BY <1>1, <2>2 DEF Splits
    <3>. QED  BY <3>3, <3>4, Zenon
  <2>. QED  BY <1>1, <2>0, <2>1, <2>2
<1>4. g = KeepBody(s, cutoff, g)
  <2>1. g[0] = <<>>
    BY <1>1, <1>2
  <2>2. \A i \in 1 .. Len(s) :
          g[i] = IF s[i].at > cutoff THEN Append(g[i - 1], s[i]) ELSE g[i - 1]
    <3>. TAKE i \in 1 .. Len(s)
    <3>1. i \in 0 .. Len(s) /\ i - 1 \in 0 .. Len(s)
      BY <1>1
    <3>2. g[i] = SubSeq(s, n + 1, i) /\ g[i - 1] = SubSeq(s, n + 1, i - 1)
      BY <3>1
    <3>. QED  BY <1>3, <3>2, Zenon
  <2>3. \A i \in 0 .. Len(s) : i # 0 => i \in 1 .. Len(s)
    BY <1>1
  <2>4. g = [i \in 0 .. Len(s) |-> g[i]]
    OBVIOUS
  <2>. HIDE DEF g
  <2>. QED  BY <2>1, <2>2, <2>3, <2>4, Zenon DEF KeepBody
<1>5. g[Len(s)] = SubSeq(s, n + 1, Len(s))
  BY <1>1
<1>. HIDE DEF g
<1>. QED  BY <1>4, <1>5, KeepUnique, YoungerKeep

-----------------------------------------------------------------------------
(* The end of a list                                                       *)

(* s is a list of samples as they are at the hour h.                       *)
List(s, h) == s \in Seq(Sample) /\ InOrder(s, h)

LEMMA ListFacts ==
  ASSUME NEW s \in Seq(Sample)
  PROVE  /\ Len(s) \in Nat
         /\ DOMAIN s = 1 .. Len(s)
         /\ \A i \in 1 .. Len(s) :
              s[i] \in Sample /\ s[i].at \in Nat /\ s[i].took \in Nat /\ s[i].ok \in BOOLEAN
<1>1. Len(s) \in Nat /\ DOMAIN s = 1 .. Len(s) /\ \A i \in 1 .. Len(s) : s[i] \in Sample
  BY LenProperties, ElementOfSeq
<1>. QED  BY <1>1 DEF Sample

LEMMA WithoutFacts ==
  ASSUME NEW s \in Seq(Sample), NEW n \in Nat
  PROVE  /\ Without(s, n) \in Seq(Sample)
         /\ Len(Without(s, n)) = IF n <= Len(s) THEN Len(s) - n ELSE 0
         /\ \A i \in 1 .. Len(Without(s, n)) : Without(s, n)[i] = s[i + n]
         /\ Ends(Without(s, n), s)
         /\ n = 0 => Without(s, n) = s
<1>1. Len(s) \in Nat
  BY LenProperties
<1>2. CASE n <= Len(s)
  <2>1. /\ Without(s, n) \in Seq(Sample)
        /\ Len(Without(s, n)) = Len(s) - n
        /\ \A i \in 1 .. Len(s) - n : Without(s, n)[i] = s[i + n]
    <3>1. \A i \in n + 1 .. Len(s) : s[i] \in Sample
      BY <1>1, ElementOfSeq
    <3>. QED  BY <1>1, <1>2, <3>1, SubSeqProperties DEF Without
  <2>2. Ends(Without(s, n), s)
    BY <1>1, <1>2, <2>1 DEF Ends
  <2>3. n = 0 => Without(s, n) = s
    BY <1>1, SubSeqFull DEF Without
  <2>. QED  BY <1>1, <1>2, <2>1, <2>2, <2>3
<1>3. CASE n > Len(s)
  <2>1. Without(s, n) = <<>>
    BY <1>1, <1>3, SubSeqEmpty DEF Without
  <2>2. <<>> \in Seq(Sample) /\ Len(<<>>) = 0
    BY EmptySeq
  <2>3. Ends(Without(s, n), s)
    BY <1>1, <2>1, <2>2 DEF Ends
  <2>4. ~(n <= Len(s)) /\ n # 0 /\ 1 .. 0 = {}
    BY <1>1, <1>3
  <2>. QED  BY <2>1, <2>2, <2>3, <2>4
<1>. QED  BY <1>1, <1>2, <1>3

LEMMA EndsOfList ==
  ASSUME NEW r \in Seq(Sample), NEW s \in Seq(Sample), NEW h, InOrder(r, h), Ends(s, r)
  PROVE  InOrder(s, h)
<1>1. Len(r) \in Nat /\ Len(s) \in Nat /\ Len(s) <= Len(r)
  BY LenProperties DEF Ends
<1>2. \A i \in 1 .. Len(s) : /\ i + Len(r) - Len(s) \in 1 .. Len(r)
                             /\ s[i] = r[i + Len(r) - Len(s)]
  BY <1>1 DEF Ends
<1>3. \A i \in 1 .. Len(s) : s[i].at <= h
  BY <1>2 DEF InOrder
<1>4. ASSUME NEW i \in 1 .. Len(s), NEW j \in 1 .. Len(s), i <= j
      PROVE  s[i].at <= s[j].at
  <2>1. i + Len(r) - Len(s) <= j + Len(r) - Len(s)
    BY <1>1, <1>4
  <2>. QED  BY <1>2, <2>1 DEF InOrder
<1>. QED  BY <1>3, <1>4 DEF InOrder

LEMMA EndsTransitive ==
  ASSUME NEW q \in Seq(Sample), NEW r \in Seq(Sample), NEW s \in Seq(Sample),
         Ends(q, r), Ends(r, s)
  PROVE  Ends(q, s)
<1>1. Len(q) \in Nat /\ Len(r) \in Nat /\ Len(s) \in Nat
  BY LenProperties
<1>2. Len(q) <= Len(r) /\ Len(r) <= Len(s)
  BY DEF Ends
<1>3. ASSUME NEW i \in 1 .. Len(q)
      PROVE  q[i] = s[i + Len(s) - Len(q)]
  <2>1. i + Len(r) - Len(q) \in 1 .. Len(r)
    BY <1>1, <1>2
  <2>2. q[i] = r[i + Len(r) - Len(q)]
    BY DEF Ends
  <2>3. r[i + Len(r) - Len(q)] = s[(i + Len(r) - Len(q)) + Len(s) - Len(r)]
    BY <2>1 DEF Ends
  <2>4. (i + Len(r) - Len(q)) + Len(s) - Len(r) = i + Len(s) - Len(q)
    BY <1>1
  <2>. QED  BY <2>2, <2>3, <2>4
<1>. QED  BY <1>1, <1>2, <1>3 DEF Ends

LEMMA EndsItself ==
  ASSUME NEW s \in Seq(Sample)
  PROVE  Ends(s, s)
<1>1. Len(s) \in Nat
  BY LenProperties
<1>. QED  BY <1>1 DEF Ends

LEMMA EndsAppend ==
  ASSUME NEW r \in Seq(Sample), NEW s \in Seq(Sample), NEW x \in Sample, Ends(s, r)
  PROVE  Ends(Append(s, x), Append(r, x))
<1>1. Len(r) \in Nat /\ Len(s) \in Nat /\ Len(s) <= Len(r)
  BY LenProperties DEF Ends
<1>2. /\ Len(Append(s, x)) = Len(s) + 1 /\ Len(Append(r, x)) = Len(r) + 1
      /\ Append(s, x)[Len(s) + 1] = x /\ Append(r, x)[Len(r) + 1] = x
      /\ \A i \in 1 .. Len(s) : Append(s, x)[i] = s[i]
      /\ \A i \in 1 .. Len(r) : Append(r, x)[i] = r[i]
  BY <1>1, AppendProperties
<1>3. ASSUME NEW i \in 1 .. Len(s) + 1
      PROVE  Append(s, x)[i] = Append(r, x)[i + (Len(r) + 1) - (Len(s) + 1)]
  <2>1. i + (Len(r) + 1) - (Len(s) + 1) = i + Len(r) - Len(s)
    BY <1>1
  <2>2. CASE i \in 1 .. Len(s)
    <3>1. i + Len(r) - Len(s) \in 1 .. Len(r)
      BY <1>1, <2>2
    <3>2. s[i] = r[i + Len(r) - Len(s)]
      BY <2>2 DEF Ends
    <3>. QED  BY <1>2, <2>1, <2>2, <3>1, <3>2
  <2>3. CASE i = Len(s) + 1
    BY <1>1, <1>2, <2>1, <2>3
  <2>. QED  BY <1>1, <2>2, <2>3
<1>. QED  BY <1>1, <1>2, <1>3 DEF Ends

(* Ends is what the community modules call a suffix.                       *)
LEMMA EndsIsSuffix ==
  ASSUME NEW r \in Seq(Sample), NEW s \in Seq(Sample), Ends(s, r)
  PROVE  IsSuffix(s, r)
<1>1. Len(r) \in Nat /\ Len(s) \in Nat /\ Len(s) <= Len(r)
  BY LenProperties DEF Ends
<1>2. \A q \in Seq(Sample) :
        /\ Reverse(q) \in Seq(Sample) /\ Len(Reverse(q)) = Len(q)
        /\ \A i \in 1 .. Len(q) : Reverse(q)[i] = q[(Len(q) - i) + 1]
  <2>. TAKE q \in Seq(Sample)
  <2>1. Len(q) \in Nat /\ \A i \in 1 .. Len(q) : q[i] \in Sample
    BY LenProperties, ElementOfSeq
  <2>2. Reverse(q) \in [1 .. Len(q) -> Sample]
    BY <2>1 DEF Reverse
  <2>3. Reverse(q) \in Seq(Sample) /\ Len(Reverse(q)) = Len(q)
    BY <2>1, <2>2
  <2>. QED  BY <2>1, <2>3 DEF Reverse
<1>3. \A i \in 1 .. Len(s) : Reverse(s)[i] = Reverse(r)[i]
  <2>. TAKE i \in 1 .. Len(s)
  <2>1. (Len(s) - i) + 1 \in 1 .. Len(s) /\ i \in 1 .. Len(r)
    BY <1>1
  <2>2. s[(Len(s) - i) + 1] = r[((Len(s) - i) + 1) + Len(r) - Len(s)]
    BY <2>1 DEF Ends
  <2>3. ((Len(s) - i) + 1) + Len(r) - Len(s) = (Len(r) - i) + 1
    BY <1>1
  <2>. QED  BY <1>2, <2>1, <2>2, <2>3
<1>4. SubSeq(Reverse(s), 1, Len(s)) = SubSeq(Reverse(r), 1, Len(s))
  <2>. DEFINE a == Reverse(s)
              b == Reverse(r)
  <2>1. a \in Seq(Sample) /\ b \in Seq(Sample) /\ Len(a) = Len(s) /\ Len(b) = Len(r)
        /\ \A i \in 1 .. Len(s) : a[i] = b[i]
    BY <1>2, <1>3
  <2>. HIDE DEF a, b
  <2>2. /\ SubSeq(a, 1, Len(s)) \in Seq(Sample) /\ SubSeq(b, 1, Len(s)) \in Seq(Sample)
        /\ Len(SubSeq(a, 1, Len(s))) = Len(s) /\ Len(SubSeq(b, 1, Len(s))) = Len(s)
        /\ \A i \in 1 .. Len(s) : SubSeq(a, 1, Len(s))[i] = a[i] /\ SubSeq(b, 1, Len(s))[i] = b[i]
    BY <1>1, <2>1
  <2>3. SubSeq(a, 1, Len(s)) = SubSeq(b, 1, Len(s))
    BY <1>1, <2>1, <2>2, SeqEqual
  <2>. QED  BY <2>3 DEF a, b
<1>. QED  BY <1>1, <1>2, <1>4 DEF IsSuffix, IsPrefix

-----------------------------------------------------------------------------
(* What the filter keeps                                                   *)

(* Filtering a list in order by age (getSystemPerformanceSummary and       *)
(* cleanupOldMetrics do) leaves its end: samples in order, all of them     *)
(* younger than the cutoff, and every sample of the list that is.          *)
THEOREM YoungerFacts ==
  ASSUME NEW s, NEW h \in Nat, List(s, h), NEW cutoff \in Int
  PROVE  /\ Younger(s, cutoff) \in Seq(Sample) /\ List(Younger(s, cutoff), h)
         /\ Ends(Younger(s, cutoff), s)
         /\ \A i \in 1 .. Len(s) - Len(Younger(s, cutoff)) : s[i].at <= cutoff
<1>1. s \in Seq(Sample) /\ InOrder(s, h)
  BY DEF List
<1>0. Len(s) \in Nat
  BY <1>1, LenProperties
<1>2. PICK n : Splits(n, s, cutoff)
  BY <1>1, SplitExists
<1>3. Younger(s, cutoff) = Without(s, n) /\ n \in Nat /\ n <= Len(s)
  <2>1. n \in Nat /\ n <= Len(s)
    BY <1>0, <1>2 DEF Splits
  <2>2. Younger(s, cutoff) = SubSeq(s, n + 1, Len(s))
    BY <1>1, <1>2, YoungerIsEnd
  <2>. QED  BY <2>1, <2>2 DEF Without
<1>4. /\ Younger(s, cutoff) \in Seq(Sample) /\ Ends(Younger(s, cutoff), s)
      /\ Len(Younger(s, cutoff)) = Len(s) - n
  BY <1>1, <1>3, WithoutFacts
<1>5. InOrder(Younger(s, cutoff), h)
  BY <1>1, <1>4, EndsOfList
<1>6. Len(s) - Len(Younger(s, cutoff)) = n
  BY <1>0, <1>3, <1>4
<1>. QED  BY <1>2, <1>4, <1>5, <1>6 DEF List, Splits

(* What is lost before the filter is applied does not matter when all of   *)
(* it is too old for the filter.                                           *)
LEMMA YoungerSame ==
  ASSUME NEW r, NEW s, NEW h \in Nat, List(r, h), List(s, h), Ends(s, r), NEW cutoff \in Int,
         \A i \in 1 .. Len(r) - Len(s) : r[i].at <= cutoff
  PROVE  Younger(s, cutoff) = Younger(r, cutoff)
<1>. DEFINE d == Len(r) - Len(s)
<1>1. /\ r \in Seq(Sample) /\ s \in Seq(Sample) /\ Len(r) \in Nat /\ Len(s) \in Nat
      /\ Len(s) <= Len(r) /\ d \in Nat /\ InOrder(s, h)
  BY LenProperties DEF List, Ends
<1>2. PICK n : Splits(n, s, cutoff)
  BY <1>1, SplitExists
<1>3. n \in Nat /\ n <= Len(s)
  BY <1>1, <1>2 DEF Splits
<1>4. \A i \in d + 1 .. Len(r) : i - d \in 1 .. Len(s) /\ r[i] = s[i - d]
  <2>. TAKE i \in d + 1 .. Len(r)
  <2>1. i - d \in 1 .. Len(s)
    BY <1>1
  <2>2. s[i - d] = r[(i - d) + Len(r) - Len(s)]
    BY <2>1 DEF Ends
  <2>3. (i - d) + Len(r) - Len(s) = i
    BY <1>1
  <2>. QED  BY <2>1, <2>2, <2>3
<1>5. Splits(n + d, r, cutoff)
  <2>1. n + d \in 0 .. Len(r)
    BY <1>1, <1>3
  <2>2. ASSUME NEW i \in 1 .. n + d PROVE r[i].at <= cutoff
    <3>1. CASE i <= d
      BY <3>1, <1>1, <1>3
    <3>2. CASE i > d
      <4>1. i \in d + 1 .. Len(r) /\ i - d \in 1 .. n
        BY <1>1, <1>3, <3>2
      <4>2. s[i - d].at <= cutoff
        BY <1>2, <4>1 DEF Splits
      <4>. QED  BY <1>4, <4>1, <4>2
    <3>. QED  BY <1>1, <1>3, <3>1, <3>2
  <2>3. ASSUME NEW i \in n + d + 1 .. Len(r) PROVE r[i].at > cutoff
    <3>1. i \in d + 1 .. Len(r) /\ i - d \in n + 1 .. Len(s)
      BY <1>1, <1>3
    <3>2. s[i - d].at > cutoff
      BY <1>2, <3>1 DEF Splits
    <3>. QED  BY <1>4, <3>1, <3>2
  <2>. HIDE DEF d
  <2>. QED  BY <2>1, <2>2, <2>3 DEF Splits
<1>6. Younger(s, cutoff) = Without(s, n) /\ Younger(r, cutoff) = Without(r, n + d)
  <2>. HIDE DEF d
  <2>. QED  BY <1>1, <1>2, <1>5, YoungerIsEnd DEF Without
<1>7. /\ Without(s, n) \in Seq(Sample) /\ Len(Without(s, n)) = Len(s) - n
      /\ \A i \in 1 .. Len(Without(s, n)) : Without(s, n)[i] = s[i + n]
  BY <1>1, <1>3, WithoutFacts
<1>8. /\ Without(r, n + d) \in Seq(Sample) /\ Len(Without(r, n + d)) = Len(s) - n
      /\ \A i \in 1 .. Len(Without(r, n + d)) : Without(r, n + d)[i] = r[i + (n + d)]
  <2>1. n + d \in Nat /\ n + d <= Len(r) /\ Len(r) - (n + d) = Len(s) - n
    BY <1>1, <1>3
  <2>. HIDE DEF d
  <2>. QED  BY <1>1, <2>1, WithoutFacts
<1>9. \A i \in 1 .. Len(s) - n : s[i + n] = r[i + (n + d)]
  <2>. TAKE i \in 1 .. Len(s) - n
  <2>1. i + (n + d) \in d + 1 .. Len(r) /\ (i + (n + d)) - d = i + n
    BY <1>1, <1>3
  <2>. QED  BY <1>4, <2>1
<1>10. Without(s, n) = Without(r, n + d)
  BY <1>7, <1>8, <1>9, SeqEqual
<1>. QED  BY <1>6, <1>10

-----------------------------------------------------------------------------
(* Enforcing the limit                                                     *)

(* L are lists as they are at the hour h.                                  *)
Lists(L, h) ==
  /\ L \in [Category -> Seq(Sample)]
  /\ \A c \in Category : InOrder(L[c], h)

(* P came of L by n records in "custom": nothing but the oldest was lost,  *)
(* and of the timed lists nothing if the count says so.                    *)
Grows(L, P, n) ==
  /\ Lists(P, hour)
  /\ Total(P) <= MaxMetrics /\ Total(P) <= Total(L) + n
  /\ \A c \in Timed : Ends(P[c], L[c])
  /\ Total(P) = Total(L) + n => \A c \in Timed : P[c] = L[c]

LEMMA CategoryIs == Category = {"custom", "request", "database", "external"}
BY DEF Category, Timed

LEMMA TotalIs ==
  ASSUME NEW L, NEW a \in Nat, NEW b \in Nat, NEW c \in Nat, NEW d \in Nat,
         Len(L.custom) = a, Len(L.request) = b, Len(L.database) = c, Len(L.external) = d
  PROVE  Total(L) = a + b + c + d
BY DEF Total

LEMMA TotalFacts ==
  ASSUME NEW L \in [Category -> Seq(Sample)]
  PROVE  /\ Len(L.custom) \in Nat /\ Len(L.request) \in Nat
         /\ Len(L.database) \in Nat /\ Len(L.external) \in Nat
         /\ Total(L) \in Nat
         /\ Total(L) = Len(L.custom) + Len(L.request) + Len(L.database) + Len(L.external)
<1>1. \A c \in Category : L[c] \in Seq(Sample) /\ Len(L[c]) \in Nat
  BY LenProperties
<1>2. /\ Len(L.custom) \in Nat /\ Len(L.request) \in Nat
      /\ Len(L.database) \in Nat /\ Len(L.external) \in Nat
  BY <1>1, CategoryIs
<1>3. Total(L) = Len(L.custom) + Len(L.request) + Len(L.database) + Len(L.external)
  BY DEF Total
<1>. DEFINE a == Len(L.custom)
            b == Len(L.request)
            c == Len(L.database)
            d == Len(L.external)
<1>4. a \in Nat /\ b \in Nat /\ c \in Nat /\ d \in Nat /\ Total(L) = a + b + c + d
  BY <1>2, <1>3
<1>5. Total(L) \in Nat
  <2>. HIDE DEF a, b, c, d
  <2>. QED  BY ONLY <1>4
<1>. QED  BY <1>2, <1>3, <1>5

(* Sums of four lengths.                                                   *)
LEMMA OneMore ==
  ASSUME NEW c \in {"custom", "request", "database", "external"},
         NEW k \in Nat, NEW l \in Nat, NEW m \in Nat, NEW n \in Nat
  PROVE  (k + (IF "custom" = c THEN 1 ELSE 0)) + (l + (IF "request" = c THEN 1 ELSE 0))
           + (m + (IF "database" = c THEN 1 ELSE 0)) + (n + (IF "external" = c THEN 1 ELSE 0))
         = (k + l + m + n) + 1
OBVIOUS

(* One sample more in a list that is in order.                             *)
LEMMA AppendInOrder ==
  ASSUME NEW s \in Seq(Sample), hour \in Nat, InOrder(s, hour), NEW x \in Sample, x.at = hour
  PROVE  Append(s, x) \in Seq(Sample) /\ InOrder(Append(s, x), hour)
<1>2. /\ Append(s, x) \in Seq(Sample) /\ Len(s) \in Nat
      /\ Len(Append(s, x)) = Len(s) + 1
      /\ \A i \in 1 .. Len(s) : Append(s, x)[i] = s[i]
      /\ Append(s, x)[Len(s) + 1] = x
  BY AppendProperties, LenProperties
<1>3. InOrder(Append(s, x), hour)
  <2>1. \A i \in 1 .. Len(s) : Append(s, x)[i].at <= hour
    BY <1>2 DEF InOrder
  <2>2. \A i \in 1 .. Len(s) + 1 : i \in 1 .. Len(s) \/ i = Len(s) + 1
    BY <1>2
  <2>3. \A i \in 1 .. Len(s) + 1 : Append(s, x)[i].at <= hour
    BY <1>2, <2>1, <2>2
  <2>4. ASSUME NEW i \in 1 .. Len(s) + 1, NEW j \in 1 .. Len(s) + 1, i <= j
        PROVE  Append(s, x)[i].at <= Append(s, x)[j].at
    <3>1. CASE j = Len(s) + 1
      BY <1>2, <2>3, <3>1
    <3>2. CASE j \in 1 .. Len(s)
      <4>1. i \in 1 .. Len(s)
        BY <1>2, <2>4, <3>2
      <4>. QED  BY <1>2, <2>4, <3>2, <4>1 DEF InOrder
    <3>. QED  BY <2>2, <3>1, <3>2
  <2>. QED  BY <1>2, <2>3, <2>4 DEF InOrder
<1>. QED  BY <1>2, <1>3

LEMMA PushFacts ==
  ASSUME NEW L, Lists(L, hour), NEW c \in Category, NEW x \in Sample, hour \in Nat, x.at = hour
  PROVE  /\ Lists([L EXCEPT ![c] = Append(@, x)], hour)
         /\ Total([L EXCEPT ![c] = Append(@, x)]) = Total(L) + 1
<1>. DEFINE R == [L EXCEPT ![c] = Append(@, x)]
<1>1. L \in [Category -> Seq(Sample)] /\ L[c] \in Seq(Sample) /\ InOrder(L[c], hour)
  BY DEF Lists
<1>2. /\ Append(L[c], x) \in Seq(Sample) /\ Len(L[c]) \in Nat
      /\ Len(Append(L[c], x)) = Len(L[c]) + 1
      /\ \A i \in 1 .. Len(L[c]) : Append(L[c], x)[i] = L[c][i]
      /\ Append(L[c], x)[Len(L[c]) + 1] = x
  BY <1>1, AppendProperties, LenProperties
<1>3. InOrder(Append(L[c], x), hour)
  BY <1>1, AppendInOrder
<1>4. R \in [Category -> Seq(Sample)] /\ R[c] = Append(L[c], x)
      /\ \A d \in Category \ {c} : R[d] = L[d]
  BY <1>1, <1>2
<1>. HIDE DEF R
<1>5. Lists(R, hour)
  <2>. SUFFICES ASSUME NEW d \in Category PROVE InOrder(R[d], hour)
    BY <1>4 DEF Lists
  <2>1. d # c => InOrder(L[d], hour)
    BY DEF Lists
  <2>. QED  BY <1>3, <1>4, <2>1
<1>6. Total(R) = Total(L) + 1
  <2>1. \A d \in Category : Len(R[d]) = Len(L[d]) + (IF d = c THEN 1 ELSE 0)
    <3>1. \A d \in Category : L[d] \in Seq(Sample) /\ Len(L[d]) \in Nat
      BY <1>1, LenProperties
    <3>2. Len(R[c]) = Len(L[c]) + 1
      BY <1>2, <1>4
    <3>3. \A d \in Category : d # c => Len(R[d]) = Len(L[d]) + 0
      <4>. TAKE d \in Category
      <4>. HAVE d # c
      <4>1. R[d] = L[d] /\ Len(L[d]) \in Nat
        BY <1>4, <3>1
      <4>. QED  BY <4>1
    <3>. QED  BY <3>2, <3>3
  <2>2. /\ Len(L.custom) \in Nat /\ Len(L.request) \in Nat
        /\ Len(L.database) \in Nat /\ Len(L.external) \in Nat
    BY <1>1, TotalFacts
  <2>3. /\ Len(R.custom) = Len(L.custom) + (IF "custom" = c THEN 1 ELSE 0)
        /\ Len(R.request) = Len(L.request) + (IF "request" = c THEN 1 ELSE 0)
        /\ Len(R.database) = Len(L.database) + (IF "database" = c THEN 1 ELSE 0)
        /\ Len(R.external) = Len(L.external) + (IF "external" = c THEN 1 ELSE 0)
    BY <2>1, CategoryIs
  <2>4. /\ Total(L) = Len(L.custom) + Len(L.request) + Len(L.database) + Len(L.external)
        /\ Total(R) = Len(R.custom) + Len(R.request) + Len(R.database) + Len(R.external)
    BY <1>1, <1>4, TotalFacts
  <2>5. c \in {"custom", "request", "database", "external"}
    BY CategoryIs
  <2>. DEFINE k == Len(L.custom)
              l == Len(L.request)
              m == Len(L.database)
              j == Len(L.external)
              one(d) == IF d = c THEN 1 ELSE 0
  <2>6. /\ Total(R) = (k + one("custom")) + (l + one("request"))
                        + (m + one("database")) + (j + one("external"))
        /\ Total(L) = k + l + m + j
    BY <2>3, <2>4, Zenon
  <2>7. k \in Nat /\ l \in Nat /\ m \in Nat /\ j \in Nat
    BY <2>2
  <2>. HIDE DEF k, l, m, j
  <2>8. (k + one("custom")) + (l + one("request")) + (m + one("database")) + (j + one("external"))
        = (k + l + m + j) + 1
    BY <2>5, <2>7, OneMore
  <2>. QED  BY ONLY <2>6, <2>8, Zenon
<1>. QED  BY <1>5, <1>6 DEF R

(* What is at most one over the limit is within it afterwards, and whether *)
(* something was lost shows in the count.                                  *)
LEMMA EnforceGrows ==
  ASSUME NEW R, Lists(R, hour), Total(R) <= MaxMetrics + 1
  PROVE  Grows(R, Enforce(R), 0)
<1>. DEFINE n == Excess(R)
<1>1. R \in [Category -> Seq(Sample)] /\ MaxMetrics \in Nat
  BY LimitsAssumption DEF Lists
<1>2. /\ Len(R.custom) \in Nat /\ Len(R.request) \in Nat
      /\ Len(R.database) \in Nat /\ Len(R.external) \in Nat /\ Total(R) \in Nat
  BY <1>1, TotalFacts
<1>3. n \in {0, 1} /\ (n = 0 <=> Total(R) <= MaxMetrics)
  <2>1. CASE Total(R) <= MaxMetrics
    BY <1>1, <1>2, <2>1 DEF Excess
  <2>2. CASE Total(R) > MaxMetrics
    <3>1. Total(R) - MaxMetrics + 3 = 4
      BY <1>1, <1>2, <2>2
    <3>. QED  BY <2>2, <1>1, <1>2, <3>1 DEF Excess
  <2>. QED  BY <1>1, <1>2, <2>1, <2>2
<1>4. Enforce(R) = [custom |-> Without(R.custom, n), request |-> Without(R.request, n),
                    database |-> Without(R.database, n), external |-> Without(R.external, n)]
  BY DEF Enforce
<1>. HIDE DEF n
<1>. DEFINE P == Enforce(R)
<1>5. /\ P.custom = Without(R.custom, n) /\ P.request = Without(R.request, n)
      /\ P.database = Without(R.database, n) /\ P.external = Without(R.external, n)
      /\ \A c \in Category : P[c] = Without(R[c], n)
      /\ P = [c \in Category |-> P[c]]
  BY <1>4, CategoryIs
<1>. HIDE DEF P
<1>6. \A c \in Category :
        /\ R[c] \in Seq(Sample) /\ Len(R[c]) \in Nat
        /\ P[c] \in Seq(Sample) /\ Ends(P[c], R[c])
        /\ Len(P[c]) = IF n <= Len(R[c]) THEN Len(R[c]) - n ELSE 0
        /\ n = 0 => P[c] = R[c]
  <2>. TAKE c \in Category
  <2>1. R[c] \in Seq(Sample) /\ Len(R[c]) \in Nat /\ n \in Nat
    BY <1>1, <1>3, LenProperties
  <2>. QED  BY <1>5, <2>1, WithoutFacts
<1>7. Lists(P, hour)
  <2>1. P \in [Category -> Seq(Sample)]
    BY <1>5, <1>6
  <2>2. \A c \in Category : InOrder(P[c], hour)
    BY <1>6, EndsOfList DEF Lists
  <2>. QED  BY <2>1, <2>2 DEF Lists
<1>8. /\ Len(P.custom) = (IF n <= Len(R.custom) THEN Len(R.custom) - n ELSE 0)
      /\ Len(P.request) = (IF n <= Len(R.request) THEN Len(R.request) - n ELSE 0)
      /\ Len(P.database) = (IF n <= Len(R.database) THEN Len(R.database) - n ELSE 0)
      /\ Len(P.external) = (IF n <= Len(R.external) THEN Len(R.external) - n ELSE 0)
  BY <1>6, CategoryIs
<1>9. Total(P) <= MaxMetrics /\ Total(P) <= Total(R) /\ (Total(P) = Total(R) => n = 0)
  <2>1. /\ Total(R) = Len(R.custom) + Len(R.request) + Len(R.database) + Len(R.external)
        /\ Total(P) = Len(P.custom) + Len(P.request) + Len(P.database) + Len(P.external)
    BY <1>1, <1>7, TotalFacts DEF Lists
  <2>2. MaxMetrics \in Nat /\ Total(R) <= MaxMetrics + 1
    BY <1>1
  <2>. DEFINE k == Len(R.custom)
              l == Len(R.request)
              m == Len(R.database)
              j == Len(R.external)
              t == Total(R)
              u == Total(P)
              less(x) == IF n <= x THEN x - n ELSE 0
  <2>3. /\ k \in Nat /\ l \in Nat /\ m \in Nat /\ j \in Nat
        /\ t = k + l + m + j /\ u = less(k) + less(l) + less(m) + less(j)
        /\ n \in {0, 1} /\ (n = 0 <=> t <= MaxMetrics) /\ t <= MaxMetrics + 1
    BY <1>2, <1>3, <1>8, <2>1, <2>2, Zenon
  <2>. HIDE DEF k, l, m, j, t, u
  <2>4. u <= MaxMetrics /\ u <= t /\ (u = t => n = 0)
    BY ONLY <2>2, <2>3
  <2>. QED  BY <2>4 DEF u, t
<1>10. Total(R) + 0 = Total(R)
  BY <1>2
<1>. QED  BY <1>6, <1>7, <1>9, <1>10 DEF Grows, P, Category

(* A custom metric more.                                                   *)
LEMMA MeasureGrows ==
  ASSUME NEW L \in [Category -> Seq(Sample)], NEW P, NEW n \in Nat, Grows(L, P, n), hour \in Nat
  PROVE  Grows(L, Measure(P), n + 1)
<1>. DEFINE R == [P EXCEPT !["custom"] = Append(@, Custom)]
            Q == Measure(P)
<1>1. /\ Lists(P, hour) /\ Total(P) <= MaxMetrics /\ Total(P) <= Total(L) + n
      /\ \A c \in Timed : Ends(P[c], L[c])
      /\ Total(P) = Total(L) + n => \A c \in Timed : P[c] = L[c]
  BY DEF Grows
<1>2. Custom \in Sample /\ Custom.at = hour
  BY DEF Custom, Sample
<1>3. "custom" \in Category /\ \A c \in Timed : c \in Category /\ c # "custom"
  BY DEF Category, Timed
<1>4. Lists(R, hour) /\ Total(R) = Total(P) + 1
  BY <1>1, <1>2, <1>3, PushFacts
<1>5. P \in [Category -> Seq(Sample)] /\ Total(P) \in Nat /\ Total(L) \in Nat /\ MaxMetrics \in Nat
  BY <1>1, TotalFacts, LimitsAssumption DEF Lists
<1>6. \A c \in Timed : R[c] = P[c]
  BY <1>3, <1>5
<1>7. Q = Enforce(R)
  BY DEF Measure, Push
<1>. HIDE DEF R, Q
<1>8. Grows(R, Q, 0)
  BY <1>1, <1>4, <1>5, <1>7, EnforceGrows
<1>9. /\ Lists(Q, hour) /\ Total(Q) <= MaxMetrics /\ Total(Q) <= Total(R) + 0
      /\ \A c \in Timed : Ends(Q[c], R[c])
      /\ Total(Q) = Total(R) + 0 => \A c \in Timed : Q[c] = R[c]
  BY <1>8 DEF Grows
<1>10. Total(Q) \in Nat /\ Q \in [Category -> Seq(Sample)]
  BY <1>9, TotalFacts DEF Lists
<1>11. \A c \in Timed : Ends(Q[c], L[c])
  <2>. TAKE c \in Timed
  <2>1. Q[c] \in Seq(Sample) /\ P[c] \in Seq(Sample) /\ L[c] \in Seq(Sample)
    BY <1>3, <1>5, <1>10
  <2>2. Ends(Q[c], P[c]) /\ Ends(P[c], L[c])
    BY <1>1, <1>6, <1>9
  <2>. QED  BY <2>1, <2>2, EndsTransitive
<1>12. Total(Q) <= Total(L) + (n + 1)
  BY <1>1, <1>4, <1>5, <1>9, <1>10
<1>13. ASSUME Total(Q) = Total(L) + (n + 1)
       PROVE  \A c \in Timed : Q[c] = L[c]
  <2>1. Total(Q) = Total(R) + 0 /\ Total(P) = Total(L) + n
    <3>1. n \in Nat /\ Total(P) <= Total(L) + n /\ Total(Q) <= Total(R) + 0
      BY <1>1, <1>9
    <3>. DEFINE q == Total(Q)
                r == Total(R)
                p == Total(P)
                l == Total(L)
    <3>2. /\ q \in Nat /\ p \in Nat /\ l \in Nat
          /\ r = p + 1 /\ q = l + (n + 1) /\ p <= l + n /\ q <= r + 0
      BY <1>4, <1>5, <1>10, <1>13, <3>1
    <3>. HIDE DEF q, r, p, l
    <3>3. q = r + 0 /\ p = l + n
      BY ONLY <3>1, <3>2
    <3>. QED  BY <3>3 DEF q, r, p, l
  <2>. QED  BY <1>1, <1>6, <1>9, <2>1
<1>. QED  BY <1>9, <1>11, <1>12, <1>13 DEF Grows, Q

-----------------------------------------------------------------------------
(* The lists and what was recorded                                         *)

(* A position among those a list of length n has lost when m are left.     *)
LEMMA PositionLost ==
  ASSUME NEW m \in Nat, NEW n \in Nat, NEW i \in 1 .. n - m
  PROVE  i \in 1 .. n
OBVIOUS

(* What l has lost of r was too old to be kept.                            *)
LostOld(l, r, h) == \A i \in 1 .. Len(r) - Len(l) : r[i].at <= h - RetentionHours

(* The inductive invariant of the metrics: the limit holds, the lists are  *)
(* ends of what was recorded, and as long as the limit dropped nothing,    *)
(* only the cleanup took something away.                                   *)
MetricsInv ==
  /\ hour \in Nat /\ dropped \in BOOLEAN
  /\ Lists(lists, hour) /\ Total(lists) <= MaxMetrics
  /\ recorded \in [Timed -> Seq(Sample)]
  /\ \A c \in Timed : InOrder(recorded[c], hour) /\ Ends(lists[c], recorded[c])
  /\ ~dropped => \A c \in Timed : LostOld(lists[c], recorded[c], hour)

LEMMA TimedFacts ==
  /\ "custom" \in Category /\ "custom" \notin Timed
  /\ \A c \in Timed : c \in Category /\ c # "custom"
BY DEF Category, Timed

LEMMA MetricsInit ==
  ASSUME MonitoringInit
  PROVE  MetricsInv
<1>1. <<>> \in Seq(Sample) /\ Len(<<>>) = 0 /\ 1 .. 0 = {} /\ 0 - 0 = 0
  BY EmptySeq
<1>2. \A h : InOrder(<<>>, h)
  BY <1>1 DEF InOrder
<1>3. lists \in [Category -> Seq(Sample)] /\ \A c \in Category : lists[c] = <<>>
  <2>1. /\ lists = [custom |-> <<>>, request |-> <<>>, database |-> <<>>, external |-> <<>>]
        /\ lists = [c \in Category |-> lists[c]]
    BY CategoryIs DEF MonitoringInit
  <2>2. \A c \in Category : lists[c] = <<>>
    BY <2>1, CategoryIs
  <2>. QED  BY <1>1, <2>1, <2>2
<1>4. Total(lists) = 0
  BY <1>1 DEF MonitoringInit, Total
<1>5. \A c \in Timed : lists[c] = <<>> /\ recorded[c] = <<>>
  BY <1>3, TimedFacts DEF MonitoringInit
<1>6. Ends(<<>>, <<>>) /\ \A h : LostOld(<<>>, <<>>, h)
  BY <1>1 DEF Ends, LostOld
<1>7. recorded \in [Timed -> Seq(Sample)] /\ hour = 0 /\ dropped = FALSE
  BY <1>1 DEF MonitoringInit
<1>8. MaxMetrics \in Nat
  BY LimitsAssumption
<1>9. Lists(lists, hour)
  BY <1>2, <1>3 DEF Lists
<1>10. \A c \in Timed : /\ InOrder(recorded[c], hour) /\ Ends(lists[c], recorded[c])
                         /\ LostOld(lists[c], recorded[c], hour)
  BY <1>2, <1>5, <1>6, <1>7
<1>11. hour \in Nat /\ dropped \in BOOLEAN /\ Total(lists) <= MaxMetrics
  <2>1. 0 <= MaxMetrics
    BY <1>8
  <2>. QED  BY <1>4, <1>7, <2>1
<1>. QED  BY <1>7, <1>9, <1>10, <1>11 DEF MetricsInv

(* A store after a sample of the timed category c.                         *)
LEMMA StoreTimed ==
  ASSUME MetricsInv, NEW c \in Timed, NEW x \in Sample, x.at = hour, NEW n \in Nat, NEW P,
         Grows([lists EXCEPT ![c] = Append(@, x)], P, n), Store(P, n + 1),
         recorded' = [recorded EXCEPT ![c] = Append(@, x)], hour' = hour
  PROVE  MetricsInv'
<1>. DEFINE L == [lists EXCEPT ![c] = Append(@, x)]
<1>1. /\ hour \in Nat /\ dropped \in BOOLEAN /\ Lists(lists, hour)
      /\ lists \in [Category -> Seq(Sample)] /\ recorded \in [Timed -> Seq(Sample)]
      /\ \A d \in Timed : InOrder(recorded[d], hour) /\ Ends(lists[d], recorded[d])
      /\ ~dropped => \A d \in Timed : LostOld(lists[d], recorded[d], hour)
  BY DEF MetricsInv, Lists
<1>2. c \in Category /\ Lists(L, hour) /\ Total(L) = Total(lists) + 1
  BY <1>1, TimedFacts, PushFacts
<1>3. L \in [Category -> Seq(Sample)] /\ Total(L) \in Nat /\ Total(lists) \in Nat
  BY <1>1, <1>2, TotalFacts DEF Lists
<1>4. /\ \A d \in Timed : L[d] = IF d = c THEN Append(lists[c], x) ELSE lists[d]
      /\ \A d \in Timed : recorded'[d] = IF d = c THEN Append(recorded[c], x) ELSE recorded[d]
      /\ \A d \in Timed : lists[d] \in Seq(Sample) /\ recorded[d] \in Seq(Sample)
  BY <1>1, TimedFacts
<1>. HIDE DEF L
<1>5. /\ lists' = P /\ dropped' = (dropped \/ Total(P) < Total(lists) + (n + 1))
      /\ Lists(P, hour) /\ Total(P) <= MaxMetrics /\ Total(P) <= Total(L) + n
      /\ \A d \in Timed : Ends(P[d], L[d])
      /\ Total(P) = Total(L) + n => \A d \in Timed : P[d] = L[d]
  BY DEF Store, Grows, L
<1>6. P \in [Category -> Seq(Sample)] /\ Total(P) \in Nat
  BY <1>5, TotalFacts DEF Lists
<1>7. \A d \in Timed : recorded'[d] \in Seq(Sample) /\ InOrder(recorded'[d], hour)
  <2>. TAKE d \in Timed
  <2>1. CASE d # c
    BY <1>1, <1>4, <2>1
  <2>2. CASE d = c
    <3>1. Append(recorded[c], x) \in Seq(Sample) /\ InOrder(Append(recorded[c], x), hour)
      BY <1>1, <1>4, AppendInOrder
    <3>. QED  BY <1>4, <2>2, <3>1
  <2>. QED  BY <2>1, <2>2
<1>8. \A d \in Timed : L[d] \in Seq(Sample) /\ Ends(L[d], recorded'[d])
  <2>. TAKE d \in Timed
  <2>1. L[d] \in Seq(Sample)
    BY <1>3, TimedFacts
  <2>2. CASE d # c
    BY <1>1, <1>4, <2>1, <2>2
  <2>3. CASE d = c
    <3>1. Ends(Append(lists[c], x), Append(recorded[c], x))
      BY <1>1, <1>4, EndsAppend
    <3>. QED  BY <1>4, <2>1, <2>3, <3>1
  <2>. QED  BY <2>2, <2>3
<1>9. \A d \in Timed : Ends(P[d], recorded'[d])
  <2>. TAKE d \in Timed
  <2>1. P[d] \in Seq(Sample)
    BY <1>6, TimedFacts
  <2>. QED  BY <1>5, <1>7, <1>8, <2>1, EndsTransitive
<1>10. ASSUME ~dropped', NEW d \in Timed
       PROVE  LostOld(P[d], recorded'[d], hour)
  <2>1. ~dropped /\ Total(P) = Total(L) + n
    <3>. DEFINE p == Total(P)
                l == Total(L)
                m == Total(lists)
    <3>1. p \in Nat /\ m \in Nat /\ ~(p < m + (n + 1)) /\ l = m + 1 /\ p <= l + n
      BY <1>2, <1>3, <1>5, <1>6, <1>10
    <3>. HIDE DEF p, l, m
    <3>2. p = l + n
      BY ONLY <3>1, n \in Nat
    <3>. QED  BY <1>5, <1>10, <3>2 DEF p, l
  <2>2. P[d] = L[d] /\ LostOld(lists[d], recorded[d], hour)
    BY <1>1, <1>5, <2>1
  <2>3. CASE d # c
    BY <1>4, <2>2, <2>3
  <2>4. CASE d = c
    <3>1. LostOld(Append(lists[c], x), Append(recorded[c], x), hour)
      <4>1. /\ Len(lists[c]) \in Nat /\ Len(recorded[c]) \in Nat
            /\ Len(Append(lists[c], x)) = Len(lists[c]) + 1
            /\ Len(Append(recorded[c], x)) = Len(recorded[c]) + 1
            /\ \A i \in 1 .. Len(recorded[c]) : Append(recorded[c], x)[i] = recorded[c][i]
        BY <1>4, AppendProperties, LenProperties
      <4>2. \A i \in 1 .. Len(recorded[c]) - Len(lists[c]) : recorded[c][i].at <= hour - RetentionHours
        BY <2>2, <2>4 DEF LostOld
      <4>3. \A i \in 1 .. Len(Append(recorded[c], x)) - Len(Append(lists[c], x)) :
              i \in 1 .. Len(recorded[c]) - Len(lists[c]) /\ i \in 1 .. Len(recorded[c])
        <5>. DEFINE l == Len(lists[c])
                    m == Len(recorded[c])
                    a == Len(Append(lists[c], x))
                    b == Len(Append(recorded[c], x))
        <5>1. l \in Nat /\ m \in Nat /\ a = l + 1 /\ b = m + 1
          BY <4>1
        <5>. HIDE DEF l, m, a, b
        <5>2. \A i \in 1 .. b - a : i \in 1 .. m - l /\ i \in 1 .. m
          BY ONLY <5>1
        <5>. QED  BY <5>2 DEF l, m, a, b
      <4>. QED  BY <4>1, <4>2, <4>3 DEF LostOld
    <3>. QED  BY <1>4, <2>2, <2>4, <3>1
  <2>. QED  BY <2>3, <2>4
<1>11. recorded' \in [Timed -> Seq(Sample)] /\ dropped' \in BOOLEAN
  <2>1. Append(recorded[c], x) \in Seq(Sample)
    BY <1>4, AppendProperties
  <2>. QED  BY <1>1, <1>5, <2>1
<1>12. Lists(lists, hour)' /\ (Total(lists) <= MaxMetrics)'
  BY <1>5
<1>13. (\A d \in Timed : InOrder(recorded[d], hour) /\ Ends(lists[d], recorded[d]))'
  BY <1>5, <1>7, <1>9
<1>14. (~dropped => \A d \in Timed : LostOld(lists[d], recorded[d], hour))'
  BY <1>5, <1>10
<1>. QED  BY <1>1, <1>11, <1>12, <1>13, <1>14 DEF MetricsInv

(* A store of custom metrics only.                                         *)
LEMMA StoreCustom ==
  ASSUME MetricsInv, NEW n \in Nat, NEW P, Grows(lists, P, n), Store(P, n),
         UNCHANGED <<recorded, hour>>
  PROVE  MetricsInv'
<1>1. /\ hour \in Nat /\ dropped \in BOOLEAN
      /\ lists \in [Category -> Seq(Sample)] /\ recorded \in [Timed -> Seq(Sample)]
      /\ \A d \in Timed : InOrder(recorded[d], hour) /\ Ends(lists[d], recorded[d])
      /\ ~dropped => \A d \in Timed : LostOld(lists[d], recorded[d], hour)
  BY DEF MetricsInv, Lists
<1>2. /\ lists' = P /\ dropped' = (dropped \/ Total(P) < Total(lists) + n)
      /\ Lists(P, hour) /\ Total(P) <= MaxMetrics /\ Total(P) <= Total(lists) + n
      /\ \A d \in Timed : Ends(P[d], lists[d])
      /\ Total(P) = Total(lists) + n => \A d \in Timed : P[d] = lists[d]
  BY DEF Store, Grows
<1>3. P \in [Category -> Seq(Sample)] /\ Total(P) \in Nat /\ Total(lists) \in Nat
  BY <1>1, <1>2, TotalFacts DEF Lists
<1>4. \A d \in Timed : Ends(P[d], recorded[d])
  <2>. TAKE d \in Timed
  <2>1. P[d] \in Seq(Sample) /\ lists[d] \in Seq(Sample) /\ recorded[d] \in Seq(Sample)
    BY <1>1, <1>3, TimedFacts
  <2>. QED  BY <1>1, <1>2, <2>1, EndsTransitive
<1>5. ASSUME ~dropped', NEW d \in Timed
      PROVE  LostOld(P[d], recorded[d], hour)
  <2>1. ~dropped /\ Total(P) = Total(lists) + n
    <3>. DEFINE p == Total(P)
                m == Total(lists)
    <3>1. p \in Nat /\ m \in Nat /\ ~(p < m + n) /\ p <= m + n
      BY <1>2, <1>3, <1>5
    <3>. HIDE DEF p, m
    <3>2. p = m + n
      BY ONLY <3>1, n \in Nat
    <3>. QED  BY <1>2, <1>5, <3>2 DEF p, m
  <2>. QED  BY <1>1, <1>2, <2>1
<1>6. Lists(lists, hour)' /\ (Total(lists) <= MaxMetrics)' /\ dropped' \in BOOLEAN
  BY <1>1, <1>2
<1>7. (\A d \in Timed : InOrder(recorded[d], hour) /\ Ends(lists[d], recorded[d]))'
  BY <1>1, <1>2, <1>4
<1>8. (~dropped => \A d \in Timed : LostOld(lists[d], recorded[d], hour))'
  BY <1>2, <1>5
<1>. QED  BY <1>1, <1>6, <1>7, <1>8 DEF MetricsInv

LEMMA RecordTimedKeeps ==
  ASSUME MetricsInv, NEW c \in Timed, NEW took \in Nat, NEW ok \in BOOLEAN,
         RecordTimed(c, took, ok)
  PROVE  MetricsInv'
<1>. DEFINE x == [at |-> hour, took |-> took, ok |-> ok]
            L == [lists EXCEPT ![c] = Append(@, x)]
            n == IF c = "request" THEN 2 ELSE 1
<1>1. hour \in Nat /\ Lists(lists, hour) /\ Total(lists) <= MaxMetrics /\ MaxMetrics \in Nat
  BY LimitsAssumption DEF MetricsInv
<1>2. x \in Sample /\ x.at = hour
  BY <1>1 DEF Sample
<1>3. /\ Store(Recorded(c, x), IF c = "request" THEN 3 ELSE 2)
      /\ recorded' = [recorded EXCEPT ![c] = Append(@, x)]
      /\ hour' = hour
  BY DEF RecordTimed
<1>. HIDE DEF x
<1>4. c \in Category /\ c # "custom" /\ Lists(L, hour) /\ Total(L) = Total(lists) + 1
  BY <1>1, <1>2, TimedFacts, PushFacts
<1>5. L \in [Category -> Seq(Sample)] /\ Push(lists, c, x) = Enforce(L)
  BY <1>4 DEF Lists, Push
<1>6. Total(L) <= MaxMetrics + 1
  <2>. DEFINE m == Total(lists)
  <2>1. m \in Nat
    BY <1>1, TotalFacts DEF Lists
  <2>. HIDE DEF m
  <2>2. m <= MaxMetrics => m + 1 <= MaxMetrics + 1
    BY <1>1, <2>1
  <2>. QED  BY <1>1, <1>4, <2>2 DEF m
<1>. HIDE DEF L
<1>7. Grows(L, Push(lists, c, x), 0)
  BY <1>4, <1>5, <1>6, EnforceGrows
<1>8. Grows(L, Measure(Push(lists, c, x)), 1)
  BY <1>1, <1>5, <1>7, MeasureGrows, 0 + 1 = 1
<1>9. Grows(L, Measure(Measure(Push(lists, c, x))), 2)
  BY <1>1, <1>5, <1>8, MeasureGrows, 1 + 1 = 2
<1>10. Grows(L, Recorded(c, x), n)
  BY <1>4, <1>8, <1>9 DEF Recorded
<1>11. Store(Recorded(c, x), n + 1) /\ n \in Nat
  <2>1. CASE c = "request"
    BY <1>3, <2>1, 2 + 1 = 3
  <2>2. CASE c # "request"
    BY <1>3, <2>2, 1 + 1 = 2
  <2>. QED  BY <2>1, <2>2
<1>. HIDE DEF n
<1>. QED  BY <1>2, <1>3, <1>10, <1>11, StoreTimed DEF L

LEMMA MeasureKeeps ==
  ASSUME MetricsInv
  PROVE  Grows(lists, lists, 0) /\ hour \in Nat /\ lists \in [Category -> Seq(Sample)]
<1>1. Lists(lists, hour) /\ Total(lists) <= MaxMetrics /\ hour \in Nat
  BY DEF MetricsInv
<1>2. lists \in [Category -> Seq(Sample)] /\ Total(lists) \in Nat
  BY <1>1, TotalFacts DEF Lists
<1>3. Total(lists) <= Total(lists) + 0
  BY <1>2
<1>4. \A c \in Timed : Ends(lists[c], lists[c])
  BY <1>2, EndsItself, TimedFacts
<1>. QED  BY <1>1, <1>2, <1>3, <1>4 DEF Grows

LEMMA RecordMetricKeeps ==
  ASSUME MetricsInv, RecordMetric, hour' = hour
  PROVE  MetricsInv'
<1>1. Grows(lists, lists, 0) /\ hour \in Nat /\ lists \in [Category -> Seq(Sample)]
  BY MeasureKeeps
<1>2. Grows(lists, Measure(lists), 1)
  BY <1>1, MeasureGrows, 0 + 1 = 1
<1>3. Recorded("custom", Custom) = Measure(lists)
  BY DEF Recorded
<1>. QED  BY <1>2, <1>3, StoreCustom DEF RecordMetric

LEMMA CollectKeeps ==
  ASSUME MetricsInv, CollectSystemMetrics
  PROVE  MetricsInv'
<1>. DEFINE one == Measure(lists)
            two == Measure(one)
            three == Measure(two)
            four == Measure(three)
            five == Measure(four)
            six == Measure(five)
<1>1. Grows(lists, lists, 0) /\ hour \in Nat /\ lists \in [Category -> Seq(Sample)]
  BY MeasureKeeps
<1>2. Grows(lists, one, 1)
  BY <1>1, MeasureGrows, 0 + 1 = 1
<1>3. Grows(lists, two, 2)
  <2>. HIDE DEF one
  <2>. QED  BY <1>1, <1>2, MeasureGrows, 1 + 1 = 2
<1>4. Grows(lists, three, 3)
  <2>. HIDE DEF two
  <2>. QED  BY <1>1, <1>3, MeasureGrows, 2 + 1 = 3
<1>5. Grows(lists, four, 4)
  <2>. HIDE DEF three
  <2>. QED  BY <1>1, <1>4, MeasureGrows, 3 + 1 = 4
<1>6. Grows(lists, five, 5)
  <2>. HIDE DEF four
  <2>. QED  BY <1>1, <1>5, MeasureGrows, 4 + 1 = 5
<1>7. Grows(lists, six, 6)
  <2>. HIDE DEF five
  <2>. QED  BY <1>1, <1>6, MeasureGrows, 5 + 1 = 6
<1>8. Store(six, 6) /\ UNCHANGED <<recorded, hour>>
  BY DEF CollectSystemMetrics, SystemRecorded
<1>. HIDE DEF six
<1>. QED  BY <1>7, <1>8, StoreCustom

(* The cleanup takes away only what is past the retention.                 *)
LEMMA CleanupKeeps ==
  ASSUME MetricsInv, CleanupOldMetrics
  PROVE  MetricsInv'
<1>. DEFINE P == [custom |-> Kept(lists.custom), request |-> Kept(lists.request),
                  database |-> Kept(lists.database), external |-> Kept(lists.external)]
<1>1. /\ hour \in Nat /\ dropped \in BOOLEAN /\ Lists(lists, hour)
      /\ lists \in [Category -> Seq(Sample)] /\ recorded \in [Timed -> Seq(Sample)]
      /\ \A c \in Timed : InOrder(recorded[c], hour) /\ Ends(lists[c], recorded[c])
      /\ ~dropped => \A c \in Timed : LostOld(lists[c], recorded[c], hour)
      /\ Total(lists) <= MaxMetrics /\ MaxMetrics \in Nat
  BY LimitsAssumption DEF MetricsInv, Lists
<1>2. lists' = P /\ UNCHANGED <<recorded, dropped, hour>>
  BY DEF CleanupOldMetrics
<1>3. (\A c \in Category : P[c] = Kept(lists[c])) /\ P = [c \in Category |-> P[c]]
  BY CategoryIs
<1>4. /\ P.custom = Kept(lists["custom"]) /\ P.request = Kept(lists["request"])
      /\ P.database = Kept(lists["database"]) /\ P.external = Kept(lists["external"])
  OBVIOUS
<1>. HIDE DEF P
<1>5. hour - RetentionHours \in Int
  BY <1>1, LimitsAssumption
<1>6. \A c \in Category :
        /\ lists[c] \in Seq(Sample) /\ Len(lists[c]) \in Nat
        /\ P[c] \in Seq(Sample) /\ InOrder(P[c], hour) /\ Ends(P[c], lists[c])
        /\ \A i \in 1 .. Len(lists[c]) - Len(P[c]) : lists[c][i].at <= hour - RetentionHours
  <2>. TAKE c \in Category
  <2>1. lists[c] \in Seq(Sample) /\ InOrder(lists[c], hour) /\ List(lists[c], hour)
    BY <1>1 DEF Lists, List
  <2>2. P[c] = Younger(lists[c], hour - RetentionHours)
    BY <1>3 DEF Kept
  <2>3. /\ P[c] \in Seq(Sample) /\ List(P[c], hour) /\ Ends(P[c], lists[c])
        /\ \A i \in 1 .. Len(lists[c]) - Len(P[c]) : lists[c][i].at <= hour - RetentionHours
    BY <1>1, <1>5, <2>1, <2>2, YoungerFacts
  <2>4. Len(lists[c]) \in Nat
    BY <2>1, LenProperties
  <2>. QED  BY <2>1, <2>3, <2>4 DEF List
<1>7. Lists(P, hour)
  <2>1. P \in [Category -> Seq(Sample)]
    BY <1>3, <1>6
  <2>. QED  BY <1>6, <2>1 DEF Lists
<1>8. Total(P) <= MaxMetrics
  <2>. DEFINE k(L) == Len(L.custom)
              l(L) == Len(L.request)
              m(L) == Len(L.database)
              n(L) == Len(L.external)
              t(L) == Total(L)
  <2>1. P \in [Category -> Seq(Sample)]
    BY <1>7 DEF Lists
  <2>2. /\ k(P) \in Nat /\ l(P) \in Nat /\ m(P) \in Nat /\ n(P) \in Nat
        /\ t(P) = k(P) + l(P) + m(P) + n(P)
    BY <2>1, TotalFacts
  <2>3. /\ k(lists) \in Nat /\ l(lists) \in Nat /\ m(lists) \in Nat /\ n(lists) \in Nat
        /\ t(lists) = k(lists) + l(lists) + m(lists) + n(lists)
    BY <1>1, TotalFacts
  <2>4. \A c \in Category : Len(P[c]) <= Len(lists[c])
    BY <1>6 DEF Ends
  <2>5. k(P) <= k(lists) /\ l(P) <= l(lists) /\ m(P) <= m(lists) /\ n(P) <= n(lists)
    BY <2>4, CategoryIs
  <2>6. t(lists) <= MaxMetrics /\ MaxMetrics \in Nat
    BY <1>1
  <2>. HIDE DEF k, l, m, n, t
  <2>7. t(P) <= MaxMetrics
    BY ONLY <2>2, <2>3, <2>5, <2>6
  <2>. QED  BY <2>7 DEF t
<1>9. ASSUME NEW c \in Timed
      PROVE  Ends(P[c], recorded[c]) /\ (~dropped => LostOld(P[c], recorded[c], hour))
  <2>1. /\ c \in Category /\ P[c] \in Seq(Sample) /\ lists[c] \in Seq(Sample)
        /\ recorded[c] \in Seq(Sample) /\ Ends(P[c], lists[c]) /\ Ends(lists[c], recorded[c])
    BY <1>1, <1>6, TimedFacts
  <2>2. Ends(P[c], recorded[c])
    BY <2>1, EndsTransitive
  <2>3. ASSUME ~dropped, NEW i \in 1 .. Len(recorded[c]) - Len(P[c])
        PROVE  recorded[c][i].at <= hour - RetentionHours
    <3>. DEFINE d == Len(recorded[c]) - Len(lists[c])
    <3>1. /\ Len(P[c]) \in Nat /\ Len(lists[c]) \in Nat /\ Len(recorded[c]) \in Nat
          /\ Len(P[c]) <= Len(lists[c]) /\ Len(lists[c]) <= Len(recorded[c])
      BY <2>1, LenProperties DEF Ends
    <3>2. CASE i \in 1 .. d
      BY <1>1, <2>3, <3>2 DEF LostOld
    <3>3. CASE i \notin 1 .. d
      <4>1. /\ i - d \in 1 .. Len(lists[c]) - Len(P[c]) /\ i - d \in 1 .. Len(lists[c])
            /\ (i - d) + Len(recorded[c]) - Len(lists[c]) = i
        <5>. DEFINE k == Len(P[c])
                    m == Len(lists[c])
                    n == Len(recorded[c])
        <5>1. /\ k \in Nat /\ m \in Nat /\ n \in Nat /\ k <= m /\ m <= n
              /\ i \in 1 .. n - k /\ i \notin 1 .. n - m
          BY <3>1, <3>3
        <5>. HIDE DEF k, m, n
        <5>2. /\ i - (n - m) \in 1 .. m - k /\ i - (n - m) \in 1 .. m
              /\ (i - (n - m)) + n - m = i
          BY ONLY <5>1
        <5>. QED  BY <5>2 DEF k, m, n
      <4>2. lists[c][i - d] = recorded[c][(i - d) + Len(recorded[c]) - Len(lists[c])]
        BY <2>1, <4>1 DEF Ends
      <4>4. lists[c][i - d].at <= hour - RetentionHours
        BY <1>6, <2>1, <4>1
      <4>. QED  BY <4>1, <4>2, <4>4
    <3>. QED  BY <3>2, <3>3
  <2>. QED  BY <2>2, <2>3 DEF LostOld
<1>. QED  BY <1>1, <1>2, <1>7, <1>8, <1>9 DEF MetricsInv

LEMMA HourKeeps ==
  ASSUME MetricsInv, HourPasses
  PROVE  MetricsInv'
<1>1. hour \in Nat /\ hour' = hour + 1 /\ UNCHANGED <<lists, recorded, dropped>>
  BY DEF MetricsInv, HourPasses, metricVars
<1>2. \A s \in Seq(Sample) : InOrder(s, hour) => InOrder(s, hour')
  <2>. SUFFICES ASSUME NEW s \in Seq(Sample), InOrder(s, hour) PROVE InOrder(s, hour')
    OBVIOUS
  <2>1. \A i \in 1 .. Len(s) : s[i].at \in Nat
    BY ListFacts
  <2>2. \A i \in 1 .. Len(s) : s[i].at <= hour'
    BY <1>1, <2>1 DEF InOrder
  <2>. QED  BY <2>2 DEF InOrder
<1>3. ASSUME NEW c \in Timed, LostOld(lists[c], recorded[c], hour)
      PROVE  LostOld(lists[c], recorded[c], hour')
  <2>1. /\ recorded[c] \in Seq(Sample) /\ lists[c] \in Seq(Sample)
        /\ Len(recorded[c]) \in Nat /\ Len(lists[c]) \in Nat
    <3>1. recorded[c] \in Seq(Sample) /\ lists[c] \in Seq(Sample)
      BY TimedFacts DEF MetricsInv, Lists
    <3>. QED  BY <3>1, LenProperties
  <2>2. \A i \in 1 .. Len(recorded[c]) : recorded[c][i].at \in Nat
    BY <2>1, ListFacts
  <2>3. ASSUME NEW i \in 1 .. Len(recorded[c]) - Len(lists[c])
        PROVE  recorded[c][i].at <= hour' - RetentionHours
    <3>1. recorded[c][i].at <= hour - RetentionHours
      BY <1>3 DEF LostOld
    <3>2. i \in 1 .. Len(recorded[c])
      BY <2>1, PositionLost
    <3>. QED  BY <1>1, <2>2, <3>1, <3>2, LimitsAssumption
  <2>. QED  BY <2>3 DEF LostOld
<1>4. Lists(lists, hour')
  BY <1>2 DEF MetricsInv, Lists
<1>5. \A c \in Timed : InOrder(recorded[c], hour')
  BY <1>2 DEF MetricsInv
<1>. QED  BY <1>1, <1>3, <1>4, <1>5 DEF MetricsInv

(* Until the limit dropped something, the last hour of a list is the last  *)
(* hour of what was recorded.                                              *)
THEOREM RecentExact ==
  ASSUME MetricsInv, ~dropped, NEW c \in Timed
  PROVE  Recent(lists[c]) = Recent(recorded[c])
<1>1. /\ hour \in Nat /\ lists[c] \in Seq(Sample) /\ recorded[c] \in Seq(Sample)
      /\ InOrder(lists[c], hour) /\ InOrder(recorded[c], hour)
      /\ Ends(lists[c], recorded[c]) /\ LostOld(lists[c], recorded[c], hour)
  BY TimedFacts DEF MetricsInv, Lists
<1>2. \A i \in 1 .. Len(recorded[c]) - Len(lists[c]) : recorded[c][i].at <= hour - 1
  <2>. TAKE i \in 1 .. Len(recorded[c]) - Len(lists[c])
  <2>1. recorded[c][i].at <= hour - RetentionHours
    BY <1>1 DEF LostOld
  <2>2. i \in 1 .. Len(recorded[c])
    BY <1>1, LenProperties
  <2>3. recorded[c][i].at \in Nat
    BY <1>1, <2>2, ListFacts
  <2>. QED  BY <1>1, <2>1, <2>3, LimitsAssumption
<1>. QED  BY <1>1, <1>2, YoungerSame DEF Recent, List

(* The arithmetic of the error rate: one failure of so few is above it.    *)
LEMMA RateExceeded ==
  ASSUME NEW n \in Nat, NEW m \in Nat, m <= n, NEW p \in Nat, n * p < 100,
         NEW e \in Nat, e >= 1
  PROVE  10000 * e > 100 * p * m
<1>1. m * p <= n * p
  <2>1. PICK k \in Nat : n = m + k
    <3>1. n - m \in Nat /\ n = m + (n - m)
      OBVIOUS
    <3>. QED  BY <3>1
  <2>2. n * p = m * p + k * p /\ k * p \in Nat /\ m * p \in Nat
    BY <2>1
  <2>. QED  BY <2>2
<1>2. 100 * p * m = 100 * (m * p) /\ m * p \in Nat
  OBVIOUS
<1>. DEFINE q == m * p
<1>3. q \in Nat /\ q < 100
  <2>1. n * p \in Nat
    OBVIOUS
  <2>. QED  BY <1>1, <1>2, <2>1
<1>. HIDE DEF q
<1>4. 10000 * e > 100 * q
  BY <1>3
<1>. QED  BY <1>2, <1>4 DEF q

(* A check finds a failure of the present hour, when requests are few.     *)
THEOREM FailureRaises ==
  ASSUME MetricsInv, ~dropped, NEW i \in DOMAIN recorded["request"],
         ~recorded["request"][i].ok, recorded["request"][i].at = hour,
         Len(recorded["request"]) * ErrorPercent < 100, NEW memory
  PROVE  "errors" \in Raised(memory)
<1>. DEFINE r == recorded["request"]
            y == Recent(r)
            e == Cardinality(Failures(y))
<1>1. /\ r \in Seq(Sample) /\ hour \in Nat /\ List(r, hour) /\ "request" \in Timed
      /\ Len(r) \in Nat /\ i \in 1 .. Len(r)
  <2>1. "request" \in Timed
    BY DEF Timed
  <2>2. r \in Seq(Sample) /\ hour \in Nat /\ List(r, hour)
    BY <2>1 DEF MetricsInv, List
  <2>. QED  BY <2>1, <2>2, LenProperties
<1>2. /\ y \in Seq(Sample) /\ Ends(y, r) /\ Len(y) \in Nat /\ Len(y) <= Len(r)
      /\ \A j \in 1 .. Len(r) - Len(y) : r[j].at <= hour - 1
  <2>1. hour - 1 \in Int
    BY <1>1
  <2>2. /\ y \in Seq(Sample) /\ Ends(y, r)
        /\ \A j \in 1 .. Len(r) - Len(y) : r[j].at <= hour - 1
    BY <1>1, <2>1, YoungerFacts DEF Recent
  <2>. QED  BY <2>2, LenProperties DEF Ends
<1>3. \E j \in 1 .. Len(y) : y[j] = r[i]
  <2>1. i \notin 1 .. Len(r) - Len(y)
    <3>1. ~ (hour <= hour - 1)
      BY <1>1
    <3>. QED  BY <1>2, <3>1
  <2>. DEFINE m == Len(r)
              k == Len(y)
              j == i - (m - k)
  <2>2. m \in Nat /\ k \in Nat /\ k <= m /\ i \in 1 .. m /\ i \notin 1 .. m - k
    BY <1>1, <1>2, <2>1
  <2>. HIDE DEF m, k
  <2>3. j \in 1 .. k /\ j + m - k = i
    BY ONLY <2>2
  <2>4. j \in 1 .. Len(y) /\ j + Len(r) - Len(y) = i
    BY <2>3 DEF m, k
  <2>. HIDE DEF j
  <2>. QED  BY <1>2, <2>4 DEF Ends
<1>4. e \in Nat /\ e >= 1
  <2>1. Failures(y) # {} /\ Failures(y) \subseteq 1 .. Len(y)
    <3>1. DOMAIN y = 1 .. Len(y) /\ ~r[i].ok
      BY <1>2, LenProperties
    <3>. HIDE DEF y, r
    <3>. QED  BY <1>3, <3>1 DEF Failures
  <2>2. IsFiniteSet(Failures(y))
    <3>1. IsFiniteSet(1 .. Len(y))
      BY <1>2, FS_Interval
    <3>. HIDE DEF y
    <3>. QED  BY <2>1, <3>1, FS_Subset
  <2>3. e \in Nat /\ e # 0
    BY <2>1, <2>2, FS_CardinalityType, FS_EmptySet
  <2>. HIDE DEF e
  <2>. QED  BY <2>3
<1>5. Summary(lists)["request"] = [total |-> Len(y), average |-> Average(y), errors |-> e]
  <2>1. Recent(lists["request"]) = y
    BY <1>1, RecentExact
  <2>. HIDE DEF y
  <2>. QED  BY <1>1, <2>1 DEF Summary
<1>6. 10000 * e > 100 * ErrorPercent * Len(y)
  <2>1. ErrorPercent \in Nat
    BY ThresholdsAssumption
  <2>. DEFINE n == Len(r)
              m == Len(y)
  <2>2. n \in Nat /\ m \in Nat /\ m <= n /\ n * ErrorPercent < 100
    BY <1>1, <1>2
  <2>. HIDE DEF e, y, r, n, m
  <2>3. 10000 * e > 100 * ErrorPercent * m
    BY <1>4, <2>1, <2>2, RateExceeded
  <2>. QED  BY <2>3 DEF m
<1>. DEFINE sum == Summary(lists)
<1>7. 10000 * sum["request"].errors > 100 * ErrorPercent * sum["request"].total
  <2>1. sum["request"].errors = e /\ sum["request"].total = Len(y)
    <3>. HIDE DEF e, y, sum
    <3>1. sum["request"] = [total |-> Len(y), average |-> Average(y), errors |-> e]
      BY <1>5 DEF sum
    <3>. QED  BY <3>1
  <2>. QED  BY <1>6, <2>1
<1>8. "errors" \in Above(100, memory)
  BY <1>7 DEF Above
<1>. QED  BY <1>8 DEF Raised
=============================================================================
